------------------------- MODULE MCJournaledVolume --------------------------
(* JournaledVolume with transactions over one or two blocks.               *)
EXTENDS JournaledVolume

CONSTANTS b1, b2

MCFsBlocks == {b1, b2}
OneBlock == {b1}
SingleLists == {<<b1>>}
PairLists == {<<b1>>, <<b1, b2>>}
=============================================================================
