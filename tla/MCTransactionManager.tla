------------------------ MODULE MCTransactionManager ------------------------
(***************************************************************************)
(* Three inodes in two inode-table blocks, two of them sharing a block.    *)
(***************************************************************************)
EXTENDS TransactionManager, TLC

CONSTANTS i1, i2, i3, b1, b2

MCInodes == {i1, i2, i3}
MCBlocks == {b1, b2}
MCBlockOf == [i \in MCInodes |-> IF i = i3 THEN b2 ELSE b1]

\* The two inodes of the shared block are interchangeable.
MCSymmetry == Permutations({i1, i2})

=============================================================================
