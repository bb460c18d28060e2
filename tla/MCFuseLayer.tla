---------------------------- MODULE MCFuseLayer -----------------------------
(***************************************************************************)
(* Two inodes that share a block of the inode table, three handles, second *)
(* links and lookups, and one I/O error.                                   *)
(***************************************************************************)
EXTENDS FuseLayer, TLC

CONSTANTS i1, i2

MCInodes == {i1, i2}
MCBlockOf == [i \in MCInodes |-> 1]
MCSymmetry == Permutations(MCInodes)
=============================================================================
