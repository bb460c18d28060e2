---------------------------- MODULE MCLockTable ----------------------------
(* Three owners and one file with offsets of three bits. *)
EXTENDS LockTable, TLC

CONSTANTS i1, o1, o2, o3

MCInodes == {i1}
MCOwners == {o1, o2, o3}
MCStarts == {-3, 0, 1}
MCLens == {0, 2}
MCFileSizes == {3}
OwnerSymmetry == Permutations(MCOwners)
=============================================================================
