---------------------------- MODULE MCNamespace ----------------------------
(***************************************************************************)
(* The root directory shares its block of the inode table with another     *)
(* inode; a third inode, the one that is allocated first, has a block of   *)
(* its own.  The cache holds two copies, and a directory three entries.    *)
(***************************************************************************)
EXTENDS Namespace

CONSTANTS a, b

MCInodes == 1 .. 3
MCBlockOf == <<1, 2, 2>>
MCNames == {a, b}
MCSymmetry == Permutations(MCNames)
MCNoList == <<>>
MCUnhurt == {{}}
=============================================================================
