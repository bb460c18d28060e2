---------------------------- MODULE MCFileSpace ----------------------------
(* Two files of up to three blocks on an aggregate with three free blocks. *)
EXTENDS FileSpace

CONSTANTS f1, f2

MCFiles == {f1, f2}
MCPmap == 2 .. 4
MCUntainted == {{}}
FileSymmetry == Permutations(MCFiles)
=============================================================================
