---------------------------- MODULE MCLogManager ----------------------------
(* LogManager with one loggable block: offsets do not depend on it.        *)
EXTENDS LogManager

CONSTANT b1

MCFsBlocks == {b1}
=============================================================================
