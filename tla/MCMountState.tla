---------------------------- MODULE MCMountState ----------------------------
(***************************************************************************)
(* A user who runs any of the programs, one after the other, and one who   *)
(* runs jfsck --read-only beside them at any moment; an image with one     *)
(* broken part or none.                                                    *)
(***************************************************************************)
EXTENDS MountState, TLC

MCUsers == <<Kinds, {"read_only"}>>

MCDamages == {{}} \cup {{part} : part \in Parts \ {"deep"}}
=============================================================================
