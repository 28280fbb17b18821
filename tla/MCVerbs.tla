------------------------------- MODULE MCVerbs -------------------------------
(***************************************************************************)
(* Instances of VerbsProperties for TLC.                                   *)
(***************************************************************************)
EXTENDS MCKv, VerbsProperties
=============================================================================
