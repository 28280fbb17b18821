----------------------------- MODULE MCTimings -----------------------------
(***************************************************************************)
(* Instances of VerbsTimings for TLC.                                      *)
(***************************************************************************)
EXTENDS MCKv, VerbsTimings
=============================================================================
