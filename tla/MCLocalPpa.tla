----------------------------- MODULE MCLocalPpa -----------------------------
(***************************************************************************)
(* Instances of LocalPpa for TLC.                                          *)
(***************************************************************************)
EXTENDS LocalPpa
=============================================================================
