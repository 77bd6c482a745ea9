--------------------------- MODULE MCDebPipeline ---------------------------
(***************************************************************************)
(* Instances of DebPipeline for TLC.                                       *)
(***************************************************************************)
EXTENDS DebPipeline
=============================================================================
