----------------------------- MODULE MCDrivers -----------------------------
(***************************************************************************)
(* Instances of Drivers for TLC.                                           *)
(***************************************************************************)
EXTENDS Drivers, TLC

Symmetry == Permutations(Driver)
=============================================================================
