----------------------------- MODULE MCAptHook -----------------------------
(* Small instances of AptHook for TLC. *)
EXTENDS AptHookInv, TLC

\* The package names of a class are interchangeable.
Symmetry == Permutations(Qemu) \cup Permutations(Libvirt)
=============================================================================
