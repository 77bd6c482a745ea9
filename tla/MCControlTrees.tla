--------------------------- MODULE MCControlTrees ---------------------------
(***************************************************************************)
(* Instances of ControlTrees for TLC.                                      *)
(***************************************************************************)
EXTENDS ControlTrees

CONSTANTS q1, l1

\* The libvirt package depends on the QEMU package.
MCRequires == [x \in Stems |-> IF x = l1 THEN <<q1>> ELSE <<>>]
=============================================================================
