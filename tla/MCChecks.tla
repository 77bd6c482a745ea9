------------------------------ MODULE MCChecks ------------------------------
(* A small instance of Checks for TLC. *)
EXTENDS Checks, TLC

CONSTANTS q1, q2, q3, l1, e1

\* qemu-utils; qemu-system-x86 and qemu-system-arm, which recommend it; a libvirt
\* package; and qemu-efi-aarch64, which the latter recommends.
MCPackages == <<q1, q2, l1, q3, e1>>
MCNeeds    == q1 :> {} @@ q2 :> {q1} @@ q3 :> {q1, e1} @@ l1 :> {} @@ e1 :> {}

\* libvirt-daemon-driver-qemu needs a libvirt package and a QEMU one.
MCExtNeeds == <<{q1, l1}>>
=============================================================================
