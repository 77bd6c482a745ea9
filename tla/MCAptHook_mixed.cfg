CONSTANTS
    q1 = q1
    q2 = q2
    e1 = e1
    Qemu = {q1, q2}
    Libvirt = {}
    Lone = {e1}
    MaxTxns = 1
    MaxOther = 0
    MaxCrashes = 0
SPECIFICATION Spec
SYMMETRY Symmetry
INVARIANTS
    SwitchQueuesCounterparts
\* All requests served and all jobs over: the machine may rest.
CHECK_DEADLOCK FALSE
