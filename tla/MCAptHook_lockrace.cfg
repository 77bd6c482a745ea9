CONSTANTS
    q1 = q1
    q2 = q2
    Qemu = {q1, q2}
    Libvirt = {}
    Lone = {}
    MaxTxns = 2
    MaxOther = 0
    MaxCrashes = 0
SPECIFICATION Spec
SYMMETRY Symmetry
INVARIANTS
    FollowUpGetsLock
\* All requests served and all jobs over: the machine may rest.
CHECK_DEADLOCK FALSE
