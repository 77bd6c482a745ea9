CONSTANTS
    q1 = q1
    q2 = q2
    l1 = l1
    e1 = e1
    Qemu = {q1, q2}
    Libvirt = {l1}
    Lone = {e1}
    MaxTxns = 2
    MaxOther = 0
    MaxCrashes = 1
SPECIFICATION Spec
SYMMETRY Symmetry
INVARIANTS
    TypeOK
    FreshQueue
    NothingLeftBehind
    QueueExact
    FollowUpOnlyAdds
    SwitchComplete
\* All requests served and all jobs over: the machine may rest.
CHECK_DEADLOCK FALSE
