CONSTANTS
    q1 = q1
    q2 = q2
    Qemu = {q1, q2}
    Libvirt = {}
    Lone = {}
    MaxTxns = 2
    MaxOther = 1
    MaxCrashes = 1
SPECIFICATION FairSpec
PROPERTIES
    ImplementsFollowUp
    JobsFinish
    QuietJobSucceeds
\* All requests served and all jobs over: the machine may rest.
CHECK_DEADLOCK FALSE
