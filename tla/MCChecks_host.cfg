CONSTANTS
    q1 = q1
    q2 = q2
    q3 = q3
    l1 = l1
    e1 = e1
    Qemu = {q1, q2, q3}
    Libvirt = {l1}
    Lone = {e1}
    PACKAGES <- MCPackages
    ExtPackages = {l1}
    ExtNeeds <- MCExtNeeds
    FactoryNeeds = {q1, q2}
    ShdepsNeeds = {l1}
    Needs <- MCNeeds
    Utils = q1
    MaxTxns = 35
    MaxOther = 1
    MaxCrashes = 0
    MaxFaults = 1
SPECIFICATION ChecksSpec
INVARIANTS
    ChecksTypeOK
    SwitchSeen
    ExclusiveSeen
\* A verdict is the end.
CHECK_DEADLOCK FALSE
