SPECIFICATION Spec
CONSTANTS
    q1 = q1
    l1 = l1
    Qemu = {q1}
    Libvirt = {l1}
    MaxCommands = 3
    MaxEdits = 1
    MaxKills = 1
INVARIANTS
    TypeOK
    PayloadKept
    PrepareComplete
    Fresh112
    SourcesSurvive
    LibvirtNames
CHECK_DEADLOCK FALSE
