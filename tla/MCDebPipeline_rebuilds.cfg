SPECIFICATION Spec
CONSTANTS
    q1 = q1
    Qemu = {q1}
    Libvirt = {}
    MaxCommands = 2
    MaxEdits = 0
    MaxKills = 1
INVARIANTS
    PackRebuilds
CHECK_DEADLOCK FALSE
