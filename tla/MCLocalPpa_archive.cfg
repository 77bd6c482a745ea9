SPECIFICATION Spec
CONSTANTS
    a = a
    Pkgs = {a}
    MaxVersion = 2
    Dirs = {"workspace", "scripts"}
    MaxCommands = 3
    MaxDeliveries = 1
    MaxKills = 1
INVARIANTS
    TypeOK
    Published
    Offered
CHECK_DEADLOCK FALSE
