SPECIFICATION Spec
CONSTANTS
    d1 = d1
    d2 = d2
    x = x
    Driver = {d1, d2}
    Stems = {x}
    MaxStarts = 3
    MaxEdits = 1
    MaxKills = 1
SYMMETRY Symmetry
INVARIANTS
    TypeOK
    SourcesKept
    AloneStages
CHECK_DEADLOCK FALSE
