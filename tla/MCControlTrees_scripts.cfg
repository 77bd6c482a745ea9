SPECIFICATION Spec
CONSTANTS
    q1 = q1
    l1 = l1
    Stems = {q1, l1}
    Listed = {q1}
    Virt = virt
    Requires <- MCRequires
    MaxRuns = 3
    MaxKills = 1
    MaxUnpacks = 1
INVARIANTS
    TypeOK
    Exclusive
    Coinstallable
    DependenciesFit
    FieldsExact
    NoRepeats
CHECK_DEADLOCK FALSE
