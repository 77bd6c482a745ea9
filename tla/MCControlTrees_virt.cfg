SPECIFICATION Spec
CONSTANTS
    q1 = q1
    l1 = l1
    Stems = {q1, virt}
    Listed = {q1}
    Virt = virt
    Requires <- MCRequires
    MaxRuns = 2
    MaxKills = 0
    MaxUnpacks = 0
INVARIANTS
    VariantFits
CHECK_DEADLOCK FALSE
