SPECIFICATION Spec
CONSTANTS
    s1 = s1
    s2 = s2
    Stems = {s1, s2}
    Virt = virt
    Kinds = {"install"}
    Above <- FieldsAbove
    MaxCommands = 3
    MaxAdds = 1
    MaxKills = 1
SYMMETRY Symmetry
INVARIANTS
    TypeOK
    SuffixOnce
    RenamedTogether
    RelationsFollow
    OneSided
    RewriteComplete
    NothingLost
    FilesFollow
CHECK_DEADLOCK FALSE
