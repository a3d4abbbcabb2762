CONSTANTS
    p1 = p1
    p2 = p2
    Proc = {p1, p2}
    Provider <- MCProvider
    Canonical <- MCCanonical
    Model <- MCModel
    Home <- MCHome
    Preset <- MCPreset
    Retries = {"-1"}
    ConfigFiles <- MCConfigFiles
    Envs <- MCEnvs
    MaxOps = 4
SYMMETRY Symmetry
SPECIFICATION Spec
CHECK_DEADLOCK FALSE
INVARIANTS
    TypeOK
    StoredTogether
    ModelFitsProvider
    PromptOfItsPreset
    NeverTorn
PROPERTIES
    WrittenIsRead
    UnparsableKept
