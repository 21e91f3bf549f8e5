CONSTANTS
    None = None
    Names = {"", "MTP"}
    Locators = {}
    Empty = ""
    Mtp = "MTP"
    MassStorage = "MassStorage"
    TreeNodes <- MCTreeNodes
    MaxPaths = 3
    Fragile = {"evtx", "e01"}
    Paths <- MCPaths
    FileAt <- MCFileAt
    ArgLists <- MCArgLists

SPECIFICATION Spec

INVARIANTS
    IInv
    EveryFileReadAsItself
    DamageReported
    FatalOnlyAsDocumented
    YearNeverGuessed
    WitnessesReal
    SerialIsTheKey
    SuccessIsComplete

PROPERTY Finishes

\* The tool exits.
CHECK_DEADLOCK FALSE
