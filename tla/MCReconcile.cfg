CONSTANTS
    None = None
    Empty = ""
    Mtp = "MTP"
    MaxClaims = 4
    Names <- MCNames
    Locators <- MCLocators
    Inputs <- MCInputs

SPECIFICATION Spec

INVARIANTS
    IInv
    NeverGuesses
    KeysMoveTogether
    Settled

PROPERTY ImplementsAttribution

\* The pass ends when both loops have run.
CHECK_DEADLOCK FALSE
