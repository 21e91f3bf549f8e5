CONSTANTS
    None = None
    Empty = ""
    Mtp = "MTP"
    MaxClaims = 4
    NameOrder <- MCNameOrder
    LocatorOrder <- MCLocatorOrder
    Names <- MCNames
    Locators <- MCLocators
    Inputs <- MCInputs
    Spelling <- MCSpelling
    Crc32 <- MCCrc32
    LinesPerPage = 9

SPECIFICATION Spec

INVARIANTS
    IInv
    GradeSound
    EvidenceConserved
    NothingWithheld
    OutputReproducible
    PdfReadsBack
    DocxReadsBack

PROPERTY GradesOnlyRise

\* The function returns when every group is graded.
CHECK_DEADLOCK FALSE
