CONSTANTS
    None = None
    Empty = ""
    Mtp = "MTP"
    MaxVolumes = 2
    Letters = {"E:"}
    Guids = {"{G1}", "{G2}"}
    Signatures <- MCSignatures
    Offsets <- MCOffsets
    DiskName <- MCDiskName
    Names <- MCNames
    Locators <- MCLocators
    Inputs <- MCInputs

SPECIFICATION Spec

INVARIANT ImageOnItsOwnVolume

\* The function returns when its three loops have run.
CHECK_DEADLOCK FALSE
