CONSTANTS
    None = None
    Empty = ""
    Mtp = "MTP"
    MaxVolumes = 3
    Letters = {"E:"}
    Guids = {"{G1}", "{G2}"}
    Signatures <- MCSignatures
    Offsets <- MCOffsets
    DiskName <- MCDiskName
    Names <- MCNames
    Locators <- MCLocators
    Inputs <- MCInputs

SPECIFICATION Spec

INVARIANTS
    IInv
    SameVolumeSameKey
    VolumeOrderIrrelevant

PROPERTY ImplementsBridging

\* The function returns when its three loops have run.
CHECK_DEADLOCK FALSE
