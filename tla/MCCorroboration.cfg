CONSTANTS
    Sticks = {1}
    Devices = {1}
    Files = {"SYSTEM", "setupapi", "evtx", "SOFTWARE", "NTUSER", "lnk", "image"}
    Labels = {"KINGSTON"}
    HostOffset = 2
    EntryPoints = {"usb4n6"}
    TzChoices = {2}
    MaxEvents = 3
    Letter = "E:"
    Empty = ""
    Mtp = "MTP"
    None = None
    SerialNumber <- MCSerialNumber
    DiskNameOf <- MCDiskNameOf
    SignatureOf <- MCSignatureOf
    GuidOf <- MCGuidOf
    FileOn <- MCFileOn
    FolderOn <- MCNoFolders
    VolumeSerials <- MCVolumeSerials
    NameOrder <- MCNameOrder
    Names <- MCNames
    LocatorOrder <- MCLocatorOrder
    Locators <- MCLocators
    Signatures <- MCSignatures
    Offsets <- MCOffsets
    DiskName <- MCDiskName
    Collections <- MCCollections

SPECIFICATION Spec

INVARIANT CorroborationIndependent

\* The tool exits after the audit.
CHECK_DEADLOCK FALSE
