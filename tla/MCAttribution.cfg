CONSTANTS
    Sticks = {1, 2}
    Devices = {1, 2}
    Files = {"SYSTEM", "NTUSER", "evtx", "SOFTWARE", "lnk", "jumplist", "image"}
    Labels = {"KINGSTON"}
    HostOffset = 2
    EntryPoints = {"usb4n6", "correlate_sources"}
    TzChoices = {2}
    MaxEvents = 5
    Letter = "E:"
    Empty = ""
    Mtp = "MTP"
    None = None
    SerialNumber <- MCSerialNumber
    DiskNameOf <- MCDiskNameOf
    SignatureOf <- MCSignatureOf
    GuidOf <- MCGuidOf
    FileOn <- MCFileOn
    FolderOn <- MCFolderOn
    VolumeSerials <- MCVolumeSerials
    NameOrder <- MCNameOrder
    Names <- MCNames
    LocatorOrder <- MCLocatorOrder
    Locators <- MCLocators
    Signatures <- MCSignatures
    Offsets <- MCOffsets
    DiskName <- MCDiskName
    Collections <- MCCollectionsByFolder

SPECIFICATION Spec

INVARIANTS
    FilesOnTheirDevice
    TimesOnTheirDevice
    ReformatFound
    FolderAttributed

\* The tool exits after the audit.
CHECK_DEADLOCK FALSE
