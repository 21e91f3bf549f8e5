------------------------------- MODULE Claims -------------------------------
(***************************************************************************)
(* The source-agnostic vocabulary of usb-forensic: what a source adapter   *)
(* emits and what every later pass reads (src/model.rs).                   *)
(*                                                                         *)
(* A string is a member of Names: the program only ever compares strings   *)
(* for equality and order, so nothing else of one is kept.  A device key   *)
(* and a text value are drawn from the same set on purpose: reconciliation *)
(* compares one with the other.                                            *)
(***************************************************************************)
EXTENDS Integers

CONSTANTS
    Names,      \* every string: device keys, serials, labels, drive letters, paths
    Locators,   \* pointers into an artifact (key path, log line, record id)
    None,       \* an absent field (Option::None)
    Empty,      \* the empty string
    Mtp         \* the string "MTP"

ASSUME ClaimsAssumption == None \notin Names /\ {Empty, Mtp} \subseteq Names

\* The recording mechanism of a claim.
SourceKind ==
    {"Usbstor", "MountedDevices", "SetupApi", "PartitionDiag", "KernelPnp",
     "DriverFramework", "Lnk", "JumpList", "LinuxKernelLog", "VolumeInfoCache",
     "MountPoints2", "Shellbag", "EmdMgmt", "DeviceImage", "AppleIPod",
     "MacosUsb", "MacosUnifiedLog"}

\* The tamper surface a recording mechanism writes to.
Container(source) ==
    CASE source \in {"Usbstor", "MountedDevices"} -> "SystemHive"
      [] source = "SetupApi" -> "SetupApiLog"
      [] source \in {"PartitionDiag", "KernelPnp", "DriverFramework"} -> "EventLog"
      [] source \in {"Lnk", "JumpList"} -> "LnkFile"
      [] source = "LinuxKernelLog" -> "KernelLog"
      [] source \in {"VolumeInfoCache", "EmdMgmt"} -> "SoftwareHive"
      [] source \in {"MountPoints2", "Shellbag"} -> "UserHive"
      [] source = "DeviceImage" -> "DeviceMedia"
      [] source \in {"AppleIPod", "MacosUsb", "MacosUnifiedLog"} -> "MacosPlist"

ArtifactContainer ==
    {"SystemHive", "SetupApiLog", "EventLog", "LnkFile", "KernelLog",
     "SoftwareHive", "UserHive", "DeviceMedia", "MacosPlist"}

\* Text logs write the host's wall clock with no zone.
ClockIsLocal(source) == source \in {"SetupApi", "LinuxKernelLog"}

Attribute ==
    {"FirstConnected", "LastConnected", "LastRemoved", "VolumeName",
     "VolumeSerial", "AccessedFile", "BrowsedFolder", "DriveLetter",
     "Encryption", "DeviceClass"}

Timestamp(t) == [kind |-> "Timestamp", at |-> t]
Text(x) == [kind |-> "Text", text |-> x]
IsText(v) == v.kind = "Text"

Value == [kind : {"Timestamp"}, at : Int] \cup [kind : {"Text"}, text : Names]

\* A value with its provenance (source and locator side by side).
ProvenancedValue == [value : Value, source : SourceKind, locator : Locators]

Claim ==
    [device : Names, attribute : Attribute, value : Value,
     source : SourceKind, locator : Locators]
=============================================================================
