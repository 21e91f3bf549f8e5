--------------------------- MODULE MCCanonicalize ---------------------------
(***************************************************************************)
(* A stick with one or two partitions and a second stick, each entry of    *)
(* MountedDevices giving a letter, a GUID or both, read in any order and   *)
(* from one or two hives; one claim under each kind of name.               *)
(***************************************************************************)
EXTENDS Canonicalize

CONSTANTS
    MaxVolumes,     \* length of the longest volume list
    Letters,        \* the drive letters in the model, as strings
    Guids           \* the volume GUIDs in the model

MCSignatures == {1, 2}
MCOffsets == {0, 1}
MCDiskName(s) == IF s = 1 THEN "disk-00000001" ELSE "disk-00000002"
MCLocators == {"loc"}
MCNames == Letters \cup Guids \cup {MCDiskName(s) : s \in MCSignatures} \cup {"", "MTP", "SN1", "DEAD-BEEF", "KINGSTON"}

From(source, device, attribute, value) ==
    [device |-> device, attribute |-> attribute, value |-> value,
     source |-> source, locator |-> "loc"]

\* One claim under every name, and one under a name no volume has.
MCClaims ==
    <<From("VolumeInfoCache", "E:", "VolumeName", Text("KINGSTON")),
      From("MountPoints2", "{G1}", "LastConnected", Timestamp(7)),
      From("MountPoints2", "{G2}", "LastConnected", Timestamp(8)),
      From("DeviceImage", "disk-00000001", "VolumeSerial", Text("DEAD-BEEF")),
      From("Usbstor", "SN1", "DriveLetter", Text("E:"))>>

Disks == {<<1, 0>>, <<1, 1>>, <<2, 0>>}

MCVolumes ==
    {[signature |-> p[1], offset |-> p[2], letter |-> l, guid |-> g] :
        p \in Disks, l \in Letters \cup {None}, g \in Guids \cup {None}}

MCInputs == {[claims |-> MCClaims, volumes |-> vs] :
                vs \in UNION {[1..n -> {v \in MCVolumes : {v.letter, v.guid} # {None}}] :
                                 n \in 0..MaxVolumes}}
=============================================================================
