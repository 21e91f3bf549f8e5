------------------------------ MODULE Adapters ------------------------------
(***************************************************************************)
(* The source adapters (src/sources): the claims each decoded record       *)
(* yields.  A record is what a reader crate hands over, with the strings   *)
(* already rendered: an adapter's formatting of a serial is part of the    *)
(* name the record holds.                                                  *)
(***************************************************************************)
EXTENDS Claims, Sequences

ClaimOf(device, attribute, value, record) ==
    [device |-> device, attribute |-> attribute, value |-> value,
     source |-> record.source, locator |-> record.locator]

\* A claim for a field that may be absent: none, or just that one.
IfPresent(field, claim) == IF field = None THEN <<>> ELSE <<claim>>

(***************************************************************************)
(* peripheral.rs: one device connection of the registry, setupapi or       *)
(* syslog reader.  The key is the explicit serial, else the last component *)
(* of the instance id; neither is checked for being empty.                 *)
(***************************************************************************)
ConnectionClaims(conn) ==
    LET key == IF conn.serial # None THEN conn.serial ELSE conn.instance
        At(field, attribute) ==
            IfPresent(field, ClaimOf(key, attribute, Timestamp(field), conn))
    IN  At(conn.first_install, "FirstConnected")
        \o At(conn.last_arrival, "LastConnected")
        \o At(conn.last_removal, "LastRemoved")
        \o IfPresent(conn.drive_letter,
                     ClaimOf(key, "DriveLetter", Text(conn.drive_letter), conn))
        \o (IF conn.mtp THEN <<ClaimOf(key, "DeviceClass", Text(Mtp), conn)>> ELSE <<>>)

\* lnk.rs target_path: an empty local base path or UNC name hides the id list.
TargetPath(link) ==
    LET path == IF link.local_base_path # None THEN link.local_base_path
                ELSE IF link.net_name # None THEN link.net_name
                ELSE link.idlist_path
    IN  IF path = Empty THEN None ELSE path

(***************************************************************************)
(* lnk.rs and jumplist.rs: a shell link names its volume and its target; a *)
(* link whose volume serial is unset (None here) names nothing.  A jump    *)
(* list entry adds its last access as a connection of the volume.          *)
(***************************************************************************)
ShellLinkClaims(link) ==
    IF link.volume_serial = None THEN <<>>
    ELSE <<ClaimOf(link.volume_serial, "VolumeSerial", Text(link.volume_serial), link)>>
         \o IfPresent(TargetPath(link),
                      ClaimOf(link.volume_serial, "AccessedFile", Text(TargetPath(link)), link))

JumpListClaims(entry) ==
    ShellLinkClaims(entry)
    \o IF entry.volume_serial = None THEN <<>>
       ELSE IfPresent(entry.last_access,
                ClaimOf(entry.volume_serial, "LastConnected", Timestamp(entry.last_access), entry))

(***************************************************************************)
(* partition_diag.rs: keyed by a non-empty device serial, else by the disk *)
(* GUID, else nothing; the FAT serial wins over the NTFS one; a timestamp  *)
(* that does not parse (None) is dropped.                                  *)
(***************************************************************************)
PartitionDiagClaims(event) ==
    LET key == IF event.serial_number \notin {None, Empty} THEN event.serial_number
               ELSE event.disk_id
        serial == IF event.fat_serial # None THEN event.fat_serial ELSE event.ntfs_serial
    IN  IF key = None THEN <<>>
        ELSE IfPresent(event.at, ClaimOf(key, "LastConnected", Timestamp(event.at), event))
             \o IfPresent(serial, ClaimOf(key, "VolumeSerial", Text(serial), event))

\* kernel_pnp.rs: an event with no instance serial or no time is skipped.
KernelPnpClaims(event) ==
    IF event.instance = Empty \/ event.at = None THEN <<>>
    ELSE <<ClaimOf(event.instance, "LastConnected", Timestamp(event.at), event)>>

\* driver_framework.rs: event 2102 is a removal, any other an arrival.
DriverFrameworkClaims(event) ==
    IF event.instance = Empty \/ event.at = None THEN <<>>
    ELSE <<ClaimOf(event.instance,
                   IF event.disconnect THEN "LastRemoved" ELSE "LastConnected",
                   Timestamp(event.at), event)>>

\* volume_cache.rs: a cached label, keyed by its drive letter.
VolumeLabelClaims(label) ==
    <<ClaimOf(label.letter, "VolumeName", Text(label.label), label)>>

\* mountpoints2.rs: a user's mount, keyed by volume GUID, when it has a time.
UserMountClaims(mount) ==
    IfPresent(mount.last_mounted,
        ClaimOf(mount.guid, "LastConnected", Timestamp(mount.last_mounted), mount))

\* shellbag.rs: a folder browsed on a drive letter, keyed by the letter; a node
\* without one gives nothing.
ShellbagClaims(entry) ==
    IF entry.letter = None THEN <<>>
    ELSE <<ClaimOf(entry.letter, "DriveLetter", Text(entry.letter), entry),
           ClaimOf(entry.letter, "BrowsedFolder", Text(entry.path), entry)>>

\* emdmgmt.rs: a cached volume, keyed by its own serial; an empty label is not one.
EmdVolumeClaims(vol) ==
    <<ClaimOf(vol.serial, "VolumeSerial", Text(vol.serial), vol)>>
    \o IF vol.label = Empty THEN <<>>
       ELSE <<ClaimOf(vol.serial, "VolumeName", Text(vol.label), vol)>>

\* device_image.rs: an image, keyed by its MBR disk signature.
DeviceImageClaims(image) ==
    IfPresent(image.fat_serial,
        ClaimOf(image.disk, "VolumeSerial", Text(image.fat_serial), image))
    \o IfPresent(image.encryption,
        ClaimOf(image.disk, "Encryption", Text(image.encryption), image))

ClaimsOfRecord(record) ==
    CASE record.source \in {"Usbstor", "SetupApi", "LinuxKernelLog"} -> ConnectionClaims(record)
      [] record.source = "Lnk" -> ShellLinkClaims(record)
      [] record.source = "JumpList" -> JumpListClaims(record)
      [] record.source = "PartitionDiag" -> PartitionDiagClaims(record)
      [] record.source = "KernelPnp" -> KernelPnpClaims(record)
      [] record.source = "DriverFramework" -> DriverFrameworkClaims(record)
      [] record.source = "VolumeInfoCache" -> VolumeLabelClaims(record)
      [] record.source = "MountPoints2" -> UserMountClaims(record)
      [] record.source = "Shellbag" -> ShellbagClaims(record)
      [] record.source = "EmdMgmt" -> EmdVolumeClaims(record)
      [] record.source = "DeviceImage" -> DeviceImageClaims(record)
=============================================================================
