-------------------------------- MODULE Host --------------------------------
(***************************************************************************)
(* The examined host, which is not part of the repository: what happened   *)
(* to the sticks, and the records Windows left of it, in the decoded form  *)
(* the adapters of src/sources consume.  Nothing is ever tampered with:    *)
(* whatever the tool reports of these records it reports of an honest      *)
(* history.                                                                *)
(***************************************************************************)
EXTENDS Adapters

CONSTANTS
    Devices,        \* the sticks
    SerialNumber,   \* stick -> its instance serial
    DiskNameOf,     \* stick -> "disk-XXXXXXXX" of its MBR signature
    SignatureOf,    \* stick -> its MBR signature
    GuidOf,         \* stick -> GUID of its volume
    VolumeSerials,  \* stick -> the serials its volume gets, format after format
    Letter,         \* the letter every stick is mounted at
    Labels,         \* volume labels
    FileOn,         \* stick -> path of the file opened from it
    FolderOn,       \* stick -> the folder browsed on it, if its domain has the stick
    HostOffset,     \* the host's UTC offset
    MaxEvents       \* bound on the length of the history

ASSUME HostAssumption ==
    /\ \A map \in {SerialNumber, DiskNameOf, GuidOf, FileOn} : map \in [Devices -> Names]
    /\ VolumeSerials \in [Devices -> Seq(Names)]
    /\ Labels \subseteq Names /\ Letter \in Names
    /\ \A d \in Devices : VolumeSerials[d] # <<>>
    /\ SignatureOf \in [Devices -> Nat]
    /\ DOMAIN FolderOn \subseteq Devices
    /\ \A d \in DOMAIN FolderOn : FolderOn[d] \in Names
    /\ {"SYSTEM", "setupapi", "evtx", "SOFTWARE", "NTUSER", "image", "lnk", "jumplist"}
        \subseteq Locators
    /\ HostOffset \in Int /\ MaxEvents \in Nat /\ None \notin Int

VARIABLES
    clock,      \* UTC time; an event takes one unit, opening a file may take none
    plugged,    \* sticks connected now (at most one)
    formats,    \* stick -> how often it was formatted
    label,      \* stick -> label of its volume
    records,    \* what the artifacts hold now
    truth       \* what really happened (opened, carried, labelled, present): a
                \* history that no event reads

hostVars == <<clock, plugged, formats, label, records, truth>>

SerialOn(d) == VolumeSerials[d][formats[d] + 1]

Registry(d) == {r \in records : r.source = "Usbstor" /\ r.serial = SerialNumber[d]}

Field(set, field, default) == IF set = {} THEN default ELSE (CHOOSE r \in set : TRUE)[field]

\* The records, one operator for each artifact that keeps them.
Connection(source, locator, d, first, arrival, removal, letter) ==
    [source |-> source, locator |-> locator, serial |-> SerialNumber[d],
     instance |-> SerialNumber[d], first_install |-> first, last_arrival |-> arrival,
     last_removal |-> removal, drive_letter |-> letter, mtp |-> FALSE]

RegistryEntry(d, first, arrival, removal, letter) ==
    Connection("Usbstor", "SYSTEM", d, first, arrival, removal, letter)

SetupEntry(d, at) == Connection("SetupApi", "setupapi", d, at, None, None, None)

ArrivalEvent(d, at, serial) ==
    [source |-> "PartitionDiag", locator |-> "evtx", serial_number |-> SerialNumber[d],
     disk_id |-> None, at |-> at, fat_serial |-> serial, ntfs_serial |-> None]

PnpEvent(d, at) ==
    [source |-> "KernelPnp", locator |-> "evtx", instance |-> SerialNumber[d], at |-> at]

RemovalEvent(d, at) ==
    [source |-> "DriverFramework", locator |-> "evtx", instance |-> SerialNumber[d], at |-> at,
     disconnect |-> TRUE]

UserMount(d, at) ==
    [source |-> "MountPoints2", locator |-> "NTUSER", guid |-> GuidOf[d], last_mounted |-> at]

\* One of the two entries of MountedDevices: by letter or by GUID.
MountEntry(d, letter, guid) ==
    [source |-> "MountedVolume", locator |-> "SYSTEM", signature |-> SignatureOf[d], offset |-> 0,
     letter |-> letter, guid |-> guid]

CachedVolume(serial, name) ==
    [source |-> "EmdMgmt", locator |-> "SOFTWARE", serial |-> serial, label |-> name]

CachedLetter(name) ==
    [source |-> "VolumeInfoCache", locator |-> "SOFTWARE", letter |-> Letter, label |-> name]

LinkTo(serial, path) ==
    [source |-> "Lnk", locator |-> "lnk", volume_serial |-> serial, local_base_path |-> path,
     net_name |-> None, idlist_path |-> None]

\* Every application keeps a list of its own, so no entry overwrites another.
JumpEntry(serial, path, at) ==
    [source |-> "JumpList", locator |-> "jumplist", volume_serial |-> serial,
     local_base_path |-> path, net_name |-> None, idlist_path |-> None, last_access |-> at]

BrowsedNode(path) ==
    [source |-> "Shellbag", locator |-> "NTUSER", letter |-> Letter, path |-> path]

ImageOf(d, serial) ==
    [source |-> "DeviceImage", locator |-> "image", disk |-> DiskNameOf[d],
     fat_serial |-> serial, encryption |-> None]

HostInit ==
    /\ clock = 0
    /\ plugged = {}
    /\ formats = [d \in Devices |-> 0]
    /\ label \in [Devices -> Labels]
    /\ records = {}
    /\ truth = [opened |-> {}, carried |-> {}, labelled |-> {}, present |-> {}]

Tick == clock < MaxEvents /\ clock' = clock + 1

\* The label caches that the SOFTWARE hive keeps: one entry for every volume
\* (label and serial) ever mounted, one for every drive letter.
LabelCaches(serial, name) == {CachedVolume(serial, name), CachedLetter(name)}

OldLetterCache == {r \in records : r.source = "VolumeInfoCache"}

\* What else an arrival of d leaves: the event of the partition manager, the
\* user's mount point and the two entries of MountedDevices.
MountRecords(d, at) ==
    {UserMount(d, at), ArrivalEvent(d, at, SerialOn(d)),
     MountEntry(d, Letter, None), MountEntry(d, None, GuidOf[d])}

\* The entries that a new arrival of d overwrites.
Overwritten(d) ==
    OldLetterCache \cup
    {r \in records :
        \/ r.source = "MountPoints2" /\ r.guid = GuidOf[d]
        \/ r.source = "MountedVolume" /\ r.letter = Letter}

\* The other sticks' registry entries, without the letter this one now has.
Released(d) ==
    {IF r.source = "Usbstor" THEN [r EXCEPT !.drive_letter = None] ELSE r :
        r \in records \ (Registry(d) \cup Overwritten(d))}

\* What an event adds to the truth: the stick carries a serial and a label, or
\* was there at a time.
Carry(past, d, serial, name) ==
    [past EXCEPT !.carried = @ \cup {<<SerialNumber[d], serial>>},
                 !.labelled = @ \cup {<<name, serial>>}]

Seen(past, d, at) == [past EXCEPT !.present = @ \cup {<<SerialNumber[d], at>>}]

Plug(d) ==
    /\ Tick
    /\ plugged = {}
    /\ plugged' = {d}
    /\ records' =
        Released(d)
        \cup MountRecords(d, clock') \cup LabelCaches(SerialOn(d), label[d])
        \cup {RegistryEntry(d, Field(Registry(d), "first_install", clock'), clock',
                            Field(Registry(d), "last_removal", None), Letter),
              PnpEvent(d, clock')}
        \cup (IF Registry(d) # {} THEN {} ELSE {SetupEntry(d, clock' + HostOffset)})
    /\ truth' = Seen(Carry(truth, d, SerialOn(d), label[d]), d, clock')
    /\ UNCHANGED <<formats, label>>

Unplug(d) ==
    /\ Tick
    /\ d \in plugged
    /\ plugged' = {}
    /\ records' =
        {IF r \in Registry(d) THEN [r EXCEPT !.last_removal = clock'] ELSE r : r \in records}
        \cup {RemovalEvent(d, clock')}
    /\ truth' = Seen(truth, d, clock')
    /\ UNCHANGED <<formats, label>>

\* A file may be opened in the very second of the event before.
OpenFile(d) ==
    /\ Tick \/ UNCHANGED clock
    /\ d \in plugged
    /\ records' = records \cup {LinkTo(SerialOn(d), FileOn[d]),
                              JumpEntry(SerialOn(d), FileOn[d], clock')}
    /\ truth' = Seen([truth EXCEPT !.opened = @ \cup {<<SerialNumber[d], FileOn[d]>>}],
                     d, clock')
    /\ UNCHANGED <<plugged, formats, label>>

\* The user browses a folder: the shell keeps its path, which starts with the
\* drive letter.
Browse(d) ==
    /\ Tick
    /\ d \in plugged
    /\ records' = records \cup {BrowsedNode(FolderOn[d])}
    /\ UNCHANGED <<plugged, formats, label, truth>>

\* A format gives the volume its next serial and a label, which the label
\* caches pick up; no device arrives, so nothing else is recorded.
Format(d, name) ==
    /\ Tick
    /\ d \in plugged
    /\ formats[d] + 1 < Len(VolumeSerials[d])
    /\ formats' = [formats EXCEPT ![d] = @ + 1]
    /\ label' = [label EXCEPT ![d] = name]
    /\ records' = (records \ OldLetterCache)
                  \cup LabelCaches(VolumeSerials[d][formats[d] + 2], name)
    /\ truth' = Carry(truth, d, VolumeSerials[d][formats[d] + 2], name)
    /\ UNCHANGED plugged

\* The examiner images the stick.
Image(d) ==
    /\ Tick
    /\ Registry(d) # {}
    /\ records' = records \cup {ImageOf(d, SerialOn(d))}
    /\ UNCHANGED <<plugged, formats, label, truth>>

Live ==
    \/ \E d \in Devices : Plug(d) \/ Unplug(d) \/ OpenFile(d) \/ Image(d)
    \/ \E d \in DOMAIN FolderOn : Browse(d)
    \/ \E d \in Devices, name \in Labels : Format(d, name)
=============================================================================
