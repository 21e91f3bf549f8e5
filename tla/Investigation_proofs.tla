------------------------ MODULE Investigation_proofs ------------------------
(***************************************************************************)
(* What an analysis says of an untampered host, for every set of sticks,   *)
(* every history of the host and every collection of its artifacts.  The   *)
(* host's part is an invariant of its records; the tool's part is what its *)
(* passes make, claim by claim, of any set of such records.                *)
(***************************************************************************)
EXTENDS Investigation, Foundations_proofs

-----------------------------------------------------------------------------
(***************************************************************************)
(* The host.  `began` holds the moment each stick was first plugged in, as *)
(* its registry entry keeps it: nothing about a stick is older.            *)
(***************************************************************************)
Began == {<<u.serial, u.first_install>> : u \in {r \in records : r.source = "Usbstor"}}

Since(d, at, began) == \E first \in 0..at : <<SerialNumber[d], first>> \in began

IsRegistryEntry(r, now) ==
    \E d \in Devices, first \in 0..now, arrival \in 0..now,
       removal \in (0..now) \cup {None}, letter \in {Letter, None} :
        /\ r = RegistryEntry(d, first, arrival, removal, letter)
        /\ first <= arrival
        /\ removal # None => first <= removal

IsSetupEntry(r, now, began) ==
    \E d \in Devices, first \in 0..now :
        r = SetupEntry(d, first + HostOffset) /\ <<SerialNumber[d], first>> \in began

IsArrival(r, now, began) ==
    \E d \in Devices, at \in 0..now : \E serial \in SerialsOf(d) :
        r = ArrivalEvent(d, at, serial) /\ Since(d, at, began)

IsPnp(r, now, began) ==
    \E d \in Devices, at \in 0..now : r = PnpEvent(d, at) /\ Since(d, at, began)

IsRemoval(r, now, began) ==
    \E d \in Devices, at \in 0..now : r = RemovalEvent(d, at) /\ Since(d, at, began)

IsUserMount(r, now) == \E d \in Devices, at \in 0..now : r = UserMount(d, at)

IsMountEntry(r) ==
    \E d \in Devices : r = MountEntry(d, Letter, None) \/ r = MountEntry(d, None, GuidOf[d])

IsCachedVolume(r) ==
    \E d \in Devices : \E serial \in SerialsOf(d), name \in Labels : r = CachedVolume(serial, name)

IsCachedLetter(r) == \E name \in Labels : r = CachedLetter(name)
IsLink(r) == \E d \in Devices : \E serial \in SerialsOf(d) : r = LinkTo(serial, FileOn[d])
IsJumpEntry(r, now) ==
    \E d \in Devices, at \in 0..now : \E serial \in SerialsOf(d) :
        r = JumpEntry(serial, FileOn[d], at)

IsBrowsedNode(r) == \E d \in DOMAIN FolderOn : r = BrowsedNode(FolderOn[d])
IsImage(r) == \E d \in Devices : \E serial \in SerialsOf(d) : r = ImageOf(d, serial)

HostRecord(r, now, began) ==
    \/ IsRegistryEntry(r, now) \/ IsSetupEntry(r, now, began)
    \/ IsArrival(r, now, began) \/ IsPnp(r, now, began) \/ IsRemoval(r, now, began)
    \/ IsUserMount(r, now) \/ IsMountEntry(r)
    \/ IsCachedVolume(r) \/ IsCachedLetter(r)
    \/ IsLink(r) \/ IsJumpEntry(r, now) \/ IsBrowsedNode(r) \/ IsImage(r)

\* What the history is made of.
Truths ==
    [opened : SUBSET (Names \X Names), carried : SUBSET (Names \X Names),
     labelled : SUBSET (Labels \X Names), present : SUBSET (Names \X Nat)]

HostTypes ==
    /\ clock \in Nat /\ plugged \subseteq Devices
    /\ formats \in [Devices -> Nat] /\ label \in [Devices -> Labels]
    /\ \A d \in Devices : formats[d] + 1 \in DOMAIN VolumeSerials[d]
    /\ truth \in Truths
    /\ IsFiniteSet(records)

\* A stick began once.
OneBeginning == \A p, q \in Began : p[1] = q[1] => p = q

\* A stick that was never formatted left its first serial in the event log when
\* it came.
FirstSerialSeen(d) ==
    \E r \in records :
        /\ r.source = "PartitionDiag"
        /\ r.serial_number = SerialNumber[d] /\ r.fat_serial = VolumeSerials[d][1]

PluggedKnown ==
    \A d \in plugged : Registry(d) # {} /\ (formats[d] = 0 => FirstSerialSeen(d))

\* A link and a jump list's entry were made by opening the file of a stick that
\* had the serial, the entry at the time it gives.
OpenedBy(r, d, serial) ==
    \/ r = LinkTo(serial, FileOn[d])
    \/ \E at \in Nat :
        r = JumpEntry(serial, FileOn[d], at) /\ <<SerialNumber[d], at>> \in truth.present

LinkTrue(r) ==
    \E d \in Devices : \E k \in DOMAIN VolumeSerials[d] :
        /\ OpenedBy(r, d, VolumeSerials[d][k])
        /\ <<SerialNumber[d], FileOn[d]>> \in truth.opened
        /\ k = 1 => FirstSerialSeen(d)

LinksTrue == \A r \in records : r.source \in {"Lnk", "JumpList"} => LinkTrue(r)

LabelsCached == \A pair \in truth.labelled : CachedVolume(pair[2], pair[1]) \in records

\* The letter is in the registry entry of a stick, and of one that was carried.
LetterHeld ==
    /\ \A u \in records : u.source = "Usbstor" =>
            \E pair \in truth.carried : pair[1] = u.serial
    /\ truth.carried # {} =>
            \E u \in records : u.source = "Usbstor" /\ u.drive_letter = Letter
    /\ plugged # {} => truth.carried # {}

HostInv ==
    /\ HostTypes
    /\ \A r \in records : HostRecord(r, clock, Began)
    /\ OneBeginning /\ PluggedKnown /\ LinksTrue /\ LabelsCached /\ LetterHeld

\* A time that a record gives for a stick is one when the stick was there.
PresentAt(d, at) == <<SerialNumber[d], at>> \in truth.present

TimeTrue(r) ==
    /\ r.source = "Usbstor" =>
        \E d \in Devices :
            /\ r.serial = SerialNumber[d] /\ PresentAt(d, r.last_arrival)
            /\ r.last_removal # None => PresentAt(d, r.last_removal)
    /\ r.source = "PartitionDiag" =>
        \E d \in Devices : r.serial_number = SerialNumber[d] /\ PresentAt(d, r.at)
    /\ r.source \in {"KernelPnp", "DriverFramework"} =>
        \E d \in Devices : r.instance = SerialNumber[d] /\ PresentAt(d, r.at)
    /\ r.source = "MountPoints2" =>
        \E d \in Devices : r.guid = GuidOf[d] /\ PresentAt(d, r.last_mounted)

TimesTrue == \A r \in records : TimeTrue(r)

-----------------------------------------------------------------------------
(***************************************************************************)
(* The tool: after each pass the claims are what the passes so far make of *)
(* the evidence, which the host no longer changes.                         *)
(***************************************************************************)
Clocked(rs) == NormalizedIfGiven(GatheredFrom(rs), tz)
ByRun(rs) == Canonicalized(Rekeyed(Clocked(rs)), VolumesIn(rs))
ByLibrary(rs) == Rekeyed(ClaimsInOrder(SourcesInRun \o <<"Shellbag">>, rs))

\* The claims that were correlated.
Reported ==
    \/ histories = Correlated(ByRun(Evidence))
    \/ "correlate_sources" \in EntryPoints /\ histories = Correlated(ByLibrary(Evidence))

ToolInv ==
    /\ phase # "live" => tz \in TzChoices
    /\ phase = "gathered" => claims = GatheredFrom(Evidence)
    /\ phase = "normalized" => claims = Clocked(Evidence)
    /\ phase = "reconciled" => claims = Rekeyed(Clocked(Evidence))
    /\ phase = "canonicalized" => claims = ByRun(Evidence)
    /\ phase \in {"correlated", "audited"} => Reported
    /\ findings = IF phase = "audited" THEN Audit(histories) ELSE {}

IInv == HostInv /\ TimesTrue /\ ToolInv

-----------------------------------------------------------------------------
\* The source and the container file of every kind of record.
LEMMA KindsTell ==
    ASSUME NEW r, NEW now, NEW began
    PROVE  /\ IsRegistryEntry(r, now) => r.source = "Usbstor" /\ r.locator = "SYSTEM"
           /\ IsSetupEntry(r, now, began) => r.source = "SetupApi" /\ r.locator = "setupapi"
           /\ IsArrival(r, now, began) => r.source = "PartitionDiag" /\ r.locator = "evtx"
           /\ IsPnp(r, now, began) => r.source = "KernelPnp" /\ r.locator = "evtx"
           /\ IsRemoval(r, now, began) => r.source = "DriverFramework" /\ r.locator = "evtx"
           /\ IsUserMount(r, now) => r.source = "MountPoints2" /\ r.locator = "NTUSER"
           /\ IsMountEntry(r) => r.source = "MountedVolume" /\ r.locator = "SYSTEM"
           /\ IsCachedVolume(r) => r.source = "EmdMgmt" /\ r.locator = "SOFTWARE"
           /\ IsCachedLetter(r) => r.source = "VolumeInfoCache" /\ r.locator = "SOFTWARE"
           /\ IsLink(r) => r.source = "Lnk" /\ r.locator = "lnk"
           /\ IsJumpEntry(r, now) => r.source = "JumpList" /\ r.locator = "jumplist"
           /\ IsBrowsedNode(r) => r.source = "Shellbag" /\ r.locator = "NTUSER"
           /\ IsImage(r) => r.source = "DeviceImage" /\ r.locator = "image"
<1>1. IsRegistryEntry(r, now) => r.source = "Usbstor" /\ r.locator = "SYSTEM"
  BY DEF IsRegistryEntry, RegistryEntry, Connection
<1>2. IsSetupEntry(r, now, began) => r.source = "SetupApi" /\ r.locator = "setupapi"
  BY DEF IsSetupEntry, SetupEntry, Connection
<1>3. /\ IsArrival(r, now, began) => r.source = "PartitionDiag" /\ r.locator = "evtx"
      /\ IsPnp(r, now, began) => r.source = "KernelPnp" /\ r.locator = "evtx"
      /\ IsRemoval(r, now, began) => r.source = "DriverFramework" /\ r.locator = "evtx"
  BY DEF IsArrival, ArrivalEvent, IsPnp, PnpEvent, IsRemoval, RemovalEvent
<1>4. /\ IsUserMount(r, now) => r.source = "MountPoints2" /\ r.locator = "NTUSER"
      /\ IsMountEntry(r) => r.source = "MountedVolume" /\ r.locator = "SYSTEM"
      /\ IsBrowsedNode(r) => r.source = "Shellbag" /\ r.locator = "NTUSER"
  BY DEF IsUserMount, UserMount, IsMountEntry, MountEntry, IsBrowsedNode, BrowsedNode
<1>5. /\ IsCachedVolume(r) => r.source = "EmdMgmt" /\ r.locator = "SOFTWARE"
      /\ IsCachedLetter(r) => r.source = "VolumeInfoCache" /\ r.locator = "SOFTWARE"
  BY DEF IsCachedVolume, CachedVolume, IsCachedLetter, CachedLetter
<1>6. /\ IsLink(r) => r.source = "Lnk" /\ r.locator = "lnk"
      /\ IsJumpEntry(r, now) => r.source = "JumpList" /\ r.locator = "jumplist"
      /\ IsImage(r) => r.source = "DeviceImage" /\ r.locator = "image"
  BY DEF IsLink, LinkTo, IsJumpEntry, JumpEntry, IsImage, ImageOf
<1> QED
  BY <1>1, <1>2, <1>3, <1>4, <1>5, <1>6

\* The source tells the kind.
LEMMA SourceTells ==
    ASSUME NEW r, NEW now, NEW began, HostRecord(r, now, began)
    PROVE  /\ r.source = "Usbstor" => IsRegistryEntry(r, now)
           /\ r.source = "SetupApi" => IsSetupEntry(r, now, began)
           /\ r.source = "PartitionDiag" => IsArrival(r, now, began)
           /\ r.source = "KernelPnp" => IsPnp(r, now, began)
           /\ r.source = "DriverFramework" => IsRemoval(r, now, began)
           /\ r.source = "MountPoints2" => IsUserMount(r, now)
           /\ r.source = "MountedVolume" => IsMountEntry(r)
           /\ r.source = "EmdMgmt" => IsCachedVolume(r)
           /\ r.source = "VolumeInfoCache" => IsCachedLetter(r)
           /\ r.source = "Lnk" => IsLink(r)
           /\ r.source = "JumpList" => IsJumpEntry(r, now)
           /\ r.source = "Shellbag" => IsBrowsedNode(r)
           /\ r.source = "DeviceImage" => IsImage(r)
BY KindsTell DEF HostRecord

\* What the host recorded stays true as time passes.
LEMMA RecordsLast ==
    ASSUME NEW r, NEW now \in Nat, NEW began, NEW later, began \subseteq later,
           HostRecord(r, now, began)
    PROVE  HostRecord(r, now + 1, later)
<1>1. \A at \in 0..now : at \in 0..(now + 1)
  OBVIOUS
<1>2. \A d, at : Since(d, at, began) => Since(d, at, later)
  BY DEF Since
<1>3. IsRegistryEntry(r, now) => IsRegistryEntry(r, now + 1)
  BY <1>1 DEF IsRegistryEntry
<1>4. IsSetupEntry(r, now, began) => IsSetupEntry(r, now + 1, later)
  BY <1>1 DEF IsSetupEntry
<1>5. IsArrival(r, now, began) => IsArrival(r, now + 1, later)
  BY <1>1, <1>2 DEF IsArrival
<1>6. IsPnp(r, now, began) => IsPnp(r, now + 1, later)
  BY <1>1, <1>2 DEF IsPnp
<1>7. IsRemoval(r, now, began) => IsRemoval(r, now + 1, later)
  BY <1>1, <1>2 DEF IsRemoval
<1>8. IsUserMount(r, now) => IsUserMount(r, now + 1)
  BY <1>1 DEF IsUserMount
<1>9. IsJumpEntry(r, now) => IsJumpEntry(r, now + 1)
  BY <1>1 DEF IsJumpEntry
<1> QED
  BY <1>3, <1>4, <1>5, <1>6, <1>7, <1>8, <1>9 DEF HostRecord

\* The serials a stick may have are names; the one it has is one of them.
LEMMA SerialsTyped ==
    ASSUME NEW d \in Devices
    PROVE  /\ \A k \in DOMAIN VolumeSerials[d] : k \in Nat /\ k > 0 /\ VolumeSerials[d][k] \in Names
           /\ SerialsOf(d) \in SUBSET Names
           /\ 1 \in DOMAIN VolumeSerials[d]
<1>1. VolumeSerials[d] \in Seq(Names) /\ VolumeSerials[d] # <<>>
  BY HostAssumption
<1>2. DOMAIN VolumeSerials[d] = 1..Len(VolumeSerials[d]) /\ Len(VolumeSerials[d]) \in Nat \ {0}
  BY <1>1
<1>3. \A k \in 1..Len(VolumeSerials[d]) : VolumeSerials[d][k] \in Names
  BY <1>1
<1> QED
  BY <1>2, <1>3 DEF SerialsOf

-----------------------------------------------------------------------------
\* An event that leaves every record but the letter cache where it was, and
\* makes no registry entry, leaves the beginnings as they were.
LEMMA RecordsKept ==
    ASSUME HostInv, clock' \in {clock, clock + 1},
           \A r \in records : r.source # "VolumeInfoCache" => r \in records',
           \A r \in records' : r \in records \/ r.source # "Usbstor"
    PROVE  /\ Began' = Began
           /\ \A r \in records : HostRecord(r, clock', Began')
           /\ \A d : Registry(d)' = Registry(d)
           /\ \A d : FirstSerialSeen(d) => FirstSerialSeen(d)'
           /\ \A u : u \in records /\ u.source = "Usbstor" <=> u \in records' /\ u.source = "Usbstor"
<1>1. \A u : u \in records /\ u.source = "Usbstor" <=> u \in records' /\ u.source = "Usbstor"
  OBVIOUS
<1>2. Began' = Began
  BY <1>1 DEF Began
<1>3. \A d : Registry(d)' = Registry(d)
  BY <1>1 DEF Registry
<1>4. ASSUME NEW d, FirstSerialSeen(d) PROVE FirstSerialSeen(d)'
  BY <1>4 DEF FirstSerialSeen
<1>5. ASSUME NEW r \in records PROVE HostRecord(r, clock', Began')
  <2>1. HostRecord(r, clock, Began) /\ clock \in Nat
    BY DEF HostInv, HostTypes
  <2>2. HostRecord(r, clock + 1, Began)
    BY <2>1, RecordsLast
  <2> QED
    BY <1>2, <2>1, <2>2
<1> QED
  BY <1>1, <1>2, <1>3, <1>4, <1>5

\* A link that was true stays true when no first serial is forgotten.
LEMMA LinksKept ==
    ASSUME NEW r, LinkTrue(r), truth.opened \subseteq truth.opened',
           truth.present \subseteq truth.present',
           \A d : FirstSerialSeen(d) => FirstSerialSeen(d)'
    PROVE  LinkTrue(r)'
<1>1. \A d, serial : OpenedBy(r, d, serial) => OpenedBy(r, d, serial)'
  BY DEF OpenedBy
<1> QED
  BY <1>1 DEF LinkTrue

LEMMA OpenFileHost ==
    ASSUME HostInv, NEW d \in Devices, OpenFile(d)
    PROVE  HostInv'
<1>0. PICK now, link, entry : /\ now = clock'
                              /\ link = LinkTo(SerialOn(d), FileOn[d])
                              /\ entry = JumpEntry(SerialOn(d), FileOn[d], now)
  OBVIOUS
<1>1. /\ now \in {clock, clock + 1} /\ clock' = now /\ clock \in Nat /\ d \in plugged
      /\ plugged' = plugged /\ formats' = formats /\ label' = label
      /\ truth' = Seen([truth EXCEPT !.opened = @ \cup {<<SerialNumber[d], FileOn[d]>>}], d, now)
      /\ records' = records \cup {link, entry}
  BY <1>0 DEF OpenFile, Tick, HostInv, HostTypes
<1>2. link.source = "Lnk" /\ entry.source = "JumpList"
  BY <1>0 DEF LinkTo, JumpEntry
<1>3. /\ formats[d] + 1 \in DOMAIN VolumeSerials[d] /\ formats[d] \in Nat
      /\ SerialOn(d) = VolumeSerials[d][formats[d] + 1] /\ SerialOn(d) \in SerialsOf(d)
      /\ now \in Nat
  BY <1>1 DEF HostInv, HostTypes, SerialOn, SerialsOf
<1>4. /\ Began' = Began
      /\ \A r \in records : HostRecord(r, clock', Began')
      /\ \A e : Registry(e)' = Registry(e)
      /\ \A e : FirstSerialSeen(e) => FirstSerialSeen(e)'
      /\ \A u : u \in records /\ u.source = "Usbstor" <=> u \in records' /\ u.source = "Usbstor"
  BY <1>1, <1>2, RecordsKept
<1>5. /\ truth.opened \subseteq truth'.opened /\ <<SerialNumber[d], FileOn[d]>> \in truth'.opened
      /\ truth.present \subseteq truth'.present /\ <<SerialNumber[d], now>> \in truth'.present
      /\ truth'.carried = truth.carried /\ truth'.labelled = truth.labelled
      /\ truth' \in Truths
  <2>1. truth \in Truths
    BY DEF HostInv, HostTypes
  <2>2. SerialNumber[d] \in Names /\ FileOn[d] \in Names
    BY HostAssumption
  <2>3. truth' = [opened |-> truth.opened \cup {<<SerialNumber[d], FileOn[d]>>},
                  carried |-> truth.carried, labelled |-> truth.labelled,
                  present |-> truth.present \cup {<<SerialNumber[d], now>>}]
    BY <1>1, <2>1 DEF Seen, Truths
  <2>4. <<SerialNumber[d], FileOn[d]>> \in Names \X Names /\ <<SerialNumber[d], now>> \in Names \X Nat
    BY <1>3, <2>2
  <2> QED
    BY <2>1, <2>3, <2>4 DEF Truths
<1>6. HostTypes'
  <2>1. IsFiniteSet(records \cup {link})
    BY FS_AddElement DEF HostInv, HostTypes
  <2>2. records' = (records \cup {link}) \cup {entry}
    BY <1>1
  <2>3. IsFiniteSet(records')
    BY <2>1, <2>2, FS_AddElement
  <2> QED
    BY <1>1, <1>3, <1>5, <2>3 DEF HostInv, HostTypes
<1>7. HostRecord(link, clock', Began') /\ HostRecord(entry, clock', Began')
  <2>1. now \in 0..now
    BY <1>3
  <2>2. IsLink(link) /\ IsJumpEntry(entry, now)
    BY <1>0, <1>3, <2>1 DEF IsLink, IsJumpEntry
  <2> QED
    BY <1>1, <2>2 DEF HostRecord
<1>8. LinkTrue(link)' /\ LinkTrue(entry)'
  <2>1. formats[d] + 1 = 1 => FirstSerialSeen(d)'
    BY <1>1, <1>3, <1>4 DEF HostInv, PluggedKnown
  <2>2. /\ OpenedBy(link, d, VolumeSerials[d][formats[d] + 1])'
        /\ OpenedBy(entry, d, VolumeSerials[d][formats[d] + 1])'
    BY <1>0, <1>1, <1>3, <1>5 DEF OpenedBy
  <2> QED
    BY <1>1, <1>3, <1>5, <2>1, <2>2 DEF LinkTrue
<1>9. LinksTrue'
  <2>1. ASSUME NEW r \in records, r.source \in {"Lnk", "JumpList"} PROVE LinkTrue(r)'
    BY <1>4, <1>5, <2>1, LinksKept DEF HostInv, LinksTrue
  <2> QED
    BY <1>1, <1>8, <2>1 DEF LinksTrue
<1>10. OneBeginning' /\ PluggedKnown' /\ LabelsCached' /\ LetterHeld'
  BY <1>1, <1>4, <1>5 DEF HostInv, OneBeginning, PluggedKnown, LabelsCached, LetterHeld
<1> QED
  BY <1>1, <1>4, <1>6, <1>7, <1>9, <1>10 DEF HostInv

LEMMA BrowseHost ==
    ASSUME HostInv, NEW d \in DOMAIN FolderOn, Browse(d)
    PROVE  HostInv'
<1> DEFINE node == BrowsedNode(FolderOn[d])
<1>1. /\ clock' = clock + 1 /\ clock \in Nat
      /\ plugged' = plugged /\ formats' = formats /\ label' = label /\ truth' = truth
      /\ records' = records \cup {node}
  BY DEF Browse, Tick, HostInv, HostTypes
<1>2. node.source = "Shellbag"
  BY DEF BrowsedNode
<1>3. HostRecord(node, clock', Began')
  BY DEF HostRecord, IsBrowsedNode
<1> HIDE DEF node
<1>4. /\ Began' = Began
      /\ \A r \in records : HostRecord(r, clock', Began')
      /\ \A e : Registry(e)' = Registry(e)
      /\ \A e : FirstSerialSeen(e) => FirstSerialSeen(e)'
      /\ \A u : u \in records /\ u.source = "Usbstor" <=> u \in records' /\ u.source = "Usbstor"
  BY <1>1, <1>2, RecordsKept
<1>5. HostTypes'
  <2>1. IsFiniteSet(records')
    BY <1>1, FS_AddElement DEF HostInv, HostTypes
  <2> QED
    BY <1>1, <2>1 DEF HostInv, HostTypes
<1>6. LinksTrue'
  BY <1>1, <1>2, <1>4, LinksKept DEF HostInv, LinksTrue
<1>7. OneBeginning' /\ PluggedKnown' /\ LabelsCached' /\ LetterHeld'
  BY <1>1, <1>4 DEF HostInv, OneBeginning, PluggedKnown, LabelsCached, LetterHeld
<1> QED
  BY <1>1, <1>3, <1>4, <1>5, <1>6, <1>7 DEF HostInv

LEMMA ImageHost ==
    ASSUME HostInv, NEW d \in Devices, Image(d)
    PROVE  HostInv'
<1> DEFINE image == ImageOf(d, SerialOn(d))
<1>1. /\ clock' = clock + 1 /\ clock \in Nat
      /\ plugged' = plugged /\ formats' = formats /\ label' = label /\ truth' = truth
      /\ records' = records \cup {image}
  BY DEF Image, Tick, HostInv, HostTypes
<1>2. image.source = "DeviceImage"
  BY DEF ImageOf
<1>3. HostRecord(image, clock', Began')
  <2>1. SerialOn(d) \in SerialsOf(d)
    BY DEF HostInv, HostTypes, SerialOn, SerialsOf
  <2> QED
    BY <2>1 DEF HostRecord, IsImage
<1> HIDE DEF image
<1>4. /\ Began' = Began
      /\ \A r \in records : HostRecord(r, clock', Began')
      /\ \A e : Registry(e)' = Registry(e)
      /\ \A e : FirstSerialSeen(e) => FirstSerialSeen(e)'
      /\ \A u : u \in records /\ u.source = "Usbstor" <=> u \in records' /\ u.source = "Usbstor"
  BY <1>1, <1>2, RecordsKept
<1>5. HostTypes'
  <2>1. IsFiniteSet(records')
    BY <1>1, FS_AddElement DEF HostInv, HostTypes
  <2> QED
    BY <1>1, <2>1 DEF HostInv, HostTypes
<1>6. LinksTrue'
  BY <1>1, <1>2, <1>4, LinksKept DEF HostInv, LinksTrue
<1>7. OneBeginning' /\ PluggedKnown' /\ LabelsCached' /\ LetterHeld'
  BY <1>1, <1>4 DEF HostInv, OneBeginning, PluggedKnown, LabelsCached, LetterHeld
<1> QED
  BY <1>1, <1>3, <1>4, <1>5, <1>6, <1>7 DEF HostInv

LEMMA FormatHost ==
    ASSUME HostInv, NEW d \in Devices, NEW name \in Labels, Format(d, name)
    PROVE  HostInv'
<1> DEFINE serial == VolumeSerials[d][formats[d] + 2]
<1>1. /\ clock' = clock + 1 /\ clock \in Nat /\ plugged' = plugged /\ d \in plugged
      /\ formats[d] \in Nat /\ formats[d] + 1 < Len(VolumeSerials[d])
      /\ formats' = [formats EXCEPT ![d] = @ + 1] /\ formats \in [Devices -> Nat]
      /\ label' = [label EXCEPT ![d] = name] /\ label \in [Devices -> Labels]
      /\ records' = (records \ OldLetterCache) \cup {CachedVolume(serial, name), CachedLetter(name)}
      /\ truth' = Carry(truth, d, serial, name)
  BY DEF Format, Tick, HostInv, HostTypes, LabelCaches
<1>2. CachedVolume(serial, name).source = "EmdMgmt" /\ CachedLetter(name).source = "VolumeInfoCache"
  BY DEF CachedVolume, CachedLetter
<1>3. formats[d] + 2 \in DOMAIN VolumeSerials[d] /\ serial \in SerialsOf(d) /\ serial \in Names
  <2>1. VolumeSerials[d] \in Seq(Names)
    BY HostAssumption
  <2>2. DOMAIN VolumeSerials[d] = 1..Len(VolumeSerials[d]) /\ Len(VolumeSerials[d]) \in Nat
    BY <2>1
  <2>3. formats[d] + 2 \in 1..Len(VolumeSerials[d])
    BY <1>1, <2>2
  <2> QED
    BY <2>2, <2>3, SerialsTyped DEF SerialsOf
<1> HIDE DEF serial
<1>4. /\ Began' = Began
      /\ \A r \in records : HostRecord(r, clock', Began')
      /\ \A e : Registry(e)' = Registry(e)
      /\ \A e : FirstSerialSeen(e) => FirstSerialSeen(e)'
      /\ \A u : u \in records /\ u.source = "Usbstor" <=> u \in records' /\ u.source = "Usbstor"
  <2>1. \A r \in records : r.source # "VolumeInfoCache" => r \in records'
    BY <1>1 DEF OldLetterCache
  <2>2. \A r \in records' : r \in records \/ r.source # "Usbstor"
    BY <1>1, <1>2
  <2> QED
    BY <1>1, <2>1, <2>2, RecordsKept
<1>5. /\ truth'.opened = truth.opened /\ truth'.present = truth.present
      /\ truth'.carried = truth.carried \cup {<<SerialNumber[d], serial>>}
      /\ truth'.labelled = truth.labelled \cup {<<name, serial>>}
      /\ truth' \in Truths
  <2>1. truth \in Truths
    BY DEF HostInv, HostTypes
  <2>2. SerialNumber[d] \in Names
    BY HostAssumption
  <2>3. truth' = [opened |-> truth.opened,
                  carried |-> truth.carried \cup {<<SerialNumber[d], serial>>},
                  labelled |-> truth.labelled \cup {<<name, serial>>},
                  present |-> truth.present]
    BY <1>1, <2>1 DEF Carry, Truths
  <2>4. /\ <<SerialNumber[d], serial>> \in Names \X Names /\ <<name, serial>> \in Labels \X Names
    BY <1>3, <2>2
  <2>5. /\ truth.carried \cup {<<SerialNumber[d], serial>>} \in SUBSET (Names \X Names)
        /\ truth.labelled \cup {<<name, serial>>} \in SUBSET (Labels \X Names)
        /\ truth.opened \in SUBSET (Names \X Names) /\ truth.present \in SUBSET (Names \X Nat)
    BY <2>1, <2>4 DEF Truths
  <2> QED
    BY <2>3, <2>5 DEF Truths
<1>6. HostTypes'
  <2>1. IsFiniteSet(records')
    <3>1. IsFiniteSet(records) /\ records \ OldLetterCache \in SUBSET records
      BY DEF HostInv, HostTypes
    <3>2. IsFiniteSet(records \ OldLetterCache)
      BY <3>1, FS_Subset
    <3>3. IsFiniteSet({CachedVolume(serial, name)}) /\ IsFiniteSet({CachedLetter(name)})
      BY FS_Singleton
    <3>4. records' = ((records \ OldLetterCache) \cup {CachedVolume(serial, name)})
                        \cup {CachedLetter(name)}
      BY <1>1
    <3> QED
      BY ONLY <3>2, <3>3, <3>4, FS_Union
  <2>2. formats' \in [Devices -> Nat] /\ label' \in [Devices -> Labels]
    BY <1>1
  <2>3. ASSUME NEW e \in Devices PROVE formats'[e] + 1 \in DOMAIN VolumeSerials[e]
    <3>1. CASE e = d
      <4>1. formats'[e] + 1 = formats[d] + 2
        BY <1>1, <3>1
      <4> QED
        BY <1>3, <3>1, <4>1
    <3>2. CASE e # d
      BY <1>1, <3>2 DEF HostInv, HostTypes
    <3> QED
      BY <3>1, <3>2
  <2> QED
    BY <1>1, <1>5, <2>1, <2>2, <2>3 DEF HostInv, HostTypes
<1>7. /\ HostRecord(CachedVolume(serial, name), clock', Began')
      /\ HostRecord(CachedLetter(name), clock', Began')
  BY <1>3 DEF HostRecord, IsCachedVolume, IsCachedLetter
<1>8. LinksTrue'
  BY <1>1, <1>2, <1>4, <1>5, LinksKept DEF HostInv, LinksTrue
<1>9. PluggedKnown'
  <2>1. ASSUME NEW e \in plugged, formats'[e] = 0 PROVE formats[e] = 0
    <3>1. e \in Devices
      BY DEF HostInv, HostTypes
    <3> QED
      BY <1>1, <2>1, <3>1
  <2> QED
    BY <1>1, <1>4, <2>1 DEF HostInv, PluggedKnown
<1>10. LabelsCached'
  <2>1. ASSUME NEW pair \in truth.labelled PROVE CachedVolume(pair[2], pair[1]) \in records'
    <3>1. CachedVolume(pair[2], pair[1]) \in records
      BY DEF HostInv, LabelsCached
    <3>2. CachedVolume(pair[2], pair[1]).source = "EmdMgmt"
      BY DEF CachedVolume
    <3> QED
      BY <1>1, <3>1, <3>2 DEF OldLetterCache
  <2>2. CachedVolume(serial, name) \in records'
    BY <1>1
  <2> QED
    BY <1>5, <2>1, <2>2 DEF LabelsCached
<1>11. LetterHeld'
  <2>1. truth.carried # {}
    BY <1>1 DEF HostInv, LetterHeld
  <2> QED
    BY <1>1, <1>4, <1>5, <2>1 DEF HostInv, LetterHeld
<1>12. OneBeginning'
  BY <1>4 DEF HostInv, OneBeginning
<1> QED
  BY <1>1, <1>4, <1>6, <1>7, <1>8, <1>9, <1>10, <1>11, <1>12 DEF HostInv

\* A registry entry with one of its fields changed.
LEMMA LetterChanged ==
    ASSUME NEW d, NEW first, NEW arrival, NEW removal, NEW letter, NEW x, NEW r,
           r = RegistryEntry(d, first, arrival, removal, letter)
    PROVE  [r EXCEPT !.drive_letter = x] = RegistryEntry(d, first, arrival, removal, x)
<1>1. PICK no, serial, usbstor, system :
        no = FALSE /\ serial = SerialNumber[d] /\ usbstor = "Usbstor" /\ system = "SYSTEM"
  OBVIOUS
<1>2. \A v, l : RegistryEntry(d, first, arrival, v, l) =
        [source |-> usbstor, locator |-> system, serial |-> serial, instance |-> serial,
         first_install |-> first, last_arrival |-> arrival, last_removal |-> v,
         drive_letter |-> l, mtp |-> no]
  BY <1>1 DEF RegistryEntry, Connection
<1>3. r =
        [source |-> usbstor, locator |-> system, serial |-> serial, instance |-> serial,
         first_install |-> first, last_arrival |-> arrival, last_removal |-> removal,
         drive_letter |-> letter, mtp |-> no]
  BY <1>2
<1>4. [r EXCEPT !.drive_letter = x] =
        [source |-> usbstor, locator |-> system, serial |-> serial, instance |-> serial,
         first_install |-> first, last_arrival |-> arrival, last_removal |-> removal,
         drive_letter |-> x, mtp |-> no]
  BY ONLY <1>3
<1> QED
  BY ONLY <1>2, <1>4

LEMMA RemovalChanged ==
    ASSUME NEW d, NEW first, NEW arrival, NEW removal, NEW letter, NEW x, NEW r,
           r = RegistryEntry(d, first, arrival, removal, letter)
    PROVE  [r EXCEPT !.last_removal = x] = RegistryEntry(d, first, arrival, x, letter)
<1>1. PICK no, serial, usbstor, system :
        no = FALSE /\ serial = SerialNumber[d] /\ usbstor = "Usbstor" /\ system = "SYSTEM"
  OBVIOUS
<1>2. \A v, l : RegistryEntry(d, first, arrival, v, l) =
        [source |-> usbstor, locator |-> system, serial |-> serial, instance |-> serial,
         first_install |-> first, last_arrival |-> arrival, last_removal |-> v,
         drive_letter |-> l, mtp |-> no]
  BY <1>1 DEF RegistryEntry, Connection
<1>3. r =
        [source |-> usbstor, locator |-> system, serial |-> serial, instance |-> serial,
         first_install |-> first, last_arrival |-> arrival, last_removal |-> removal,
         drive_letter |-> letter, mtp |-> no]
  BY <1>2
<1>4. [r EXCEPT !.last_removal = x] =
        [source |-> usbstor, locator |-> system, serial |-> serial, instance |-> serial,
         first_install |-> first, last_arrival |-> arrival, last_removal |-> x,
         drive_letter |-> letter, mtp |-> no]
  BY ONLY <1>3
<1> QED
  BY ONLY <1>2, <1>4

\* What a registry entry says, and what becomes of it when it is updated.
LEMMA RegistryUpdated ==
    ASSUME NEW r, NEW now \in Nat, IsRegistryEntry(r, now), NEW later \in Nat, now <= later
    PROVE  /\ \E d \in Devices : r.serial = SerialNumber[d]
           /\ r.source = "Usbstor" /\ r.first_install \in 0..now
           /\ r.last_removal # None =>
                r.last_removal \in 0..now /\ r.first_install <= r.last_removal
           /\ LET u == [r EXCEPT !.drive_letter = None]
              IN  IsRegistryEntry(u, later) /\ u.serial = r.serial /\ u.first_install = r.first_install
           /\ LET u == [r EXCEPT !.last_removal = later]
              IN  /\ IsRegistryEntry(u, later) /\ u.serial = r.serial
                  /\ u.first_install = r.first_install /\ u.drive_letter = r.drive_letter
<1>1. PICK d \in Devices, first \in 0..now, arrival \in 0..now,
           removal \in (0..now) \cup {None}, letter \in {Letter, None} :
        /\ r = RegistryEntry(d, first, arrival, removal, letter)
        /\ first <= arrival /\ (removal # None => first <= removal)
  BY DEF IsRegistryEntry
<1>2. /\ r.serial = SerialNumber[d] /\ r.source = "Usbstor" /\ r.first_install = first
      /\ r.last_removal = removal /\ r.drive_letter = letter
  BY <1>1 DEF RegistryEntry, Connection
<1>3. [r EXCEPT !.drive_letter = None] = RegistryEntry(d, first, arrival, removal, None)
  BY <1>1, LetterChanged
<1>4. [r EXCEPT !.last_removal = later] = RegistryEntry(d, first, arrival, later, letter)
  BY <1>1, RemovalChanged
<1>5. \A at \in 0..now : at \in 0..later
  OBVIOUS
<1>6. IsRegistryEntry(RegistryEntry(d, first, arrival, removal, None), later)
  BY <1>1, <1>5 DEF IsRegistryEntry
<1>7. IsRegistryEntry(RegistryEntry(d, first, arrival, later, letter), later)
  <2>1. later \in 0..later /\ first <= later
    OBVIOUS
  <2> QED
    BY <1>1, <1>5, <2>1 DEF IsRegistryEntry
<1>8. /\ RegistryEntry(d, first, arrival, removal, None).serial = SerialNumber[d]
      /\ RegistryEntry(d, first, arrival, removal, None).first_install = first
      /\ RegistryEntry(d, first, arrival, later, letter).serial = SerialNumber[d]
      /\ RegistryEntry(d, first, arrival, later, letter).first_install = first
      /\ RegistryEntry(d, first, arrival, later, letter).drive_letter = letter
  BY DEF RegistryEntry, Connection
<1>9. removal # None => removal \in 0..now
  OBVIOUS
<1> QED
  BY <1>1, <1>2, <1>3, <1>4, <1>6, <1>7, <1>8, <1>9

\* The times of a registry entry that is updated.
LEMMA RegistryTimes ==
    ASSUME NEW r, NEW now, IsRegistryEntry(r, now), NEW x
    PROVE  /\ [r EXCEPT !.drive_letter = x].last_arrival = r.last_arrival
           /\ [r EXCEPT !.drive_letter = x].last_removal = r.last_removal
           /\ [r EXCEPT !.last_removal = x].last_arrival = r.last_arrival
           /\ [r EXCEPT !.last_removal = x].last_removal = x
BY DEF IsRegistryEntry, RegistryEntry, Connection

LEMMA UnplugHost ==
    ASSUME HostInv, NEW d \in Devices, Unplug(d)
    PROVE  HostInv'
<1> DEFINE touched == [r \in records |-> IF r \in Registry(d)
                                          THEN [r EXCEPT !.last_removal = clock'] ELSE r]
           event == RemovalEvent(d, clock')
<1>1. /\ clock' = clock + 1 /\ clock \in Nat /\ clock' \in Nat /\ d \in plugged
      /\ plugged' = {} /\ formats' = formats /\ label' = label
      /\ truth' = Seen(truth, d, clock')
      /\ records' = {touched[r] : r \in records} \cup {event}
  BY DEF Unplug, Tick, HostInv, HostTypes
<1>2. event.source = "DriverFramework"
  BY DEF RemovalEvent
<1>0. /\ truth'.opened = truth.opened /\ truth'.carried = truth.carried
      /\ truth'.labelled = truth.labelled /\ truth.present \subseteq truth'.present
      /\ truth' \in Truths
  <2>1. truth \in Truths /\ SerialNumber[d] \in Names
    BY HostAssumption DEF HostInv, HostTypes
  <2>2. truth' = [opened |-> truth.opened, carried |-> truth.carried, labelled |-> truth.labelled,
                  present |-> truth.present \cup {<<SerialNumber[d], clock'>>}]
    BY <1>1, <2>1 DEF Seen, Truths
  <2>3. <<SerialNumber[d], clock'>> \in Names \X Nat
    BY <1>1, <2>1
  <2> QED
    BY <2>1, <2>2, <2>3 DEF Truths
<1>3. \A r \in Registry(d) : IsRegistryEntry(r, clock) /\ r \in records
  BY SourceTells DEF HostInv, Registry
<1>4. /\ \A r \in records \ Registry(d) : touched[r] = r
      /\ \A r \in Registry(d) : touched[r] = [r EXCEPT !.last_removal = clock']
  BY <1>3
<1>5. ASSUME NEW r \in Registry(d)
      PROVE  /\ IsRegistryEntry(touched[r], clock') /\ touched[r].source = "Usbstor"
             /\ touched[r].serial = r.serial /\ touched[r].first_install = r.first_install
             /\ touched[r].drive_letter = r.drive_letter
  <2>1. clock <= clock' /\ IsRegistryEntry(r, clock)
    BY <1>1, <1>3
  <2> DEFINE u == [r EXCEPT !.last_removal = clock']
  <2>2. /\ IsRegistryEntry(u, clock') /\ u.serial = r.serial
        /\ u.first_install = r.first_install /\ u.drive_letter = r.drive_letter
    BY <1>1, <2>1, RegistryUpdated
  <2>3. touched[r] = u
    BY <1>4
  <2> HIDE DEF touched, u
  <2> QED
    BY <2>2, <2>3, KindsTell
<1>6. IsFiniteSet(records')
  <2>1. DOMAIN touched = records /\ touched = [r \in records |-> touched[r]]
    OBVIOUS
  <2> HIDE DEF touched, event
  <2>2. IsFiniteSet({touched[r] : r \in records})
    BY <2>1, ImageFinite DEF HostInv, HostTypes
  <2> QED
    BY <1>1, <2>2, FS_AddElement
<1> HIDE DEF touched
<1>7. \A r \in records : r.source # "Usbstor" => r \in records'
  BY <1>1, <1>4 DEF Registry
<1>8. ASSUME NEW r \in records, r.source = "Usbstor"
      PROVE  \E u \in records' : /\ u.source = "Usbstor" /\ u.serial = r.serial
                                 /\ u.first_install = r.first_install
                                 /\ u.drive_letter = r.drive_letter
  <2>1. touched[r] \in records'
    BY <1>1
  <2> QED
    BY <1>4, <1>5, <1>8, <2>1
<1>9. ASSUME NEW r \in records'
      PROVE  \/ r \in records \ Registry(d)
             \/ r = event
             \/ \E u \in Registry(d) : r = touched[u]
  BY <1>1, <1>4
<1> HIDE DEF event
<1>10. Began' = Began
  <2>1. ASSUME NEW u \in records', u.source = "Usbstor"
        PROVE  \E r \in records : /\ r.source = "Usbstor" /\ r.serial = u.serial
                                  /\ r.first_install = u.first_install
    <3>1. CASE u \in records
      BY <2>1, <3>1
    <3>2. CASE \E r \in Registry(d) : u = touched[r]
      BY <1>3, <1>5, <3>2 DEF Registry
    <3> QED
      BY <1>2, <1>9, <2>1, <3>1, <3>2
  <2> QED
    BY <1>8, <2>1 DEF Began
<1>11. ASSUME NEW r \in records' PROVE HostRecord(r, clock', Began')
  <2>1. CASE r \in records \ Registry(d)
    <3>1. HostRecord(r, clock, Began)
      BY <2>1 DEF HostInv
    <3>2. HostRecord(r, clock + 1, Began)
      BY <1>1, <3>1, RecordsLast
    <3> QED
      BY <1>1, <1>10, <3>2
  <2>2. CASE r = event
    <3>1. \E u \in Registry(d) : TRUE
      BY <1>1 DEF HostInv, PluggedKnown
    <3>2. PICK u \in Registry(d) : TRUE
      BY <3>1
    <3>3. <<SerialNumber[d], u.first_install>> \in Began /\ u.first_install \in 0..clock
      <4>1. u.first_install \in 0..clock
        <5>1. IsRegistryEntry(u, clock) /\ clock <= clock
          BY <1>1, <1>3
        <5> QED
          BY <1>1, <5>1, RegistryUpdated
      <4>2. u \in {r2 \in records : r2.source = "Usbstor"} /\ u.serial = SerialNumber[d]
        BY DEF Registry
      <4> QED
        BY <4>1, <4>2 DEF Began
    <3>4. Since(d, clock', Began')
      BY <1>1, <1>10, <3>3 DEF Since
    <3>5. clock' \in 0..clock'
      BY <1>1
    <3>6. IsRemoval(r, clock', Began')
      BY <2>2, <3>4, <3>5 DEF IsRemoval, event
    <3> QED
      BY <3>6 DEF HostRecord
  <2>3. CASE \E u \in Registry(d) : r = touched[u]
    BY <1>5, <2>3 DEF HostRecord
  <2> QED
    BY <1>9, <2>1, <2>2, <2>3
<1>12. ASSUME NEW e, FirstSerialSeen(e) PROVE FirstSerialSeen(e)'
  BY <1>7, <1>12 DEF FirstSerialSeen
<1>13. LinksTrue'
  <2>1. ASSUME NEW r \in records', r.source \in {"Lnk", "JumpList"} PROVE LinkTrue(r)'
    <3>1. r \in records
      BY <1>2, <1>5, <1>9, <2>1
    <3> QED
      BY <1>0, <1>12, <2>1, <3>1, LinksKept DEF HostInv, LinksTrue
  <2> QED
    BY <2>1 DEF LinksTrue
<1>14. LabelsCached'
  <2>1. ASSUME NEW pair \in truth.labelled PROVE CachedVolume(pair[2], pair[1]) \in records'
    <3>1. CachedVolume(pair[2], pair[1]) \in records
      BY DEF HostInv, LabelsCached
    <3>2. CachedVolume(pair[2], pair[1]).source = "EmdMgmt"
      BY DEF CachedVolume
    <3> QED
      BY <1>7, <3>1, <3>2
  <2> QED
    BY <1>0, <2>1 DEF LabelsCached
<1>15. LetterHeld'
  <2>1. ASSUME NEW u \in records', u.source = "Usbstor"
        PROVE  \E pair \in truth.carried : pair[1] = u.serial
    <3>1. CASE u \in records
      BY <2>1, <3>1 DEF HostInv, LetterHeld
    <3>2. CASE \E r \in Registry(d) : u = touched[r]
      BY <1>3, <1>5, <3>2 DEF Registry, HostInv, LetterHeld
    <3> QED
      BY <1>2, <1>9, <2>1, <3>1, <3>2
  <2>2. truth.carried # {} =>
            \E u \in records' : u.source = "Usbstor" /\ u.drive_letter = Letter
    BY <1>8 DEF HostInv, LetterHeld
  <2> QED
    BY <1>0, <1>1, <2>1, <2>2 DEF LetterHeld
<1>16. HostTypes' /\ OneBeginning' /\ PluggedKnown'
  BY <1>0, <1>1, <1>6, <1>10 DEF HostInv, HostTypes, OneBeginning, PluggedKnown
<1> QED
  BY <1>11, <1>13, <1>14, <1>15, <1>16 DEF HostInv

\* The registry keeps the moment a stick was first plugged in, and the last one
\* it was removed at.
LEMMA RegistryKnows ==
    ASSUME HostInv, NEW d \in Devices, NEW now, now = clock + 1
    PROVE  LET first == Field(Registry(d), "first_install", now)
               removal == Field(Registry(d), "last_removal", None)
           IN  /\ first \in 0..now
               /\ removal \in (0..now) \cup {None} /\ (removal # None => first <= removal)
               /\ \A u \in Registry(d) : u.first_install = first
<1> DEFINE first == Field(Registry(d), "first_install", now)
           removal == Field(Registry(d), "last_removal", None)
<1>1. clock \in Nat
  BY DEF HostInv, HostTypes
<1>2. CASE Registry(d) = {}
  <2>1. first = now /\ removal = None
    BY <1>2 DEF Field
  <2> QED
    BY <1>1, <1>2, <2>1
<1>3. CASE Registry(d) # {}
  <2>1. PICK u \in Registry(d) : first = u["first_install"] /\ removal = u["last_removal"]
    <3>1. (CHOOSE r \in Registry(d) : TRUE) \in Registry(d)
      BY <1>3
    <3> QED
      BY <1>3, <3>1 DEF Field
  <2>2. u["first_install"] = u.first_install /\ u["last_removal"] = u.last_removal
    OBVIOUS
  <2>3. IsRegistryEntry(u, clock) /\ clock <= clock
    BY <1>1, SourceTells DEF HostInv, Registry
  <2>4. /\ u.first_install \in 0..clock
        /\ u.last_removal # None =>
                u.last_removal \in 0..clock /\ u.first_install <= u.last_removal
    BY <1>1, <2>3, RegistryUpdated
  <2>5. ASSUME NEW v \in Registry(d) PROVE v.first_install = u.first_install
    <3>1. /\ <<v.serial, v.first_install>> \in Began /\ <<u.serial, u.first_install>> \in Began
          /\ v.serial = u.serial
      BY DEF Registry, Began
    <3>2. <<v.serial, v.first_install>> = <<u.serial, u.first_install>>
      BY <3>1 DEF HostInv, OneBeginning
    <3> QED
      BY <3>2
  <2>6. \A at \in 0..clock : at \in 0..(clock + 1)
    BY <1>1
  <2>7. u.first_install \in 0..now
    BY <2>4, <2>6
  <2>8. /\ u.last_removal \in (0..now) \cup {None}
        /\ u.last_removal # None => u.first_install <= u.last_removal
    BY <2>4, <2>6
  <2>9. first = u.first_install /\ removal = u.last_removal
    BY <2>1, <2>2
  <2> HIDE DEF first, removal
  <2>10. /\ first \in 0..now
         /\ removal \in (0..now) \cup {None} /\ (removal # None => first <= removal)
         /\ \A v \in Registry(d) : v.first_install = first
    BY ONLY <2>5, <2>7, <2>8, <2>9
  <2> QED
    BY <2>10 DEF first, removal
<1> QED
  BY <1>2, <1>3

LEMMA PlugHost ==
    ASSUME HostInv, NEW d \in Devices, Plug(d)
    PROVE  HostInv'
<1>1. PICK now, first, removal, serial, name :
        /\ now = clock + 1
        /\ first = Field(Registry(d), "first_install", now)
        /\ removal = Field(Registry(d), "last_removal", None)
        /\ serial = SerialOn(d) /\ name = label[d]
  OBVIOUS
<1> DEFINE kept == records \ (Registry(d) \cup Overwritten(d))
           released == [r \in kept |-> IF r.source = "Usbstor"
                                        THEN [r EXCEPT !.drive_letter = None] ELSE r]
           entry == RegistryEntry(d, first, now, removal, Letter)
           setup == SetupEntry(d, now + HostOffset)
           others == {UserMount(d, now), ArrivalEvent(d, now, serial),
                      MountEntry(d, Letter, None), MountEntry(d, None, GuidOf[d]),
                      CachedVolume(serial, name), CachedLetter(name), PnpEvent(d, now)}
<1>2. /\ clock' = now /\ clock \in Nat /\ now \in Nat
      /\ plugged' = {d} /\ formats' = formats /\ label' = label
      /\ truth' = Seen(Carry(truth, d, serial, name), d, now)
  BY <1>1 DEF Plug, Tick, HostInv, HostTypes
<1>3. records' = {released[r] : r \in kept} \cup others \cup {entry}
                    \cup (IF Registry(d) # {} THEN {} ELSE {setup})
  BY <1>1, <1>2 DEF Plug, Released, MountRecords, LabelCaches
<1>4. /\ serial \in SerialsOf(d) /\ serial \in Names /\ name \in Labels
      /\ formats[d] = 0 => serial = VolumeSerials[d][1]
  <2>1. /\ formats[d] + 1 \in DOMAIN VolumeSerials[d] /\ formats[d] \in Nat
        /\ serial = VolumeSerials[d][formats[d] + 1] /\ name \in Labels
    BY <1>1 DEF HostInv, HostTypes, SerialOn
  <2>2. formats[d] = 0 => formats[d] + 1 = 1
    BY <2>1
  <2> QED
    BY <2>1, <2>2, SerialsTyped DEF SerialsOf
<1>5. /\ first \in 0..now
      /\ removal \in (0..now) \cup {None} /\ (removal # None => first <= removal)
      /\ \A u \in Registry(d) : u.first_install = first
      /\ Registry(d) = {} => first = now
  BY <1>1, RegistryKnows DEF Field
<1>6. /\ UserMount(d, now).source = "MountPoints2"
      /\ ArrivalEvent(d, now, serial).source = "PartitionDiag"
      /\ ArrivalEvent(d, now, serial).serial_number = SerialNumber[d]
      /\ ArrivalEvent(d, now, serial).fat_serial = serial
      /\ MountEntry(d, Letter, None).source = "MountedVolume"
      /\ MountEntry(d, None, GuidOf[d]).source = "MountedVolume"
      /\ CachedVolume(serial, name).source = "EmdMgmt"
      /\ CachedLetter(name).source = "VolumeInfoCache"
      /\ PnpEvent(d, now).source = "KernelPnp"
      /\ setup.source = "SetupApi"
  BY DEF UserMount, ArrivalEvent, MountEntry, CachedVolume, CachedLetter, PnpEvent, SetupEntry,
         Connection
<1>7. /\ entry.source = "Usbstor" /\ entry.serial = SerialNumber[d]
      /\ entry.first_install = first /\ entry.drive_letter = Letter
  BY DEF RegistryEntry, Connection
<1>8. \A r \in others \cup {setup} : r.source \notin {"Usbstor", "Lnk", "JumpList"}
  BY <1>6
<1>9. /\ \A r \in kept : r.source # "Usbstor" => released[r] = r
      /\ \A r \in kept : r.source = "Usbstor" => released[r] = [r EXCEPT !.drive_letter = None]
      /\ \A r \in kept : r \in records /\ r \notin Registry(d)
      /\ \A r \in records : r.source \in {"PartitionDiag", "Lnk", "JumpList", "EmdMgmt", "SetupApi", "KernelPnp",
                                          "DriverFramework", "DeviceImage", "Shellbag"} => r \in kept
      /\ \A r \in records : r.source = "Usbstor" => r \in kept \/ r \in Registry(d)
  BY DEF Registry, Overwritten, OldLetterCache
<1>10. IsFiniteSet(records')
  <2>1. IsFiniteSet(kept)
    BY FS_Subset DEF HostInv, HostTypes
  <2>2. DOMAIN released = kept /\ released = [r \in kept |-> released[r]]
    OBVIOUS
  <2> HIDE DEF kept, released, entry, setup
  <2>3. IsFiniteSet({released[r] : r \in kept})
    BY <2>1, <2>2, ImageFinite
  <2>4. IsFiniteSet(others)
    <3>1. \A a, b \in {others} : TRUE
      OBVIOUS
    <3>2. \A S, x : IsFiniteSet(S) => IsFiniteSet(S \cup {x})
      BY FS_AddElement
    <3>3. others = {} \cup {UserMount(d, now)} \cup {ArrivalEvent(d, now, serial)}
                    \cup {MountEntry(d, Letter, None)} \cup {MountEntry(d, None, GuidOf[d])}
                    \cup {CachedVolume(serial, name)} \cup {CachedLetter(name)} \cup {PnpEvent(d, now)}
      OBVIOUS
    <3> HIDE DEF others
    <3> QED
      BY ONLY <3>2, <3>3, FS_EmptySet
  <2>5. IsFiniteSet({entry}) /\ IsFiniteSet(IF Registry(d) # {} THEN {} ELSE {setup})
    BY FS_Singleton, FS_EmptySet
  <2> HIDE DEF others
  <2> QED
    BY ONLY <1>3, <2>3, <2>4, <2>5, FS_Union
<1>11. ASSUME NEW r \in kept, r.source = "Usbstor"
       PROVE  /\ IsRegistryEntry(released[r], now) /\ released[r].source = "Usbstor"
              /\ released[r].serial = r.serial /\ released[r].first_install = r.first_install
              /\ r.serial # SerialNumber[d]
  <2>1. clock <= now /\ IsRegistryEntry(r, clock)
    BY <1>1, <1>2, <1>9, <1>11, SourceTells DEF HostInv
  <2> DEFINE u == [r EXCEPT !.drive_letter = None]
  <2>2. IsRegistryEntry(u, now) /\ u.serial = r.serial /\ u.first_install = r.first_install
    BY <1>2, <2>1, RegistryUpdated
  <2>3. released[r] = u
    BY <1>9, <1>11
  <2>4. r.serial # SerialNumber[d]
    BY <1>9, <1>11 DEF Registry
  <2> HIDE DEF released, u, kept
  <2> QED
    BY <2>2, <2>3, <2>4, KindsTell
<1> HIDE DEF kept, released, entry, setup
<1>12. ASSUME NEW r \in records'
       PROVE  \/ r \in records /\ r.source # "Usbstor"
              \/ \E u \in kept : u.source = "Usbstor" /\ r = released[u]
              \/ r \in others
              \/ r = entry
              \/ r = setup /\ Registry(d) = {}
  <2>1. CASE r \in {released[u] : u \in kept}
    BY <1>9, <2>1
  <2>2. CASE r \in IF Registry(d) # {} THEN {} ELSE {setup}
    BY <2>2
  <2> HIDE DEF others
  <2> QED
    BY <1>3, <2>1, <2>2
<1> HIDE DEF others
<1>13. /\ \A u \in records' : u.source = "Usbstor" =>
                \/ u = entry
                \/ \E r \in kept : r.source = "Usbstor" /\ u = released[r]
  BY <1>8, <1>12
<1>14. entry \in records' /\ \A r \in kept : released[r] \in records'
  BY <1>3
<1>15. /\ \A p \in Began' :
            \/ p = <<SerialNumber[d], first>>
            \/ p \in Began /\ p[1] # SerialNumber[d]
       /\ Began \subseteq Began' /\ <<SerialNumber[d], first>> \in Began'
  <2>1. ASSUME NEW u \in records', u.source = "Usbstor"
        PROVE  \/ <<u.serial, u.first_install>> = <<SerialNumber[d], first>>
               \/ <<u.serial, u.first_install>> \in Began /\ u.serial # SerialNumber[d]
    <3>1. CASE u = entry
      BY <1>7, <3>1
    <3>2. CASE \E r \in kept : r.source = "Usbstor" /\ u = released[r]
      <4>1. PICK r \in kept : r.source = "Usbstor" /\ u = released[r]
        BY <3>2
      <4>2. u.serial = r.serial /\ u.first_install = r.first_install /\ r.serial # SerialNumber[d]
        BY <1>11, <4>1
      <4>3. <<r.serial, r.first_install>> \in Began
        BY <1>9, <4>1 DEF Began
      <4> QED
        BY <4>2, <4>3
    <3> QED
      BY <1>13, <2>1, <3>1, <3>2
  <2>2. <<SerialNumber[d], first>> \in Began'
    BY <1>7, <1>14 DEF Began
  <2>3. ASSUME NEW r \in records, r.source = "Usbstor"
        PROVE  <<r.serial, r.first_install>> \in Began'
    <3>1. CASE r \in Registry(d)
      BY <1>5, <2>2, <3>1 DEF Registry
    <3>2. CASE r \in kept
      <4>1. released[r] \in records' /\ released[r].source = "Usbstor"
        BY <1>11, <1>14, <2>3, <3>2
      <4>2. <<released[r].serial, released[r].first_install>> \in Began'
        BY <4>1 DEF Began
      <4> QED
        BY <1>11, <2>3, <3>2, <4>2
    <3> QED
      BY <1>9, <2>3, <3>1, <3>2
  <2>4. ASSUME NEW p \in Began'
        PROVE  \/ p = <<SerialNumber[d], first>>
               \/ p \in Began /\ p[1] # SerialNumber[d]
    <3>1. PICK u \in records' : u.source = "Usbstor" /\ p = <<u.serial, u.first_install>>
      BY DEF Began
    <3> QED
      BY <2>1, <3>1
  <2>5. Began \subseteq Began'
    BY <2>3 DEF Began
  <2> QED
    BY <2>2, <2>4, <2>5
<1>16. OneBeginning'
  <2> SUFFICES ASSUME NEW p \in Began', NEW q \in Began', p[1] = q[1] PROVE p = q
    BY DEF OneBeginning
  <2>1. CASE p = <<SerialNumber[d], first>>
    BY <1>15, <2>1
  <2>2. CASE p \in Began /\ p[1] # SerialNumber[d]
    BY <1>15, <2>2 DEF HostInv, OneBeginning
  <2> QED
    BY <1>15, <2>1, <2>2
<1>17. ASSUME NEW r \in records' PROVE HostRecord(r, now, Began')
  <2>1. CASE r \in records
    <3>1. HostRecord(r, clock, Began)
      BY <2>1 DEF HostInv
    <3>2. HostRecord(r, clock + 1, Began')
      BY <1>2, <1>15, <3>1, RecordsLast
    <3> QED
      BY <1>1, <3>2
  <2>2. CASE \E u \in kept : u.source = "Usbstor" /\ r = released[u]
    BY <1>11, <2>2 DEF HostRecord
  <2>3. CASE r = entry
    <3>1. IsRegistryEntry(entry, now)
      BY <1>2, <1>5 DEF IsRegistryEntry, entry
    <3> QED
      BY <2>3, <3>1 DEF HostRecord
  <2>4. CASE r = setup /\ Registry(d) = {}
    <3>1. IsSetupEntry(setup, now, Began')
      BY <1>5, <1>15, <2>4 DEF IsSetupEntry, setup
    <3> QED
      BY <2>4, <3>1 DEF HostRecord
  <2>5. CASE r \in others
    <3>1. now \in 0..now /\ Since(d, now, Began')
      BY <1>2, <1>5, <1>15 DEF Since
    <3>2. IsUserMount(UserMount(d, now), now)
      BY <3>1 DEF IsUserMount
    <3>3. IsArrival(ArrivalEvent(d, now, serial), now, Began')
      BY <1>4, <3>1 DEF IsArrival
    <3>4. IsMountEntry(MountEntry(d, Letter, None)) /\ IsMountEntry(MountEntry(d, None, GuidOf[d]))
      BY DEF IsMountEntry
    <3>5. IsCachedVolume(CachedVolume(serial, name)) /\ IsCachedLetter(CachedLetter(name))
      BY <1>4 DEF IsCachedVolume, IsCachedLetter
    <3>6. IsPnp(PnpEvent(d, now), now, Began')
      BY <3>1 DEF IsPnp
    <3> QED
      BY <2>5, <3>2, <3>3, <3>4, <3>5, <3>6 DEF HostRecord, others
  <2> QED
    BY <1>12, <2>1, <2>2, <2>3, <2>4, <2>5
<1>18. ArrivalEvent(d, now, serial) \in records' /\ CachedVolume(serial, name) \in records'
  BY <1>3 DEF others
<1>19. \A r \in records : r.source \in {"PartitionDiag", "EmdMgmt"} => r \in records'
  BY <1>9, <1>14
<1>20. ASSUME NEW e, FirstSerialSeen(e) PROVE FirstSerialSeen(e)'
  BY <1>19, <1>20 DEF FirstSerialSeen
<1>21. PluggedKnown'
  <2>1. Registry(d)' # {}
    BY <1>7, <1>14 DEF Registry
  <2>2. formats[d] = 0 => FirstSerialSeen(d)'
    BY <1>4, <1>6, <1>18 DEF FirstSerialSeen
  <2> QED
    BY <1>2, <2>1, <2>2 DEF PluggedKnown
<1>22. /\ truth'.opened = truth.opened /\ truth.present \subseteq truth'.present
       /\ truth'.carried = truth.carried \cup {<<SerialNumber[d], serial>>}
       /\ truth'.labelled = truth.labelled \cup {<<name, serial>>}
       /\ truth' \in Truths
  <2>1. truth \in Truths
    BY DEF HostInv, HostTypes
  <2>2. SerialNumber[d] \in Names
    BY HostAssumption
  <2>3. truth' = [opened |-> truth.opened,
                  carried |-> truth.carried \cup {<<SerialNumber[d], serial>>},
                  labelled |-> truth.labelled \cup {<<name, serial>>},
                  present |-> truth.present \cup {<<SerialNumber[d], now>>}]
    BY <1>2, <2>1 DEF Carry, Seen, Truths
  <2>4. /\ <<SerialNumber[d], serial>> \in Names \X Names /\ <<name, serial>> \in Labels \X Names
        /\ <<SerialNumber[d], now>> \in Names \X Nat
    BY <1>2, <1>4, <2>2
  <2>5. /\ truth.carried \cup {<<SerialNumber[d], serial>>} \in SUBSET (Names \X Names)
        /\ truth.labelled \cup {<<name, serial>>} \in SUBSET (Labels \X Names)
        /\ truth.present \cup {<<SerialNumber[d], now>>} \in SUBSET (Names \X Nat)
        /\ truth.opened \in SUBSET (Names \X Names)
    BY <2>1, <2>4 DEF Truths
  <2> QED
    BY <2>3, <2>5 DEF Truths
<1>23. HostTypes'
  <2>1. plugged' \in SUBSET Devices
    BY <1>2
  <2> QED
    BY <1>2, <1>10, <1>22, <2>1 DEF HostInv, HostTypes
<1>24. LinksTrue'
  <2>1. ASSUME NEW r \in records', r.source \in {"Lnk", "JumpList"} PROVE LinkTrue(r)'
    <3>1. r \in records
      BY <1>7, <1>8, <1>11, <1>12, <2>1
    <3> QED
      BY <1>20, <1>22, <2>1, <3>1, LinksKept DEF HostInv, LinksTrue
  <2> QED
    BY <2>1 DEF LinksTrue
<1>25. LabelsCached'
  <2>1. ASSUME NEW pair \in truth.labelled PROVE CachedVolume(pair[2], pair[1]) \in records'
    <3>1. CachedVolume(pair[2], pair[1]) \in records
      BY DEF HostInv, LabelsCached
    <3>2. CachedVolume(pair[2], pair[1]).source = "EmdMgmt"
      BY DEF CachedVolume
    <3> QED
      BY <1>19, <3>1, <3>2
  <2> QED
    BY <1>18, <1>22, <2>1 DEF LabelsCached
<1>26. LetterHeld'
  <2>1. ASSUME NEW u \in records', u.source = "Usbstor"
        PROVE  \E pair \in truth'.carried : pair[1] = u.serial
    <3>1. CASE u = entry
      <4>1. <<SerialNumber[d], serial>> \in truth'.carried
        BY <1>22
      <4> QED
        BY <1>7, <3>1, <4>1
    <3>2. CASE \E r \in kept : r.source = "Usbstor" /\ u = released[r]
      <4>1. PICK r \in kept : r.source = "Usbstor" /\ u = released[r]
        BY <3>2
      <4>2. \E pair \in truth.carried : pair[1] = r.serial
        BY <1>9, <4>1 DEF HostInv, LetterHeld
      <4> QED
        BY <1>11, <1>22, <4>1, <4>2
    <3> QED
      BY <1>13, <2>1, <3>1, <3>2
  <2> QED
    BY <1>7, <1>14, <1>22, <2>1 DEF LetterHeld
<1> QED
  BY <1>2, <1>16, <1>17, <1>21, <1>23, <1>24, <1>25, <1>26 DEF HostInv

LEMMA HostStep ==
    ASSUME HostInv, Live \/ UNCHANGED hostVars
    PROVE  HostInv'
<1>1. ASSUME NEW d \in Devices, Plug(d) \/ Unplug(d) \/ OpenFile(d) \/ Image(d)
      PROVE  HostInv'
  BY <1>1, PlugHost, UnplugHost, OpenFileHost, ImageHost
<1>2. ASSUME NEW d \in DOMAIN FolderOn, Browse(d) PROVE HostInv'
  BY <1>2, BrowseHost
<1>3. ASSUME NEW d \in Devices, NEW name \in Labels, Format(d, name) PROVE HostInv'
  BY <1>3, FormatHost
<1>4. CASE UNCHANGED hostVars
  <2>1. /\ clock' = clock /\ plugged' = plugged /\ formats' = formats /\ label' = label
        /\ records' = records /\ truth' = truth
    BY <1>4 DEF hostVars
  <2>2. Began' = Began /\ \A d : Registry(d)' = Registry(d)
    BY <2>1 DEF Began, Registry
  <2>3. \A d : FirstSerialSeen(d)' <=> FirstSerialSeen(d)
    BY <2>1 DEF FirstSerialSeen
  <2>4. LinksTrue'
    BY <2>1, <2>3, LinksKept DEF HostInv, LinksTrue
  <2>5. HostTypes' /\ OneBeginning' /\ PluggedKnown' /\ LabelsCached' /\ LetterHeld'
    BY <2>1, <2>2, <2>3
       DEF HostInv, HostTypes, OneBeginning, PluggedKnown, LabelsCached, LetterHeld
  <2>6. \A r \in records' : HostRecord(r, clock', Began')
    BY <2>1, <2>2 DEF HostInv
  <2> QED
    BY <2>4, <2>5, <2>6 DEF HostInv
<1> QED
  BY <1>1, <1>2, <1>3, <1>4 DEF Live

-----------------------------------------------------------------------------
\* The sources that tell no time of a stick, a shell link's aside.
LEMMA Timeless ==
    ASSUME NEW r,
           r.source \notin {"Usbstor", "PartitionDiag", "KernelPnp", "DriverFramework", "MountPoints2"}
    PROVE  TimeTrue(r)'
BY DEF TimeTrue

\* The times stay true when what is new is true.
LEMMA TimesCarried ==
    ASSUME TimesTrue, truth.present \subseteq truth'.present,
           \A r \in records' : r \in records \/ TimeTrue(r)'
    PROVE  TimesTrue'
<1>1. \A d, at : PresentAt(d, at) => PresentAt(d, at)'
  BY DEF PresentAt
<1>2. ASSUME NEW r \in records PROVE TimeTrue(r)'
  <2>1. TimeTrue(r)
    BY DEF TimesTrue
  <2>2. CASE r.source = "Usbstor"
    BY <1>1, <2>1, <2>2 DEF TimeTrue
  <2>3. CASE r.source = "PartitionDiag"
    BY <1>1, <2>1, <2>3 DEF TimeTrue
  <2>4. CASE r.source \in {"KernelPnp", "DriverFramework"}
    BY <1>1, <2>1, <2>4 DEF TimeTrue
  <2>5. CASE r.source = "MountPoints2"
    BY <1>1, <2>1, <2>5 DEF TimeTrue
  <2> QED
    BY <2>2, <2>3, <2>4, <2>5, Timeless
<1> QED
  BY <1>2 DEF TimesTrue

LEMMA QuietTimes ==
    ASSUME HostInv, TimesTrue, NEW d \in Devices,
           \/ OpenFile(d) \/ Image(d)
           \/ d \in DOMAIN FolderOn /\ Browse(d)
           \/ \E name \in Labels : Format(d, name)
    PROVE  TimesTrue'
<1>1. truth \in Truths
  BY DEF HostInv, HostTypes
<1>2. truth.present \subseteq truth'.present
  <2>1. CASE OpenFile(d)
    BY <1>1, <2>1 DEF OpenFile, Seen, Truths
  <2>2. CASE Image(d) \/ Browse(d)
    BY <2>2 DEF Image, Browse
  <2>3. CASE \E name \in Labels : Format(d, name)
    <3>1. PICK name, serial : truth' = Carry(truth, d, serial, name)
      BY <2>3 DEF Format
    <3> QED
      BY <1>1, <3>1 DEF Carry, Truths
  <2> QED
    BY <2>1, <2>2, <2>3
<1>3. ASSUME NEW r \in records'
      PROVE  \/ r \in records
             \/ r.source \in {"Lnk", "JumpList", "DeviceImage", "Shellbag", "EmdMgmt",
                              "VolumeInfoCache"}
  <2>1. CASE OpenFile(d)
    BY <2>1 DEF OpenFile, LinkTo, JumpEntry
  <2>2. CASE Image(d)
    BY <2>2 DEF Image, ImageOf
  <2>3. CASE Browse(d)
    BY <2>3 DEF Browse, BrowsedNode
  <2>4. CASE \E name \in Labels : Format(d, name)
    BY <2>4 DEF Format, LabelCaches, CachedVolume, CachedLetter
  <2> QED
    BY <2>1, <2>2, <2>3, <2>4
<1> QED
  BY <1>2, <1>3, Timeless, TimesCarried

LEMMA UnplugTimes ==
    ASSUME HostInv, TimesTrue, NEW d \in Devices, Unplug(d)
    PROVE  TimesTrue'
<1>1. PICK now : now = clock'
  OBVIOUS
<1>2. /\ now = clock + 1 /\ clock \in Nat /\ truth \in Truths
      /\ truth' = Seen(truth, d, now)
      /\ \A r \in records' :
            \/ r \in records \/ r = RemovalEvent(d, now)
            \/ \E u \in Registry(d) : r = [u EXCEPT !.last_removal = now]
  BY <1>1 DEF Unplug, Tick, HostInv, HostTypes
<1>3. truth.present \subseteq truth'.present /\ PresentAt(d, now)'
  BY <1>2 DEF Seen, Truths, PresentAt
<1>4. \A e, at : PresentAt(e, at) => PresentAt(e, at)'
  BY <1>3 DEF PresentAt
<1>5. TimeTrue(RemovalEvent(d, now))'
  BY <1>3 DEF TimeTrue, RemovalEvent
<1>6. ASSUME NEW u \in Registry(d), NEW r, r = [u EXCEPT !.last_removal = now]
      PROVE  TimeTrue(r)'
  <2>1. IsRegistryEntry(u, clock) /\ u \in records /\ u.source = "Usbstor"
    BY SourceTells DEF HostInv, Registry
  <2>2. /\ IsRegistryEntry(r, now) /\ r.serial = u.serial
        /\ r.last_arrival = u.last_arrival /\ r.last_removal = now
    <3>1. now \in Nat /\ clock <= now
      BY <1>2
    <3>2. IsRegistryEntry(r, now) /\ r.serial = u.serial
      <4>1. PICK old, x \in Nat : old = clock /\ x = now
        BY <1>2, <3>1
      <4>2. old \in Nat /\ x \in Nat /\ old <= x /\ IsRegistryEntry(u, old)
        BY <1>2, <2>1, <3>1, <4>1
      <4> DEFINE v == [u EXCEPT !.last_removal = x]
      <4>3. IsRegistryEntry(v, x) /\ v.serial = u.serial
        BY ONLY <4>2, RegistryUpdated
      <4> QED
        BY <1>6, <4>1, <4>3
    <3> QED
      BY <1>6, <2>1, <3>2, RegistryTimes
  <2>3. r.source = "Usbstor" /\ u.serial = SerialNumber[d]
    BY <2>2, KindsTell DEF Registry
  <2>0. TimeTrue(u)
    BY <2>1 DEF TimesTrue
  <2>4. PICK e \in Devices : u.serial = SerialNumber[e] /\ PresentAt(e, u.last_arrival)
    BY <2>0, <2>1 DEF TimeTrue
  <2>5. PresentAt(e, r.last_arrival)' /\ PresentAt(e, r.last_removal)'
    <3>1. PresentAt(e, now)'
      BY <1>3, <2>3, <2>4 DEF PresentAt
    <3> QED
      BY <1>4, <2>2, <2>4, <3>1
  <2> QED
    BY <2>2, <2>3, <2>4, <2>5 DEF TimeTrue
<1> QED
  BY <1>2, <1>3, <1>5, <1>6, TimesCarried

LEMMA PlugTimes ==
    ASSUME HostInv, TimesTrue, NEW d \in Devices, Plug(d)
    PROVE  TimesTrue'
<1>1. PICK now, serial, name, first, removal :
        /\ now = clock' /\ serial = SerialOn(d) /\ name = label[d]
        /\ first = Field(Registry(d), "first_install", now)
        /\ removal = Field(Registry(d), "last_removal", None)
  OBVIOUS
<1>2. PICK entry : entry = RegistryEntry(d, first, now, removal, Letter)
  OBVIOUS
<1>3. /\ now = clock + 1 /\ clock \in Nat /\ truth \in Truths
      /\ truth' = Seen(Carry(truth, d, serial, name), d, now)
      /\ records' =
            Released(d) \cup MountRecords(d, now) \cup LabelCaches(serial, name)
            \cup {entry, PnpEvent(d, now)}
            \cup (IF Registry(d) # {} THEN {} ELSE {SetupEntry(d, now + HostOffset)})
  BY <1>1, <1>2 DEF Plug, Tick, HostInv, HostTypes
<1>4. truth.present \subseteq truth'.present /\ PresentAt(d, now)'
  BY <1>3 DEF Seen, Carry, Truths, PresentAt
<1>5. \A e, at : PresentAt(e, at) => PresentAt(e, at)'
  BY <1>4 DEF PresentAt
<1>6. TimeTrue(entry)'
  <2>1. removal # None => PresentAt(d, removal)
    <3>1. CASE Registry(d) = {}
      BY <1>1, <3>1 DEF Field
    <3>2. CASE Registry(d) # {}
      <4>1. PICK u \in Registry(d) : removal = u.last_removal
        BY <1>1, <3>2 DEF Field
      <4>2. u \in records /\ u.source = "Usbstor" /\ u.serial = SerialNumber[d]
        BY DEF Registry
      <4>3. TimeTrue(u)
        BY <4>2 DEF TimesTrue
      <4>4. PICK e \in Devices :
                /\ u.serial = SerialNumber[e]
                /\ u.last_removal # None => PresentAt(e, u.last_removal)
        BY <4>2, <4>3 DEF TimeTrue
      <4> QED
        BY <4>1, <4>2, <4>4 DEF PresentAt
    <3> QED
      BY <3>1, <3>2
  <2>2. /\ entry.source = "Usbstor" /\ entry.serial = SerialNumber[d]
        /\ entry.last_arrival = now /\ entry.last_removal = removal
    BY <1>2 DEF RegistryEntry, Connection
  <2> QED
    BY <1>4, <1>5, <2>1, <2>2 DEF TimeTrue
<1>7. ASSUME NEW r \in MountRecords(d, now) PROVE TimeTrue(r)'
  <2>1. \/ r = UserMount(d, now) \/ r = ArrivalEvent(d, now, SerialOn(d))
        \/ r = MountEntry(d, Letter, None) \/ r = MountEntry(d, None, GuidOf[d])
    BY DEF MountRecords
  <2>2. CASE r = UserMount(d, now)
    BY <1>4, <2>2 DEF TimeTrue, UserMount
  <2>3. CASE r = ArrivalEvent(d, now, SerialOn(d))
    BY <1>4, <2>3 DEF TimeTrue, ArrivalEvent
  <2>4. CASE r = MountEntry(d, Letter, None) \/ r = MountEntry(d, None, GuidOf[d])
    BY <2>4, Timeless DEF MountEntry
  <2> QED
    BY <2>1, <2>2, <2>3, <2>4
<1>8. TimeTrue(PnpEvent(d, now))' /\ TimeTrue(SetupEntry(d, now + HostOffset))'
  <2>1. SetupEntry(d, now + HostOffset).source = "SetupApi"
    BY DEF SetupEntry, Connection
  <2> QED
    BY <1>4, <2>1, Timeless DEF TimeTrue, PnpEvent
<1>9. ASSUME NEW r \in LabelCaches(serial, name) PROVE TimeTrue(r)'
  BY <1>9, Timeless DEF LabelCaches, CachedVolume, CachedLetter
<1>10. ASSUME NEW r \in Released(d) PROVE r \in records \/ TimeTrue(r)'
  <2>1. PICK u \in records :
            r = IF u.source = "Usbstor" THEN [u EXCEPT !.drive_letter = None] ELSE u
    BY DEF Released
  <2>2. CASE u.source # "Usbstor"
    BY <2>1, <2>2
  <2>3. CASE u.source = "Usbstor"
    <3>1. IsRegistryEntry(u, clock) /\ r = [u EXCEPT !.drive_letter = None]
      BY <2>1, <2>3, SourceTells DEF HostInv
    <3>2. /\ IsRegistryEntry(r, now) /\ r.serial = u.serial
          /\ r.last_arrival = u.last_arrival /\ r.last_removal = u.last_removal
      <4>1. now \in Nat /\ clock <= now
        BY <1>3
      <4>2. IsRegistryEntry(r, now) /\ r.serial = u.serial
        BY <1>3, <3>1, <4>1, RegistryUpdated
      <4> QED
        BY <3>1, <4>2, RegistryTimes
    <3>3. r.source = "Usbstor"
      BY <3>2, KindsTell
    <3>4. TimeTrue(u)
      BY DEF TimesTrue
    <3> QED
      BY <1>5, <2>3, <3>2, <3>3, <3>4 DEF TimeTrue
  <2> QED
    BY <2>2, <2>3
<1>11. \A r \in records' : r \in records \/ TimeTrue(r)'
  BY <1>3, <1>6, <1>7, <1>8, <1>9, <1>10
<1> QED
  BY <1>4, <1>11, TimesCarried

LEMMA TimesStep ==
    ASSUME HostInv, TimesTrue, Live \/ UNCHANGED hostVars
    PROVE  TimesTrue'
<1>1. ASSUME NEW d \in Devices, Plug(d) \/ Unplug(d) \/ OpenFile(d) \/ Image(d)
      PROVE  TimesTrue'
  BY <1>1, PlugTimes, UnplugTimes, QuietTimes
<1>2. ASSUME NEW d \in DOMAIN FolderOn, Browse(d) PROVE TimesTrue'
  BY <1>2, QuietTimes, HostAssumption
<1>3. ASSUME NEW d \in Devices, NEW name \in Labels, Format(d, name) PROVE TimesTrue'
  BY <1>3, QuietTimes
<1>4. CASE UNCHANGED hostVars
  BY <1>4, TimesCarried DEF hostVars
<1> QED
  BY <1>1, <1>2, <1>3, <1>4 DEF Live

-----------------------------------------------------------------------------
LEMMA InitIInv == Init => IInv
<1> SUFFICES ASSUME Init PROVE IInv
  OBVIOUS
<1>1. /\ clock = 0 /\ plugged = {} /\ formats = [d \in Devices |-> 0]
      /\ label \in [Devices -> Labels] /\ records = {}
      /\ truth = [opened |-> {}, carried |-> {}, labelled |-> {}, present |-> {}]
      /\ phase = "live" /\ findings = {}
  BY DEF Init, HostInit, ToolInit
<1>2. HostTypes
  <2>1. \A d \in Devices : formats[d] + 1 \in DOMAIN VolumeSerials[d]
    BY <1>1, SerialsTyped
  <2> QED
    BY <1>1, <2>1, FS_EmptySet DEF HostTypes, Truths
<1>3. Began = {}
  BY <1>1 DEF Began
<1>4. OneBeginning /\ PluggedKnown /\ LinksTrue /\ LabelsCached /\ LetterHeld
  BY <1>1, <1>3 DEF OneBeginning, PluggedKnown, LinksTrue, LabelsCached, LetterHeld
<1> QED
  BY <1>1, <1>2, <1>4 DEF IInv, HostInv, TimesTrue, ToolInv

\* A pass reads the evidence it was started with.
LEMMA EvidenceStays ==
    ASSUME UNCHANGED hostVars, files' = files, tz' = tz
    PROVE  /\ Evidence' = Evidence
           /\ \A rs : Clocked(rs)' = Clocked(rs) /\ ByRun(rs)' = ByRun(rs)
<1>1. records' = records
  BY DEF hostVars
<1> QED
  BY <1>1 DEF Evidence, Clocked, ByRun

LEMMA ToolStep ==
    ASSUME ToolInv, [Next]_vars
    PROVE  ToolInv'
<1>1. CASE HostActs
  BY <1>1 DEF HostActs, toolVars, ToolInv
<1>2. CASE Collect
  BY <1>2 DEF Collect, ToolInv
<1>3. CASE Gather
  <2>1. Evidence' = Evidence
    BY <1>3, EvidenceStays DEF Gather
  <2> QED
    BY <1>3, <2>1 DEF Gather, ToolInv
<1>4. CASE Normalize
  <2>1. Evidence' = Evidence /\ Clocked(Evidence)' = Clocked(Evidence)
    BY <1>4, EvidenceStays DEF Normalize, Clocked
  <2>2. claims' = Clocked(Evidence)
    BY <1>4 DEF Normalize, ToolInv, Clocked
  <2> QED
    BY <1>4, <2>1, <2>2 DEF Normalize, ToolInv
<1>5. CASE ReconcileSerials
  <2>1. Evidence' = Evidence /\ Clocked(Evidence)' = Clocked(Evidence)
    BY <1>5, EvidenceStays DEF ReconcileSerials, Clocked
  <2>2. claims' = Rekeyed(Clocked(Evidence))
    BY <1>5 DEF ReconcileSerials, ToolInv
  <2> QED
    BY <1>5, <2>1, <2>2 DEF ReconcileSerials, ToolInv
<1>6. CASE CanonicalizeVolumes
  <2>1. Evidence' = Evidence /\ ByRun(Evidence)' = ByRun(Evidence)
    BY <1>6, EvidenceStays DEF CanonicalizeVolumes, ByRun, Clocked
  <2>2. claims' = ByRun(Evidence)
    BY <1>6 DEF CanonicalizeVolumes, ToolInv, ByRun
  <2> QED
    BY <1>6, <2>1, <2>2 DEF CanonicalizeVolumes, ToolInv
<1>7. CASE CorrelateClaims
  <2>1. Evidence' = Evidence /\ ByRun(Evidence)' = ByRun(Evidence)
    BY <1>7, EvidenceStays DEF CorrelateClaims, ByRun, Clocked
  <2>2. histories' = Correlated(ByRun(Evidence))
    BY <1>7 DEF CorrelateClaims, ToolInv
  <2> QED
    BY <1>7, <2>1, <2>2 DEF CorrelateClaims, ToolInv, Reported
<1>8. CASE CorrelateSources
  <2>1. Evidence' = Evidence /\ ByLibrary(Evidence)' = ByLibrary(Evidence)
    BY <1>8, EvidenceStays DEF CorrelateSources, ByLibrary
  <2>2. histories' = Correlated(ByLibrary(Evidence))
    BY <1>8 DEF CorrelateSources, ByLibrary
  <2> QED
    BY <1>8, <2>1, <2>2 DEF CorrelateSources, ToolInv, Reported
<1>9. CASE AuditHistories
  <2>1. /\ Evidence' = Evidence /\ ByRun(Evidence)' = ByRun(Evidence)
        /\ ByLibrary(Evidence)' = ByLibrary(Evidence)
    BY <1>9, EvidenceStays DEF AuditHistories, ByRun, Clocked, ByLibrary
  <2>2. Reported'
    BY <1>9, <2>1 DEF AuditHistories, ToolInv, Reported
  <2> QED
    BY <1>9, <2>2 DEF AuditHistories, ToolInv
<1>10. CASE UNCHANGED vars
  <2>1. UNCHANGED hostVars /\ UNCHANGED toolVars
    BY <1>10 DEF vars
  <2>2. /\ phase' = phase /\ files' = files /\ tz' = tz /\ claims' = claims
        /\ histories' = histories /\ findings' = findings
    BY <2>1 DEF toolVars
  <2>3. /\ Evidence' = Evidence /\ ByRun(Evidence)' = ByRun(Evidence)
        /\ Clocked(Evidence)' = Clocked(Evidence)
        /\ ByLibrary(Evidence)' = ByLibrary(Evidence)
    BY <2>1, <2>2, EvidenceStays DEF ByRun, Clocked, ByLibrary
  <2> QED
    BY <2>2, <2>3 DEF ToolInv, Reported
<1> QED
  BY <1>1, <1>2, <1>3, <1>4, <1>5, <1>6, <1>7, <1>8, <1>9, <1>10 DEF Next

LEMMA HostStays ==
    ASSUME [Next]_vars
    PROVE  Live \/ UNCHANGED hostVars
BY DEF Next, HostActs, Collect, Gather, Normalize, ReconcileSerials, CanonicalizeVolumes,
       CorrelateClaims, CorrelateSources, AuditHistories, vars

(***************************************************************************)
(* The host's records are those of an honest history, and the histories of *)
(* a finished analysis are what its passes make of the evidence.           *)
(***************************************************************************)
THEOREM HonestRecords == Spec => []IInv
<1>1. IInv /\ [Next]_vars => IInv'
  BY HostStays, HostStep, TimesStep, ToolStep DEF IInv
<1> QED
  BY InitIInv, <1>1, PTL DEF Spec

-----------------------------------------------------------------------------
(***************************************************************************)
(* What each record tells: the claims of its adapter, as a set.            *)
(***************************************************************************)
Told(r) == ToSet(ClaimsOfRecord(r))

LEMMA ClaimTyped ==
    ASSUME NEW key \in Names, NEW attribute \in Attribute, NEW value \in Value, NEW r,
           r.source \in SourceKind, r.locator \in Locators
    PROVE  /\ ClaimOf(key, attribute, value, r) \in Claim
           /\ ClaimOf(key, attribute, value, r).device = key
           /\ ClaimOf(key, attribute, value, r).attribute = attribute
           /\ ClaimOf(key, attribute, value, r).value = value
           /\ ClaimOf(key, attribute, value, r).source = r.source
BY DEF ClaimOf, Claim

LEMMA ValueTyped ==
    /\ \A t \in Int : Timestamp(t) \in Value /\ ~IsText(Timestamp(t)) /\ Timestamp(t).at = t
    /\ \A x \in Names : Text(x) \in Value /\ IsText(Text(x)) /\ Text(x).text = x
BY DEF Timestamp, Text, Value, IsText

LEMMA ShortLists ==
    /\ <<>> \in Seq(Claim) /\ ToSet(<<>>) = {}
    /\ \A c \in Claim : <<c>> \in Seq(Claim) /\ ToSet(<<c>>) = {c}
BY DEF ToSet

LEMMA PresentClaim ==
    ASSUME NEW field, NEW c, field # None => c \in Claim
    PROVE  /\ IfPresent(field, c) \in Seq(Claim)
           /\ ToSet(IfPresent(field, c)) = IF field = None THEN {} ELSE {c}
BY ShortLists DEF IfPresent

\* What a connection tells: one claim for each field it has.
LEMMA ConnectionTells ==
    ASSUME NEW conn, conn.serial \in Names, conn.mtp = FALSE,
           conn.source \in {"Usbstor", "SetupApi"}, conn.locator \in Locators,
           conn.first_install \in Int \cup {None}, conn.last_arrival \in Int \cup {None},
           conn.last_removal \in Int \cup {None}, conn.drive_letter \in Names \cup {None}
    PROVE  /\ ClaimsOfRecord(conn) \in Seq(Claim)
           /\ Told(conn) =
                (IF conn.first_install = None THEN {}
                 ELSE {ClaimOf(conn.serial, "FirstConnected", Timestamp(conn.first_install), conn)})
                \cup
                (IF conn.last_arrival = None THEN {}
                 ELSE {ClaimOf(conn.serial, "LastConnected", Timestamp(conn.last_arrival), conn)})
                \cup
                (IF conn.last_removal = None THEN {}
                 ELSE {ClaimOf(conn.serial, "LastRemoved", Timestamp(conn.last_removal), conn)})
                \cup
                (IF conn.drive_letter = None THEN {}
                 ELSE {ClaimOf(conn.serial, "DriveLetter", Text(conn.drive_letter), conn)})
<1> DEFINE c1 == ClaimOf(conn.serial, "FirstConnected", Timestamp(conn.first_install), conn)
           c2 == ClaimOf(conn.serial, "LastConnected", Timestamp(conn.last_arrival), conn)
           c3 == ClaimOf(conn.serial, "LastRemoved", Timestamp(conn.last_removal), conn)
           c4 == ClaimOf(conn.serial, "DriveLetter", Text(conn.drive_letter), conn)
           s1 == IfPresent(conn.first_install, c1)
           s2 == IfPresent(conn.last_arrival, c2)
           s3 == IfPresent(conn.last_removal, c3)
           s4 == IfPresent(conn.drive_letter, c4)
<1>1. conn.serial # None /\ conn.source \in SourceKind
  BY ClaimsAssumption DEF SourceKind
<1>2. ClaimsOfRecord(conn) = s1 \o s2 \o s3 \o s4 \o <<>>
  BY <1>1 DEF ClaimsOfRecord, ConnectionClaims
<1>3. /\ conn.first_install # None => c1 \in Claim
      /\ conn.last_arrival # None => c2 \in Claim
      /\ conn.last_removal # None => c3 \in Claim
      /\ conn.drive_letter # None => c4 \in Claim
  <2>1. {"FirstConnected", "LastConnected", "LastRemoved", "DriveLetter"} \subseteq Attribute
    BY DEF Attribute
  <2> QED
    BY <1>1, <2>1, ClaimTyped, ValueTyped
<1> HIDE DEF c1, c2, c3, c4
<1>4. /\ s1 \in Seq(Claim) /\ ToSet(s1) = IF conn.first_install = None THEN {} ELSE {c1}
      /\ s2 \in Seq(Claim) /\ ToSet(s2) = IF conn.last_arrival = None THEN {} ELSE {c2}
      /\ s3 \in Seq(Claim) /\ ToSet(s3) = IF conn.last_removal = None THEN {} ELSE {c3}
      /\ s4 \in Seq(Claim) /\ ToSet(s4) = IF conn.drive_letter = None THEN {} ELSE {c4}
  BY <1>3, PresentClaim
<1> HIDE DEF s1, s2, s3, s4
<1> DEFINE p2 == s1 \o s2
           p3 == p2 \o s3
           p4 == p3 \o s4
<1>5. p2 \in Seq(Claim) /\ ToSet(p2) = ToSet(s1) \cup ToSet(s2)
  BY <1>4, JoinedMembers
<1> HIDE DEF p2
<1>6. p3 \in Seq(Claim) /\ ToSet(p3) = ToSet(p2) \cup ToSet(s3)
  BY <1>4, <1>5, JoinedMembers
<1> HIDE DEF p3
<1>7. p4 \in Seq(Claim) /\ ToSet(p4) = ToSet(p3) \cup ToSet(s4)
  BY <1>4, <1>6, JoinedMembers
<1> HIDE DEF p4
<1>8. p4 \o <<>> \in Seq(Claim) /\ ToSet(p4 \o <<>>) = ToSet(p4)
  <2>1. <<>> \in Seq(Claim) /\ ToSet(<<>>) = {}
    BY ShortLists
  <2>2. ToSet(p4 \o <<>>) = ToSet(p4) \cup {}
    BY <1>7, <2>1, JoinedMembers
  <2>3. p4 \o <<>> \in Seq(Claim)
    BY <1>7, <2>1, JoinedMembers
  <2> QED
    BY <2>2, <2>3
<1>9. ClaimsOfRecord(conn) = p4 \o <<>>
  BY <1>2 DEF p2, p3, p4
<1>10. Told(conn) = ToSet(s1) \cup ToSet(s2) \cup ToSet(s3) \cup ToSet(s4)
  BY <1>5, <1>6, <1>7, <1>8, <1>9 DEF Told
<1> QED
  BY <1>4, <1>8, <1>9, <1>10 DEF c1, c2, c3, c4

SerialNumbers == {SerialNumber[d] : d \in Devices}
Guids == {GuidOf[d] : d \in Devices}

\* A stick's first connection is when it began, by the clock of the source; its
\* later ones and its removals are not before that.
FirstTold(c, now, began) ==
    \E first \in 0..now :
        /\ <<c.device, first>> \in began
        /\ c.value = Timestamp(IF c.source = "SetupApi" THEN first + HostOffset ELSE first)

LastTold(c, now, began) ==
    \E at \in 0..now : \E first \in 0..at :
        <<c.device, first>> \in began /\ c.value = Timestamp(at)

TimeTold(c, now, began) ==
    /\ ~IsText(c.value)
    /\ \/ /\ c.device \in SerialNumbers /\ c.attribute = "FirstConnected"
          /\ c.source \in {"Usbstor", "SetupApi"} /\ FirstTold(c, now, began)
       \/ /\ c.device \in SerialNumbers /\ c.attribute \in {"LastConnected", "LastRemoved"}
          /\ c.source \notin {"SetupApi", "LinuxKernelLog"} /\ LastTold(c, now, began)
       \/ /\ c.device \in Guids /\ c.attribute = "LastConnected"
          /\ c.source = "MountPoints2"
       \/ /\ \E d \in Devices : c.device \in SerialsOf(d)
          /\ c.attribute = "LastConnected" /\ c.source = "JumpList"
          /\ \E at \in 0..now : c.value = Timestamp(at)

\* The stick and the field that a connection or removal time was taken from.
TakenFrom(r, key, value) ==
    \/ /\ r.source = "Usbstor" /\ key = r.serial
       /\ \E at \in {r.last_arrival, r.last_removal} \ {None} : value = Timestamp(at)
    \/ r.source = "PartitionDiag" /\ key = r.serial_number /\ value = Timestamp(r.at)
    \/ /\ r.source \in {"KernelPnp", "DriverFramework"}
       /\ key = r.instance /\ value = Timestamp(r.at)
    \/ r.source = "MountPoints2" /\ key = r.guid /\ value = Timestamp(r.last_mounted)
    \/ r.source = "JumpList" /\ key = r.volume_serial /\ value = Timestamp(r.last_access)

Dated(r, c) ==
    c.attribute \in {"LastConnected", "LastRemoved"} => TakenFrom(r, c.device, c.value)

\* Who can be taken for the carrier of what: a stick of its letter; of a serial
\* of its own a stick, in the event log, or its disk.
CarrierTold(c) ==
    /\ IsText(c.value)
    /\ \/ c.value.text = c.device
       \/ /\ c.attribute = "DriveLetter" /\ c.source = "Usbstor"
          /\ c.value.text = Letter /\ c.device \in SerialNumbers
       \/ /\ c.attribute = "VolumeSerial"
          /\ \E d \in Devices :
                /\ c.value.text \in SerialsOf(d)
                /\ \/ c.device = SerialNumber[d] /\ c.source = "PartitionDiag"
                   \/ c.device = DiskNameOf[d]

ClaimTold(c, now, began) ==
    /\ c \in Claim
    /\ c.attribute \in Timed => TimeTold(c, now, began)
    /\ c.attribute \notin Timed => IsText(c.value)
    /\ c.attribute \in {"VolumeSerial", "DriveLetter"} => CarrierTold(c)
    /\ c.attribute = "AccessedFile" => c.source \in {"Lnk", "JumpList"}
    /\ c.attribute = "BrowsedFolder" => c.source = "Shellbag" /\ c.device = Letter

TellsRight(r, now, began) ==
    /\ ClaimsOfRecord(r) \in Seq(Claim)
    /\ \A c \in Told(r) : c.source = r.source /\ ClaimTold(c, now, began) /\ Dated(r, c)

LEMMA HostNames ==
    ASSUME NEW d \in Devices
    PROVE  /\ SerialNumber[d] \in Names /\ DiskNameOf[d] \in Names /\ GuidOf[d] \in Names
           /\ FileOn[d] \in Names
           /\ SerialNumber[d] # None /\ GuidOf[d] # None
BY HostAssumption, ClaimsAssumption

LEMMA HostWords ==
    /\ Letter \in Names /\ Letter # None /\ HostOffset \in Int /\ None \notin Int
    /\ {"SYSTEM", "setupapi", "evtx", "SOFTWARE", "NTUSER", "image", "lnk", "jumplist"}
        \subseteq Locators
    /\ \A name \in Labels : name \in Names /\ name # None
    /\ None \notin Names
BY HostAssumption, ClaimsAssumption

LEMMA RegistryTells ==
    ASSUME NEW r, NEW now \in Nat, NEW began, IsRegistryEntry(r, now),
           <<r.serial, r.first_install>> \in began
    PROVE  /\ TellsRight(r, now, began)
           /\ r.drive_letter = Letter =>
                ClaimOf(r.serial, "DriveLetter", Text(Letter), r) \in Told(r)
           /\ \A c \in Told(r) : c.device = r.serial
<1>1. PICK d \in Devices, first \in 0..now, arrival \in 0..now,
           removal \in (0..now) \cup {None}, letter \in {Letter, None} :
        /\ r = RegistryEntry(d, first, arrival, removal, letter)
        /\ first <= arrival /\ (removal # None => first <= removal)
  BY DEF IsRegistryEntry
<1>2. /\ r.source = "Usbstor" /\ r.locator = "SYSTEM" /\ r.serial = SerialNumber[d]
      /\ r.first_install = first /\ r.last_arrival = arrival /\ r.last_removal = removal
      /\ r.drive_letter = letter /\ r.mtp = FALSE
  BY <1>1 DEF RegistryEntry, Connection
<1>3. /\ SerialNumber[d] \in Names /\ first # None /\ arrival # None
      /\ first \in Int /\ arrival \in Int /\ removal \in Int \cup {None}
      /\ letter \in Names \cup {None} /\ r.locator \in Locators /\ r.source \in SourceKind
  BY <1>2, HostNames, HostWords DEF SourceKind
<1> DEFINE c1 == ClaimOf(r.serial, "FirstConnected", Timestamp(first), r)
           c2 == ClaimOf(r.serial, "LastConnected", Timestamp(arrival), r)
           c3 == ClaimOf(r.serial, "LastRemoved", Timestamp(removal), r)
           c4 == ClaimOf(r.serial, "DriveLetter", Text(letter), r)
<1>4. /\ ClaimsOfRecord(r) \in Seq(Claim)
      /\ \A c \in Told(r) : \/ c = c1 \/ c = c2
                            \/ c = c3 /\ removal # None
                            \/ c = c4 /\ letter # None
      /\ letter # None => c4 \in Told(r)
  <2> HIDE DEF c1, c2, c3, c4
  <2>1. /\ ClaimsOfRecord(r) \in Seq(Claim)
        /\ Told(r) = {c1} \cup {c2} \cup (IF removal = None THEN {} ELSE {c3})
                        \cup (IF letter = None THEN {} ELSE {c4})
    BY <1>2, <1>3, ConnectionTells DEF c1, c2, c3, c4
  <2> QED
    BY <2>1
<1>5. ClaimTold(c1, now, began) /\ c1.source = r.source
  <2>1. /\ c1 \in Claim /\ c1.device = SerialNumber[d] /\ c1.attribute = "FirstConnected"
        /\ c1.value = Timestamp(first) /\ c1.source = "Usbstor"
    BY <1>2, <1>3, ClaimTyped, ValueTyped DEF Attribute
  <2> HIDE DEF c1
  <2>2. FirstTold(c1, now, began)
    BY <1>2, <2>1 DEF FirstTold
  <2>3. TimeTold(c1, now, began)
    BY <1>3, <2>1, <2>2, ValueTyped DEF TimeTold, SerialNumbers
  <2> QED
    BY <1>2, <2>1, <2>3 DEF ClaimTold, Timed
<1>6. ClaimTold(c2, now, began) /\ c2.source = r.source
  <2>1. /\ c2 \in Claim /\ c2.device = SerialNumber[d] /\ c2.attribute = "LastConnected"
        /\ c2.value = Timestamp(arrival) /\ c2.source = "Usbstor"
    BY <1>2, <1>3, ClaimTyped, ValueTyped DEF Attribute
  <2>2. first \in 0..arrival /\ <<c2.device, first>> \in began
    BY <1>1, <1>2, <2>1
  <2> HIDE DEF c2
  <2>3. LastTold(c2, now, began)
    BY <2>1, <2>2 DEF LastTold
  <2>4. TimeTold(c2, now, began)
    BY <1>3, <2>1, <2>3, ValueTyped DEF TimeTold, SerialNumbers
  <2> QED
    BY <1>2, <2>1, <2>4 DEF ClaimTold, Timed
<1>7. ASSUME removal # None PROVE ClaimTold(c3, now, began) /\ c3.source = r.source
  <2>0. removal \in 0..now /\ removal \in Int
    BY <1>7
  <2>1. /\ c3 \in Claim /\ c3.device = SerialNumber[d] /\ c3.attribute = "LastRemoved"
        /\ c3.value = Timestamp(removal) /\ c3.source = "Usbstor"
    BY <1>2, <1>3, <2>0, ClaimTyped, ValueTyped DEF Attribute
  <2>2. first \in 0..removal /\ <<c3.device, first>> \in began
    BY <1>1, <1>2, <1>7, <2>0, <2>1
  <2> HIDE DEF c3
  <2>3. LastTold(c3, now, began)
    BY <2>0, <2>1, <2>2 DEF LastTold
  <2>4. TimeTold(c3, now, began)
    BY <2>0, <2>1, <2>3, ValueTyped DEF TimeTold, SerialNumbers
  <2> QED
    BY <1>2, <2>1, <2>4 DEF ClaimTold, Timed
<1>8. ASSUME letter # None PROVE ClaimTold(c4, now, began) /\ c4.source = r.source
  <2>0. letter = Letter /\ letter \in Names
    BY <1>8, HostWords
  <2>1. /\ c4 \in Claim /\ c4.device = SerialNumber[d] /\ c4.attribute = "DriveLetter"
        /\ c4.value = Text(Letter) /\ c4.source = "Usbstor"
    <3>1. Text(letter) \in Value /\ "DriveLetter" \in Attribute
      BY <2>0, ValueTyped DEF Attribute
    <3> QED
      BY <1>2, <1>3, <2>0, <3>1, ClaimTyped
  <2> HIDE DEF c4
  <2>2. CarrierTold(c4)
    BY <2>0, <2>1, ValueTyped DEF CarrierTold, SerialNumbers
  <2> QED
    BY <1>2, <2>1, <2>2 DEF ClaimTold, Timed, CarrierTold
<1>d. Dated(r, c1) /\ Dated(r, c2) /\ (removal # None => Dated(r, c3)) /\ Dated(r, c4)
  BY <1>2, <1>3 DEF ClaimOf, Dated, TakenFrom
<1>9. TellsRight(r, now, began)
  <2> HIDE DEF c1, c2, c3, c4
  <2> QED
    BY <1>4, <1>5, <1>6, <1>7, <1>8, <1>d DEF TellsRight
<1>10. \A c \in Told(r) : c.device = r.serial
  <2>1. c1.device = r.serial /\ c2.device = r.serial /\ c3.device = r.serial /\ c4.device = r.serial
    BY DEF ClaimOf
  <2> HIDE DEF c1, c2, c3, c4
  <2> QED
    BY <1>4, <2>1
<1> QED
  BY <1>2, <1>4, <1>9, <1>10, HostWords

LEMMA SetupTells ==
    ASSUME NEW r, NEW now \in Nat, NEW began, IsSetupEntry(r, now, began)
    PROVE  TellsRight(r, now, began)
<1>1. PICK d \in Devices, first \in 0..now :
        r = SetupEntry(d, first + HostOffset) /\ <<SerialNumber[d], first>> \in began
  BY DEF IsSetupEntry
<1>2. /\ r.source = "SetupApi" /\ r.locator = "setupapi" /\ r.serial = SerialNumber[d]
      /\ r.first_install = first + HostOffset /\ r.last_arrival = None /\ r.last_removal = None
      /\ r.drive_letter = None /\ r.mtp = FALSE
  BY <1>1 DEF SetupEntry, Connection
<1>3. /\ SerialNumber[d] \in Names /\ first + HostOffset \in Int /\ first + HostOffset # None
      /\ r.locator \in Locators /\ r.source \in SourceKind
  BY <1>2, HostNames, HostWords DEF SourceKind
<1> DEFINE c == ClaimOf(r.serial, "FirstConnected", Timestamp(first + HostOffset), r)
<1>4. ClaimsOfRecord(r) \in Seq(Claim) /\ Told(r) = {c}
  BY <1>2, <1>3, ConnectionTells
<1>5. ClaimTold(c, now, began) /\ c.source = r.source
  <2>1. /\ c \in Claim /\ c.device = SerialNumber[d] /\ c.attribute = "FirstConnected"
        /\ c.value = Timestamp(first + HostOffset) /\ c.source = "SetupApi"
    BY <1>2, <1>3, ClaimTyped, ValueTyped DEF Attribute
  <2> HIDE DEF c
  <2>2. FirstTold(c, now, began)
    BY <1>1, <2>1 DEF FirstTold
  <2>3. TimeTold(c, now, began)
    BY <1>3, <2>1, <2>2, ValueTyped DEF TimeTold, SerialNumbers
  <2> QED
    BY <1>2, <2>1, <2>3 DEF ClaimTold, Timed
<1>6. Dated(r, c)
  BY DEF ClaimOf, Dated
<1> QED
  BY <1>4, <1>5, <1>6 DEF TellsRight

LEMMA ArrivalTells ==
    ASSUME NEW r, NEW now \in Nat, NEW began, IsArrival(r, now, began)
    PROVE  /\ TellsRight(r, now, began)
           /\ r.serial_number # Empty =>
                /\ ClaimOf(r.serial_number, "VolumeSerial", Text(r.fat_serial), r) \in Told(r)
                /\ ClaimOf(r.serial_number, "LastConnected", Timestamp(r.at), r) \in Told(r)
           /\ \A c \in Told(r) : c.device = r.serial_number
<1>1. PICK d \in Devices, at \in 0..now : \E serial \in SerialsOf(d) :
        r = ArrivalEvent(d, at, serial) /\ Since(d, at, began)
  BY DEF IsArrival
<1>2. PICK serial \in SerialsOf(d) : r = ArrivalEvent(d, at, serial) /\ Since(d, at, began)
  BY <1>1
<1>3. /\ r.source = "PartitionDiag" /\ r.locator = "evtx" /\ r.serial_number = SerialNumber[d]
      /\ r.disk_id = None /\ r.at = at /\ r.fat_serial = serial /\ r.ntfs_serial = None
  BY <1>2 DEF ArrivalEvent
<1>4. /\ SerialNumber[d] \in Names /\ SerialNumber[d] # None /\ at \in Int /\ at # None
      /\ serial \in Names /\ serial # None
      /\ r.locator \in Locators /\ r.source \in SourceKind
  BY <1>3, HostNames, HostWords, SerialsTyped DEF SourceKind
<1> DEFINE c1 == ClaimOf(SerialNumber[d], "LastConnected", Timestamp(at), r)
           c2 == ClaimOf(SerialNumber[d], "VolumeSerial", Text(serial), r)
<1>5. ClaimTold(c1, now, began) /\ c1.source = r.source
  <2>1. /\ c1 \in Claim /\ c1.device = SerialNumber[d] /\ c1.attribute = "LastConnected"
        /\ c1.value = Timestamp(at) /\ c1.source = "PartitionDiag"
    BY <1>3, <1>4, ClaimTyped, ValueTyped DEF Attribute
  <2> HIDE DEF c1
  <2>2. LastTold(c1, now, began)
    BY <1>2, <2>1 DEF LastTold, Since
  <2>3. TimeTold(c1, now, began)
    BY <1>4, <2>1, <2>2, ValueTyped DEF TimeTold, SerialNumbers
  <2> QED
    BY <1>3, <2>1, <2>3 DEF ClaimTold, Timed
<1>6. ClaimTold(c2, now, began) /\ c2.source = r.source
  <2>1. /\ c2 \in Claim /\ c2.device = SerialNumber[d] /\ c2.attribute = "VolumeSerial"
        /\ c2.value = Text(serial) /\ c2.source = "PartitionDiag"
    BY <1>3, <1>4, ClaimTyped, ValueTyped DEF Attribute
  <2> HIDE DEF c2
  <2>2. CarrierTold(c2)
    BY <1>3, <1>4, <2>1, ValueTyped DEF CarrierTold
  <2> QED
    BY <1>3, <2>1, <2>2 DEF ClaimTold, Timed, CarrierTold
<1>d. Dated(r, c1) /\ Dated(r, c2)
  BY <1>3 DEF ClaimOf, Dated, TakenFrom
<1>k. c1.device = r.serial_number /\ c2.device = r.serial_number
  BY <1>3 DEF ClaimOf
<1>7. CASE SerialNumber[d] = Empty
  <2>1. ClaimsOfRecord(r) = <<>>
    BY <1>3, <1>7 DEF ClaimsOfRecord, PartitionDiagClaims
  <2> QED
    BY <1>3, <1>7, <2>1, ShortLists DEF TellsRight, Told
<1>8. CASE SerialNumber[d] # Empty
  <2> HIDE DEF c1, c2
  <2>1. ClaimsOfRecord(r) = IfPresent(at, c1) \o IfPresent(serial, c2)
    BY <1>3, <1>4, <1>8 DEF ClaimsOfRecord, PartitionDiagClaims, c1, c2
  <2>2. c1 \in Claim /\ c2 \in Claim
    BY <1>5, <1>6 DEF ClaimTold
  <2>3. /\ IfPresent(at, c1) \in Seq(Claim) /\ ToSet(IfPresent(at, c1)) = {c1}
        /\ IfPresent(serial, c2) \in Seq(Claim) /\ ToSet(IfPresent(serial, c2)) = {c2}
    BY <1>4, <2>2, PresentClaim
  <2>4. ClaimsOfRecord(r) \in Seq(Claim) /\ Told(r) = {c1} \cup {c2}
    BY <2>1, <2>3, JoinedMembers DEF Told
  <2>5. TellsRight(r, now, began)
    BY <1>5, <1>6, <1>d, <2>4 DEF TellsRight
  <2>6. \A c \in Told(r) : c.device = r.serial_number
    BY <1>k, <2>4
  <2> QED
    BY <1>3, <2>4, <2>5, <2>6 DEF c1, c2
<1> QED
  BY <1>7, <1>8

LEMMA EventTells ==
    ASSUME NEW r, NEW now \in Nat, NEW began,
           IsPnp(r, now, began) \/ IsRemoval(r, now, began)
    PROVE  TellsRight(r, now, began)
<1>1. PICK d \in Devices, at \in 0..now :
        Since(d, at, began) /\ (r = PnpEvent(d, at) \/ r = RemovalEvent(d, at))
  BY DEF IsPnp, IsRemoval
<1>2. /\ r.source \in {"KernelPnp", "DriverFramework"} /\ r.locator = "evtx"
      /\ r.instance = SerialNumber[d] /\ r.at = at
      /\ r.source = "DriverFramework" => r.disconnect
  BY <1>1 DEF PnpEvent, RemovalEvent
<1>3. /\ SerialNumber[d] \in Names /\ at \in Int /\ at # None
      /\ r.locator \in Locators /\ r.source \in SourceKind
  BY <1>2, HostNames, HostWords DEF SourceKind
<1> DEFINE c == ClaimOf(SerialNumber[d],
                        IF r.source = "DriverFramework" THEN "LastRemoved" ELSE "LastConnected",
                        Timestamp(at), r)
<1>4. ClaimTold(c, now, began) /\ c.source = r.source
  <2>1. /\ c \in Claim /\ c.device = SerialNumber[d]
        /\ c.attribute \in {"LastRemoved", "LastConnected"}
        /\ c.value = Timestamp(at) /\ c.source = r.source
    BY <1>2, <1>3, ClaimTyped, ValueTyped DEF Attribute
  <2> HIDE DEF c
  <2>2. LastTold(c, now, began)
    BY <1>1, <2>1 DEF LastTold, Since
  <2>3. TimeTold(c, now, began)
    BY <1>2, <1>3, <2>1, <2>2, ValueTyped DEF TimeTold, SerialNumbers
  <2> QED
    BY <2>1, <2>3 DEF ClaimTold, Timed
<1>5. ClaimsOfRecord(r) = IF SerialNumber[d] = Empty THEN <<>> ELSE <<c>>
  <2>1. CASE r.source = "KernelPnp"
    BY <1>2, <1>3, <2>1 DEF ClaimsOfRecord, KernelPnpClaims
  <2>2. CASE r.source = "DriverFramework"
    BY <1>2, <1>3, <2>2 DEF ClaimsOfRecord, DriverFrameworkClaims
  <2> QED
    BY <1>2, <2>1, <2>2
<1>d. Dated(r, c)
  BY <1>2 DEF ClaimOf, Dated, TakenFrom
<1> HIDE DEF c
<1>6. c \in Claim
  BY <1>4 DEF ClaimTold
<1> QED
  BY <1>4, <1>5, <1>6, <1>d, ShortLists DEF TellsRight, Told

LEMMA MountTells ==
    ASSUME NEW r, NEW now \in Nat, NEW began, IsUserMount(r, now)
    PROVE  TellsRight(r, now, began)
<1>1. PICK d \in Devices, at \in 0..now : r = UserMount(d, at)
  BY DEF IsUserMount
<1>2. /\ r.source = "MountPoints2" /\ r.locator = "NTUSER"
      /\ r.guid = GuidOf[d] /\ r.last_mounted = at
  BY <1>1 DEF UserMount
<1>3. /\ GuidOf[d] \in Names /\ at \in Int /\ at # None
      /\ r.locator \in Locators /\ r.source \in SourceKind
  BY <1>2, HostNames, HostWords DEF SourceKind
<1> DEFINE c == ClaimOf(GuidOf[d], "LastConnected", Timestamp(at), r)
<1>4. ClaimTold(c, now, began) /\ c.source = r.source
  <2>1. /\ c \in Claim /\ c.device = GuidOf[d] /\ c.attribute = "LastConnected"
        /\ c.value = Timestamp(at) /\ c.source = "MountPoints2"
    BY <1>2, <1>3, ClaimTyped, ValueTyped DEF Attribute
  <2> HIDE DEF c
  <2>2. TimeTold(c, now, began)
    BY <1>3, <2>1, ValueTyped DEF TimeTold, Guids
  <2> QED
    BY <1>2, <2>1, <2>2 DEF ClaimTold, Timed
<1>5. ClaimsOfRecord(r) = <<c>>
  BY <1>2, <1>3 DEF ClaimsOfRecord, UserMountClaims, IfPresent
<1>d. Dated(r, c)
  BY <1>2 DEF ClaimOf, Dated, TakenFrom
<1> HIDE DEF c
<1>6. c \in Claim
  BY <1>4 DEF ClaimTold
<1> QED
  BY <1>4, <1>5, <1>6, <1>d, ShortLists DEF TellsRight, Told

LEMMA LetterCacheTells ==
    ASSUME NEW r, NEW now \in Nat, NEW began, IsCachedLetter(r)
    PROVE  TellsRight(r, now, began)
<1>1. PICK name \in Labels : r = CachedLetter(name)
  BY DEF IsCachedLetter
<1>2. /\ r.source = "VolumeInfoCache" /\ r.locator = "SOFTWARE"
      /\ r.letter = Letter /\ r.label = name
  BY <1>1 DEF CachedLetter
<1>3. /\ Letter \in Names /\ name \in Names
      /\ r.locator \in Locators /\ r.source \in SourceKind
  BY <1>2, HostWords DEF SourceKind
<1> DEFINE c == ClaimOf(Letter, "VolumeName", Text(name), r)
<1>4. ClaimTold(c, now, began) /\ c.source = r.source
  <2>1. /\ c \in Claim /\ c.attribute = "VolumeName"
        /\ c.value = Text(name) /\ c.source = r.source
    BY <1>2, <1>3, ClaimTyped, ValueTyped DEF Attribute
  <2> HIDE DEF c
  <2> QED
    BY <1>3, <2>1, ValueTyped DEF ClaimTold, Timed
<1>5. ClaimsOfRecord(r) = <<c>>
  BY <1>2 DEF ClaimsOfRecord, VolumeLabelClaims
<1>d. Dated(r, c)
  BY DEF ClaimOf, Dated
<1> HIDE DEF c
<1>6. c \in Claim
  BY <1>4 DEF ClaimTold
<1> QED
  BY <1>4, <1>5, <1>6, <1>d, ShortLists DEF TellsRight, Told

LEMMA VolumeCacheTells ==
    ASSUME NEW r, NEW now \in Nat, NEW began, IsCachedVolume(r)
    PROVE  /\ TellsRight(r, now, began)
           /\ ClaimOf(r.serial, "VolumeSerial", Text(r.serial), r) \in Told(r)
           /\ r.label # Empty => ClaimOf(r.serial, "VolumeName", Text(r.label), r) \in Told(r)
<1>1. PICK d \in Devices : \E serial \in SerialsOf(d), name \in Labels : r = CachedVolume(serial, name)
  BY DEF IsCachedVolume
<1>2. PICK serial \in SerialsOf(d), name \in Labels : r = CachedVolume(serial, name)
  BY <1>1
<1>3. /\ r.source = "EmdMgmt" /\ r.locator = "SOFTWARE" /\ r.serial = serial /\ r.label = name
  BY <1>2 DEF CachedVolume
<1>4. /\ serial \in Names /\ name \in Names
      /\ r.locator \in Locators /\ r.source \in SourceKind
  BY <1>3, HostWords, SerialsTyped DEF SourceKind
<1> DEFINE c1 == ClaimOf(serial, "VolumeSerial", Text(serial), r)
           c2 == ClaimOf(serial, "VolumeName", Text(name), r)
           rest == IF name = Empty THEN <<>> ELSE <<c2>>
<1>5. ClaimTold(c1, now, began) /\ c1.source = r.source
  <2>1. /\ c1 \in Claim /\ c1.attribute = "VolumeSerial" /\ c1.device = serial
        /\ c1.value = Text(serial) /\ c1.source = r.source
    BY <1>3, <1>4, ClaimTyped, ValueTyped DEF Attribute
  <2> HIDE DEF c1
  <2> QED
    BY <1>4, <2>1, ValueTyped DEF ClaimTold, Timed, CarrierTold
<1>6. ClaimTold(c2, now, began) /\ c2.source = r.source
  <2>1. /\ c2 \in Claim /\ c2.attribute = "VolumeName"
        /\ c2.value = Text(name) /\ c2.source = r.source
    BY <1>3, <1>4, ClaimTyped, ValueTyped DEF Attribute
  <2> HIDE DEF c2
  <2> QED
    BY <1>4, <2>1, ValueTyped DEF ClaimTold, Timed
<1>7. ClaimsOfRecord(r) = <<c1>> \o rest
  BY <1>3 DEF ClaimsOfRecord, EmdVolumeClaims
<1>d. Dated(r, c1) /\ Dated(r, c2)
  BY DEF ClaimOf, Dated
<1> HIDE DEF c1, c2
<1>8. c1 \in Claim /\ c2 \in Claim
  BY <1>5, <1>6 DEF ClaimTold
<1>9. /\ <<c1>> \in Seq(Claim) /\ ToSet(<<c1>>) = {c1}
      /\ rest \in Seq(Claim) /\ ToSet(rest) = IF name = Empty THEN {} ELSE {c2}
  BY <1>8, ShortLists
<1> HIDE DEF rest
<1> DEFINE both == <<c1>>
           extra == IF name = Empty THEN {} ELSE {c2}
<1> HIDE DEF both, extra
<1>a. /\ both \in Seq(Claim) /\ ToSet(both) = {c1}
      /\ rest \in Seq(Claim) /\ ToSet(rest) = extra
  BY <1>9 DEF both, extra
<1>b. both \o rest \in Seq(Claim) /\ ToSet(both \o rest) = ToSet(both) \cup ToSet(rest)
  BY <1>a, JoinedMembers
<1>c. ClaimsOfRecord(r) = both \o rest
  BY <1>7 DEF both
<1>10. ClaimsOfRecord(r) \in Seq(Claim) /\ Told(r) = {c1} \cup extra
  BY <1>a, <1>b, <1>c DEF Told
<1> USE DEF extra
<1>11. TellsRight(r, now, began)
  BY <1>5, <1>6, <1>10, <1>d DEF TellsRight
<1> QED
  BY <1>3, <1>10, <1>11 DEF c1, c2

\* What a shell link tells, be it a file of its own or in a jump list.
ShellLinkTold(r, now, began) ==
    /\ ShellLinkClaims(r) \in Seq(Claim)
    /\ \A c \in ToSet(ShellLinkClaims(r)) :
        /\ c.source = r.source /\ ClaimTold(c, now, began)
        /\ c.attribute \in {"VolumeSerial", "AccessedFile"}
        /\ c.attribute = "AccessedFile" =>
            c.device = r.volume_serial /\ c.value = Text(r.local_base_path)

LEMMA ShellLinkTells ==
    ASSUME NEW r, NEW now \in Nat, NEW began, NEW d \in Devices, NEW serial \in SerialsOf(d),
           r.source \in {"Lnk", "JumpList"}, r.locator \in Locators,
           r.volume_serial = serial, r.local_base_path = FileOn[d],
           r.net_name = None, r.idlist_path = None
    PROVE  ShellLinkTold(r, now, began)
<1>1. /\ serial \in Names /\ serial # None /\ FileOn[d] \in Names /\ FileOn[d] # None
      /\ r.source \in SourceKind
  BY HostNames, HostWords, SerialsTyped DEF SourceKind
<1> DEFINE path == TargetPath(r)
           c1 == ClaimOf(serial, "VolumeSerial", Text(serial), r)
           c2 == ClaimOf(serial, "AccessedFile", Text(path), r)
<1>2. path = IF FileOn[d] = Empty THEN None ELSE FileOn[d]
  BY <1>1 DEF TargetPath
<1> HIDE DEF path
<1>3. ClaimTold(c1, now, began) /\ c1.source = r.source /\ c1.attribute = "VolumeSerial"
  <2>1. /\ c1 \in Claim /\ c1.attribute = "VolumeSerial" /\ c1.device = serial
        /\ c1.value = Text(serial) /\ c1.source = r.source
    BY <1>1, ClaimTyped, ValueTyped DEF Attribute
  <2> HIDE DEF c1
  <2> QED
    BY <1>1, <2>1, ValueTyped DEF ClaimTold, Timed, CarrierTold
<1>4. ASSUME path # None
      PROVE  /\ ClaimTold(c2, now, began) /\ c2.source = r.source /\ c2.attribute = "AccessedFile"
             /\ c2.device = serial /\ c2.value = Text(FileOn[d])
  <2>0. path = FileOn[d]
    BY <1>2, <1>4
  <2>1. /\ c2 \in Claim /\ c2.attribute = "AccessedFile" /\ c2.device = serial
        /\ c2.value = Text(FileOn[d]) /\ c2.source = r.source
    BY <1>1, <2>0, ClaimTyped, ValueTyped DEF Attribute
  <2> HIDE DEF c2
  <2> QED
    BY <1>1, <2>1, ValueTyped DEF ClaimTold, Timed
<1> DEFINE one == <<c1>>
           more == IfPresent(path, c2)
           extra == IF path = None THEN {} ELSE {c2}
<1>5. ShellLinkClaims(r) = one \o more
  BY <1>1 DEF ShellLinkClaims, path
<1> HIDE DEF c1, c2
<1>6. c1 \in Claim /\ (path # None => c2 \in Claim)
  BY <1>3, <1>4 DEF ClaimTold
<1>7. one \in Seq(Claim) /\ ToSet(one) = {c1}
  BY <1>6, ShortLists
<1>8. more \in Seq(Claim) /\ ToSet(more) = extra
  BY <1>6, PresentClaim
<1> HIDE DEF one, more
<1>9. one \o more \in Seq(Claim) /\ ToSet(one \o more) = {c1} \cup extra
  BY <1>7, <1>8, JoinedMembers
<1>10. ASSUME NEW c \in {c1} \cup extra
       PROVE  /\ c.source = r.source /\ ClaimTold(c, now, began)
              /\ c.attribute \in {"VolumeSerial", "AccessedFile"}
              /\ c.attribute = "AccessedFile" =>
                    c.device = r.volume_serial /\ c.value = Text(r.local_base_path)
  <2>1. CASE c = c1
    BY <1>3, <2>1
  <2>2. CASE path # None /\ c = c2
    BY <1>4, <2>2
  <2> QED
    BY <2>1, <2>2
<1> HIDE DEF extra
<1> QED
  BY <1>5, <1>9, <1>10 DEF ShellLinkTold

LEMMA LinkTells ==
    ASSUME NEW r, NEW now \in Nat, NEW began, IsLink(r)
    PROVE  /\ TellsRight(r, now, began)
           /\ \A c \in Told(r) : c.attribute = "AccessedFile" =>
                c.device = r.volume_serial /\ c.value = Text(r.local_base_path)
<1>1. PICK d \in Devices : \E serial \in SerialsOf(d) : r = LinkTo(serial, FileOn[d])
  BY DEF IsLink
<1>2. PICK serial \in SerialsOf(d) : r = LinkTo(serial, FileOn[d])
  BY <1>1
<1>3. /\ r.source = "Lnk" /\ r.locator = "lnk" /\ r.volume_serial = serial
      /\ r.local_base_path = FileOn[d] /\ r.net_name = None /\ r.idlist_path = None
  BY <1>2 DEF LinkTo
<1>4. ShellLinkTold(r, now, began)
  BY <1>3, HostWords, ShellLinkTells
<1>5. ClaimsOfRecord(r) = ShellLinkClaims(r)
  BY <1>3 DEF ClaimsOfRecord
<1> QED
  BY <1>4, <1>5 DEF TellsRight, Told, Dated, ShellLinkTold

\* A jump list's entry also tells when the file was opened, of its volume.
LEMMA JumpTells ==
    ASSUME NEW r, NEW now \in Nat, NEW began, IsJumpEntry(r, now)
    PROVE  /\ TellsRight(r, now, began)
           /\ \A c \in Told(r) : c.attribute = "AccessedFile" =>
                c.device = r.volume_serial /\ c.value = Text(r.local_base_path)
<1>1. PICK d \in Devices, at \in 0..now : \E serial \in SerialsOf(d) :
        r = JumpEntry(serial, FileOn[d], at)
  BY DEF IsJumpEntry
<1>2. PICK serial \in SerialsOf(d) : r = JumpEntry(serial, FileOn[d], at)
  BY <1>1
<1>3. /\ r.source = "JumpList" /\ r.locator = "jumplist" /\ r.volume_serial = serial
      /\ r.local_base_path = FileOn[d] /\ r.net_name = None /\ r.idlist_path = None
      /\ r.last_access = at
  BY <1>2 DEF JumpEntry
<1>4. ShellLinkTold(r, now, began)
  BY <1>3, HostWords, ShellLinkTells
<1>5. /\ serial \in Names /\ serial # None /\ at \in Int /\ at # None
      /\ r.locator \in Locators /\ r.source \in SourceKind
  BY <1>3, HostWords, SerialsTyped DEF SourceKind
<1> DEFINE c1 == ClaimOf(serial, "LastConnected", Timestamp(at), r)
           link == ShellLinkClaims(r)
           last == <<c1>>
<1>6. ClaimsOfRecord(r) = link \o last
  BY <1>3, <1>5 DEF ClaimsOfRecord, JumpListClaims, IfPresent
<1>7. ClaimTold(c1, now, began) /\ c1.source = r.source /\ c1.attribute = "LastConnected"
  <2>1. /\ c1 \in Claim /\ c1.attribute = "LastConnected" /\ c1.device = serial
        /\ c1.value = Timestamp(at) /\ c1.source = "JumpList"
    BY <1>3, <1>5, ClaimTyped, ValueTyped DEF Attribute
  <2> HIDE DEF c1
  <2>2. TimeTold(c1, now, began)
    BY <1>5, <2>1, ValueTyped DEF TimeTold
  <2> QED
    BY <1>3, <2>1, <2>2 DEF ClaimTold, Timed
<1>8. Dated(r, c1)
  BY <1>3 DEF ClaimOf, Dated, TakenFrom
<1> HIDE DEF c1, link
<1>9. link \in Seq(Claim) /\ last \in Seq(Claim) /\ ToSet(last) = {c1}
  BY <1>4, <1>7, ShortLists DEF ShellLinkTold, ClaimTold, link
<1> HIDE DEF last
<1>10. ClaimsOfRecord(r) \in Seq(Claim) /\ Told(r) = ToSet(link) \cup {c1}
  BY <1>6, <1>9, JoinedMembers DEF Told
<1>11. ASSUME NEW c \in ToSet(link)
       PROVE  /\ c.source = r.source /\ ClaimTold(c, now, began) /\ Dated(r, c)
              /\ c.attribute = "AccessedFile" =>
                    c.device = r.volume_serial /\ c.value = Text(r.local_base_path)
  BY <1>4 DEF ShellLinkTold, Dated, link
<1> QED
  BY <1>7, <1>8, <1>10, <1>11 DEF TellsRight

LEMMA NodeTells ==
    ASSUME NEW r, NEW now \in Nat, NEW began, IsBrowsedNode(r)
    PROVE  TellsRight(r, now, began)
<1>1. PICK d \in DOMAIN FolderOn : r = BrowsedNode(FolderOn[d])
  BY DEF IsBrowsedNode
<1>2. /\ r.source = "Shellbag" /\ r.locator = "NTUSER" /\ r.letter = Letter
      /\ r.path = FolderOn[d]
  BY <1>1 DEF BrowsedNode
<1>3. /\ Letter \in Names /\ Letter # None /\ FolderOn[d] \in Names
      /\ r.locator \in Locators /\ r.source \in SourceKind
  BY <1>2, HostAssumption, HostWords DEF SourceKind
<1> DEFINE c1 == ClaimOf(Letter, "DriveLetter", Text(Letter), r)
           c2 == ClaimOf(Letter, "BrowsedFolder", Text(FolderOn[d]), r)
<1>4. ClaimTold(c1, now, began) /\ c1.source = r.source
  <2>1. /\ c1 \in Claim /\ c1.attribute = "DriveLetter" /\ c1.device = Letter
        /\ c1.value = Text(Letter) /\ c1.source = r.source
    BY <1>2, <1>3, ClaimTyped, ValueTyped DEF Attribute
  <2> HIDE DEF c1
  <2> QED
    BY <1>3, <2>1, ValueTyped DEF ClaimTold, Timed, CarrierTold
<1>5. ClaimTold(c2, now, began) /\ c2.source = r.source
  <2>1. /\ c2 \in Claim /\ c2.attribute = "BrowsedFolder" /\ c2.device = Letter
        /\ c2.value = Text(FolderOn[d]) /\ c2.source = r.source
    BY <1>2, <1>3, ClaimTyped, ValueTyped DEF Attribute
  <2> HIDE DEF c2
  <2> QED
    BY <1>2, <1>3, <2>1, ValueTyped DEF ClaimTold, Timed
<1>6. ClaimsOfRecord(r) = <<c1, c2>>
  BY <1>2, <1>3 DEF ClaimsOfRecord, ShellbagClaims
<1>d. Dated(r, c1) /\ Dated(r, c2)
  BY DEF ClaimOf, Dated
<1> HIDE DEF c1, c2
<1>7. c1 \in Claim /\ c2 \in Claim
  BY <1>4, <1>5 DEF ClaimTold
<1>8. <<c1, c2>> \in Seq(Claim) /\ ToSet(<<c1, c2>>) = {c1, c2}
  BY <1>7 DEF ToSet
<1> QED
  BY <1>4, <1>5, <1>6, <1>8, <1>d DEF TellsRight, Told

LEMMA ImageTells ==
    ASSUME NEW r, NEW now \in Nat, NEW began, IsImage(r)
    PROVE  TellsRight(r, now, began)
<1>1. PICK d \in Devices : \E serial \in SerialsOf(d) : r = ImageOf(d, serial)
  BY DEF IsImage
<1>2. PICK serial \in SerialsOf(d) : r = ImageOf(d, serial)
  BY <1>1
<1>3. /\ r.source = "DeviceImage" /\ r.locator = "image" /\ r.disk = DiskNameOf[d]
      /\ r.fat_serial = serial /\ r.encryption = None
  BY <1>2 DEF ImageOf
<1>4. /\ serial \in Names /\ serial # None /\ DiskNameOf[d] \in Names
      /\ r.locator \in Locators /\ r.source \in SourceKind
  BY <1>3, HostNames, HostWords, SerialsTyped DEF SourceKind
<1> DEFINE c == ClaimOf(DiskNameOf[d], "VolumeSerial", Text(serial), r)
<1>5. ClaimTold(c, now, began) /\ c.source = r.source
  <2>1. /\ c \in Claim /\ c.attribute = "VolumeSerial" /\ c.device = DiskNameOf[d]
        /\ c.value = Text(serial) /\ c.source = r.source
    BY <1>3, <1>4, ClaimTyped, ValueTyped DEF Attribute
  <2> HIDE DEF c
  <2>2. CarrierTold(c)
    BY <1>4, <2>1, ValueTyped DEF CarrierTold
  <2> QED
    BY <2>1, <2>2 DEF ClaimTold, Timed, CarrierTold
<1>6. ClaimsOfRecord(r) = <<c>> \o <<>>
  BY <1>3, <1>4 DEF ClaimsOfRecord, DeviceImageClaims, IfPresent
<1>d. Dated(r, c)
  BY DEF ClaimOf, Dated
<1> HIDE DEF c
<1>7. c \in Claim
  BY <1>5 DEF ClaimTold
<1>8. <<c>> \in Seq(Claim) /\ ToSet(<<c>>) = {c} /\ <<>> \in Seq(Claim) /\ ToSet(<<>>) = {}
  BY <1>7, ShortLists
<1>9. <<c>> \o <<>> \in Seq(Claim) /\ ToSet(<<c>> \o <<>>) = {c} \cup {}
  BY <1>8, JoinedMembers
<1> QED
  BY <1>5, <1>6, <1>9, <1>d DEF TellsRight, Told

\* Every record of the host tells right; MountedDevices tells nothing of itself.
LEMMA AllTellRight ==
    ASSUME NEW r, NEW now \in Nat, NEW began, HostRecord(r, now, began),
           r.source = "Usbstor" => <<r.serial, r.first_install>> \in began,
           r.source # "MountedVolume"
    PROVE  TellsRight(r, now, began)
<1>1. ~ IsMountEntry(r)
  BY KindsTell
<1>2. IsRegistryEntry(r, now) => TellsRight(r, now, began)
  BY RegistryTells, KindsTell
<1> QED
  BY <1>1, <1>2, SetupTells, ArrivalTells, EventTells, MountTells, VolumeCacheTells,
     LetterCacheTells, LinkTells, JumpTells, NodeTells, ImageTells DEF HostRecord

-----------------------------------------------------------------------------
(***************************************************************************)
(* What the passes make of the claims.  Each rewrites one list into        *)
(* another, place by place, so it is enough to say what becomes of one     *)
(* claim: its time is read in UTC and its key is moved.                    *)
(***************************************************************************)
UtcValue(c, offset) ==
    IF offset # None /\ ClockIsLocal(c.source) /\ ~IsText(c.value)
    THEN Timestamp(c.value.at - offset) ELSE c.value

FiledAs(c, key, value) ==
    [device |-> key, attribute |-> c.attribute, value |-> value,
     source |-> c.source, locator |-> c.locator]

LEMMA FiledFields ==
    ASSUME NEW c \in Claim, NEW key \in Names, NEW value \in Value
    PROVE  /\ FiledAs(c, key, value) \in Claim
           /\ FiledAs(c, key, value).device = key
           /\ FiledAs(c, key, value).attribute = c.attribute
           /\ FiledAs(c, key, value).value = value
           /\ FiledAs(c, key, value).source = c.source
BY DEF FiledAs, Claim

LEMMA MovedClaim ==
    ASSUME NEW c \in Claim, NEW key
    PROVE  [c EXCEPT !.device = key] = FiledAs(c, key, c.value)
BY DEF Claim, FiledAs

\* Reading a clock gives a value, and changes no text.
LEMMA UtcTyped ==
    ASSUME NEW c \in Claim, NEW offset \in Int \cup {None}
    PROVE  /\ UtcValue(c, offset) \in Value
           /\ IsText(UtcValue(c, offset)) <=> IsText(c.value)
           /\ IsText(c.value) => UtcValue(c, offset) = c.value
<1>1. CASE UtcValue(c, offset) = c.value
  <2>1. c.value \in Value
    BY DEF Claim
  <2> QED
    BY <1>1, <2>1
<1>2. CASE /\ offset # None /\ ~IsText(c.value)
           /\ UtcValue(c, offset) = Timestamp(c.value.at - offset)
  <2>1. c.value.at \in Int /\ offset \in Int
    BY <1>2 DEF Claim, Value, IsText
  <2>2. c.value.at - offset \in Int
    BY <2>1
  <2> QED
    BY <1>2, <2>2, ValueTyped
<1> QED
  BY <1>1, <1>2 DEF UtcValue

LEMMA ClockRead ==
    ASSUME NEW c \in Claim, NEW offset \in Int, ClockIsLocal(c.source), ~IsText(c.value)
    PROVE  [c EXCEPT !.value.at = @ - offset]
              = FiledAs(c, c.device, Timestamp(c.value.at - offset))
<1>1. PICK at \in Int : c.value = [kind |-> "Timestamp", at |-> at]
  BY DEF Claim, Value, IsText
<1>2. PICK device, attribute, source, locator :
        c = [device |-> device, attribute |-> attribute,
             value |-> [kind |-> "Timestamp", at |-> at], source |-> source, locator |-> locator]
  BY <1>1 DEF Claim
<1> QED
  BY <1>2 DEF FiledAs, Timestamp

\* tz.rs, claim by claim.
LEMMA NormalizedClaims ==
    ASSUME NEW cs \in Seq(Claim), NEW offset \in Int \cup {None}
    PROVE  LET ns == NormalizedIfGiven(cs, offset)
           IN  /\ ns \in Seq(Claim) /\ Len(ns) = Len(cs)
               /\ \A i \in 1..Len(cs) : ns[i] = FiledAs(cs[i], cs[i].device, UtcValue(cs[i], offset))
<1>1. /\ Len(cs) \in Nat /\ DOMAIN cs = 1..Len(cs)
      /\ \A i \in 1..Len(cs) : cs[i] \in Claim
  BY ListedClaims
<1>2. ASSUME NEW c \in Claim
      PROVE  /\ FiledAs(c, c.device, UtcValue(c, offset)) \in Claim
             /\ c = FiledAs(c, c.device, c.value)
  <2>1. c.device \in Names
    BY DEF Claim
  <2>2. c = FiledAs(c, c.device, c.value)
    BY DEF Claim, FiledAs
  <2> QED
    BY <2>1, <2>2, UtcTyped, FiledFields
<1>3. CASE offset = None
  <2>1. ASSUME NEW i \in 1..Len(cs)
        PROVE  cs[i] = FiledAs(cs[i], cs[i].device, UtcValue(cs[i], offset))
    BY <1>1, <1>2, <1>3 DEF UtcValue
  <2> QED
    BY <1>3, <2>1 DEF NormalizedIfGiven
<1>4. CASE offset # None
  <2> DEFINE ns == Normalized(cs, offset)
  <2>1. ASSUME NEW i \in 1..Len(cs)
        PROVE  ns[i] = FiledAs(cs[i], cs[i].device, UtcValue(cs[i], offset))
    <3>1. cs[i] \in Claim /\ offset \in Int
      BY <1>1, <1>4
    <3>2. CASE ClockIsLocal(cs[i].source) /\ ~IsText(cs[i].value)
      <4>1. ns[i] = [cs[i] EXCEPT !.value.at = @ - offset]
        BY <1>1, <3>2 DEF Normalized
      <4>2. UtcValue(cs[i], offset) = Timestamp(cs[i].value.at - offset)
        BY <1>4, <3>2 DEF UtcValue
      <4> QED
        BY <3>1, <3>2, <4>1, <4>2, ClockRead
    <3>3. CASE ~ (ClockIsLocal(cs[i].source) /\ ~IsText(cs[i].value))
      <4>1. ns[i] = cs[i]
        BY <1>1, <3>3 DEF Normalized
      <4>2. UtcValue(cs[i], offset) = cs[i].value
        BY <3>3 DEF UtcValue
      <4> QED
        BY <3>1, <4>1, <4>2, <1>2
    <3> QED
      BY <3>2, <3>3
  <2>2. DOMAIN ns = 1..Len(cs) /\ ns = [i \in 1..Len(cs) |-> ns[i]]
    BY <1>1 DEF Normalized
  <2> HIDE DEF ns
  <2>3. \A i \in 1..Len(cs) : ns[i] \in Claim
    BY <1>1, <1>2, <2>1
  <2>4. ns \in [1..Len(cs) -> Claim]
    BY <2>2, <2>3
  <2>5. ns \in Seq(Claim) /\ Len(ns) = Len(cs)
    BY <1>1, <2>4, TupleIsSeq
  <2>6. NormalizedIfGiven(cs, offset) = ns
    BY <1>4 DEF NormalizedIfGiven, ns
  <2> QED
    BY <2>1, <2>5, <2>6
<1> QED
  BY <1>3, <1>4

\* The devices that claims of the list report as carrying an identity.
LEMMA Carriers ==
    ASSUME NEW cs \in Seq(Claim), NEW identity, NEW d
    PROVE  d \in CarriersOf(cs, identity) <=>
             \E c \in ToSet(cs) : AssertsCarrier(c) /\ c.value.text = identity /\ c.device = d
<1>1. /\ Len(cs) \in Nat
      /\ \A c : c \in ToSet(cs) <=> \E i \in 1..Len(cs) : cs[i] = c
  BY ListedClaims
<1> QED
  BY <1>1 DEF CarriersOf, CarriersUpTo

LEMMA ResolveTyped ==
    ASSUME NEW cs \in Seq(Claim), NEW key \in Names
    PROVE  Resolve(CarriersOf(cs, key), key) \in Names
<1> DEFINE D == CarriersOf(cs, key)
<1>1. ASSUME NEW d \in D PROVE d \in Names
  <2>1. PICK c \in ToSet(cs) : c.device = d
    BY Carriers
  <2>2. c \in Claim
    BY ListedClaims
  <2> QED
    BY <2>1, <2>2 DEF Claim
<1> HIDE DEF D
<1>2. CASE \E d \in D : D = {d}
  <2>1. PICK d \in D : D = {d}
    BY <1>2
  <2>2. (CHOOSE e \in D : D = {e}) = d
    BY <2>1
  <2> QED
    BY <1>1, <1>2, <2>1, <2>2 DEF Resolve, D
<1>3. CASE ~ \E d \in D : D = {d}
  BY <1>3 DEF Resolve, D
<1> QED
  BY <1>2, <1>3

\* Alone, a carrier takes the claims of what it carries; otherwise they stay.
LEMMA ResolveEither ==
    ASSUME NEW D, NEW key
    PROVE  /\ \A d : D = {d} => Resolve(D, key) = d
           /\ (\A d : D # {d}) => Resolve(D, key) = key
BY DEF Resolve

\* reconcile.rs, claim by claim.
LEMMA RekeyedClaims ==
    ASSUME NEW cs \in Seq(Claim)
    PROVE  LET ns == Rekeyed(cs)
           IN  /\ ns \in Seq(Claim) /\ Len(ns) = Len(cs)
               /\ \A i \in 1..Len(cs) :
                    ns[i] = FiledAs(cs[i], Resolve(CarriersOf(cs, cs[i].device), cs[i].device),
                                    cs[i].value)
<1> DEFINE ns == Rekeyed(cs)
           home(i) == Resolve(CarriersOf(cs, cs[i].device), cs[i].device)
<1>1. /\ Len(cs) \in Nat /\ \A i \in 1..Len(cs) : cs[i] \in Claim
  BY ListedClaims
<1>2. ASSUME NEW i \in 1..Len(cs)
      PROVE  ns[i] = FiledAs(cs[i], home(i), cs[i].value) /\ ns[i] \in Claim
  <2>1. cs[i] \in Claim /\ cs[i].device \in Names /\ cs[i].value \in Value
    BY <1>1 DEF Claim
  <2>2. home(i) \in Names
    BY <2>1, ResolveTyped
  <2>3. ns[i] = [cs[i] EXCEPT !.device = home(i)]
    BY DEF Rekeyed
  <2> HIDE DEF home, ns
  <2>4. ns[i] = FiledAs(cs[i], home(i), cs[i].value)
    BY <2>1, <2>3, MovedClaim
  <2> QED
    BY <2>1, <2>2, <2>4, FiledFields
<1>3. ns = [i \in 1..Len(cs) |-> ns[i]]
  BY DEF Rekeyed
<1> HIDE DEF ns
<1>4. ns \in [1..Len(cs) -> Claim]
  BY <1>2, <1>3
<1>5. ns \in Seq(Claim) /\ Len(ns) = Len(cs)
  BY <1>1, <1>4, TupleIsSeq
<1> QED
  BY <1>2, <1>5 DEF ns

\* The second pass of reconcile.rs, claim by claim.
LEMMA CanonicalizedClaims ==
    ASSUME NEW cs \in Seq(Claim), NEW vs, \A key \in Names : CanonicalKey(vs, key) \in Names
    PROVE  LET ns == Canonicalized(cs, vs)
           IN  /\ ns \in Seq(Claim) /\ Len(ns) = Len(cs)
               /\ \A i \in 1..Len(cs) :
                    ns[i] = FiledAs(cs[i], CanonicalKey(vs, cs[i].device), cs[i].value)
<1> DEFINE ns == Canonicalized(cs, vs)
<1>1. /\ Len(cs) \in Nat /\ DOMAIN cs = 1..Len(cs) /\ \A i \in 1..Len(cs) : cs[i] \in Claim
  BY ListedClaims
<1>2. ASSUME NEW i \in 1..Len(cs)
      PROVE  ns[i] = FiledAs(cs[i], CanonicalKey(vs, cs[i].device), cs[i].value) /\ ns[i] \in Claim
  <2>1. cs[i] \in Claim /\ cs[i].device \in Names /\ cs[i].value \in Value
    BY <1>1 DEF Claim
  <2>2. PICK key \in Names : key = CanonicalKey(vs, cs[i].device)
    BY <2>1
  <2>3. ns[i] = [cs[i] EXCEPT !.device = key]
    BY <1>1, <2>1, <2>2 DEF Canonicalized, Claim
  <2> HIDE DEF ns
  <2>4. ns[i] = FiledAs(cs[i], key, cs[i].value)
    BY <2>1, <2>3, MovedClaim
  <2> QED
    BY <2>1, <2>2, <2>4, FiledFields
<1>3. ns = [i \in 1..Len(cs) |-> ns[i]]
  BY <1>1 DEF Canonicalized
<1> HIDE DEF ns
<1>4. ns \in [1..Len(cs) -> Claim]
  BY <1>2, <1>3
<1>5. ns \in Seq(Claim) /\ Len(ns) = Len(cs)
  BY <1>1, <1>4, TupleIsSeq
<1> QED
  BY <1>2, <1>5 DEF ns

\* A volume list as the host's MountedDevices key gives it: every partition
\* starts at offset 0.
MountList(vs) ==
    /\ Len(vs) \in Nat
    /\ \A i \in 1..Len(vs) : vs[i].signature \in Nat /\ vs[i].offset = 0

\* The canonical GUID of a partition is that of one of its entries.
LEMMA CanonicalHeld ==
    ASSUME NEW vs, MountList(vs), NEW p, CanonicalAt(vs, p) # None
    PROVE  \E j \in 1..Len(vs) :
             /\ PartitionOf(vs[j]) = p
             /\ vs[j].guid = CanonicalAt(vs, p) /\ vs[j].guid # None
<1> DEFINE G == GuidEntriesUpTo(vs, Len(vs), p)
<1>1. /\ Len(vs) \in Nat /\ G \in SUBSET (1..Len(vs))
      /\ \A i \in G : PartitionOf(vs[i]) = p /\ vs[i].guid # None
  BY DEF MountList, GuidEntriesUpTo, EntriesUpTo
<1>2. CanonicalAt(vs, p)
        = IF G = {} THEN None ELSE vs[CHOOSE i \in G : \A j \in G : j <= i].guid
  BY DEF CanonicalAt, CanonicalUpTo
<1> HIDE DEF G
<1>3. G # {}
  BY <1>2
<1>4. IsFiniteSet(G)
  BY <1>1, PlacesFinite
<1>5. G \in SUBSET Int
  BY <1>1
<1>6. \E i \in G : \A j \in G : j <= i
  BY <1>3, <1>4, <1>5, GreatestExists
<1>7. PICK i \in G : i = CHOOSE k \in G : \A j \in G : j <= k
  BY <1>6
<1> QED
  BY <1>1, <1>2, <1>3, <1>7

\* A key either stays or becomes the GUID of a partition that it names.
LEMMA CanonicalKeyIs ==
    ASSUME NEW vs, MountList(vs), NEW key
    PROVE  \/ CanonicalKey(vs, key) = key
           \/ \E i, j \in 1..Len(vs) :
                /\ key \in IdentifiersOf(vs[i]) /\ PartitionOf(vs[i]) = PartitionOf(vs[j])
                /\ CanonicalKey(vs, key) = vs[j].guid /\ vs[j].guid # None
<1> DEFINE B == BridgesOf(vs, key)
           at(i) == PartitionOf(vs[i])
<1>1. CASE B = {}
  BY <1>1 DEF CanonicalKey
<1>2. CASE B # {}
  <2>1. /\ Len(vs) \in Nat
        /\ \A p \in B : /\ \E i \in 1..Len(vs) : p = at(i)
                        /\ key \in MembersAt(vs, p) /\ CanonicalAt(vs, p) # None
        /\ \A i \in 1..Len(vs) : at(i)[1] \in Nat /\ at(i)[2] = 0 /\ at(i) = <<at(i)[1], 0>>
    BY DEF MountList, BridgesOf, PartitionOf
  <2> HIDE DEF B, at
  <2> DEFINE first == [i \in 1..Len(vs) |-> at(i)[1]]
             S == {p[1] : p \in B}
             T == {first[i] : i \in 1..Len(vs)}
  <2>2. IsFiniteSet(T)
    <3>1. IsFiniteSet(1..Len(vs)) /\ DOMAIN first = 1..Len(vs)
      BY <2>1, PlacesFinite
    <3>2. first = [i \in 1..Len(vs) |-> first[i]]
      OBVIOUS
    <3> HIDE DEF first
    <3> QED
      BY <3>1, <3>2, ImageFinite
  <2>3. S \in SUBSET T /\ S \in SUBSET Int /\ S # {}
    BY <1>2, <2>1
  <2>4. IsFiniteSet(S)
    BY <2>2, <2>3, FS_Subset
  <2> HIDE DEF T
  <2>5. Max(S) \in S /\ \A x \in S : x <= Max(S)
    BY <2>3, <2>4, GreatestExists
  <2>6. PICK p \in B : p[1] = Max(S)
    BY <2>5
  <2>7. \A q \in B \ {p} : PartitionBefore(q, p)
    <3>1. ASSUME NEW q \in B \ {p} PROVE PartitionBefore(q, p)
      <4>1. q[1] \in S /\ p[1] \in Int /\ q[1] \in Int /\ q[1] <= p[1]
        BY <2>3, <2>5, <2>6
      <4>2. q = <<q[1], 0>> /\ p = <<p[1], 0>>
        BY <2>1
      <4>3. q[1] # p[1]
        BY <4>2
      <4> QED
        BY <4>1, <4>3 DEF PartitionBefore
    <3> QED
      BY <3>1
  <2>8. PICK p2 \in B : p2 = CHOOSE r \in B : \A q \in B \ {r} : PartitionBefore(q, r)
    BY <2>7
  <2>9. CanonicalKey(vs, key) = CanonicalAt(vs, p2)
    BY <1>2, <2>8 DEF CanonicalKey, B
  <2>10. PICK i \in 1..Len(vs) : key \in IdentifiersOf(vs[i]) /\ PartitionOf(vs[i]) = p2
    BY <2>1 DEF MembersAt, MembersUpTo, EntriesUpTo
  <2>11. PICK j \in 1..Len(vs) :
            /\ PartitionOf(vs[j]) = p2
            /\ vs[j].guid = CanonicalAt(vs, p2) /\ vs[j].guid # None
    BY <2>1, CanonicalHeld
  <2> QED
    BY <2>9, <2>10, <2>11
<1> QED
  BY <1>1, <1>2

-----------------------------------------------------------------------------
(***************************************************************************)
(* Any collection of the host's records, analysed.                         *)
(***************************************************************************)
Honest(rs, now, began) ==
    /\ now \in Nat /\ IsFiniteSet(rs)
    /\ \A r \in rs : /\ HostRecord(r, now, began)
                     /\ r.source = "Usbstor" => <<r.serial, r.first_install>> \in began

\* Whatever is collected of what the host holds is honest.
LEMMA HonestEvidence ==
    ASSUME HostInv, NEW rs \in SUBSET records
    PROVE  Honest(rs, clock, Began)
<1>1. clock \in Nat /\ IsFiniteSet(rs)
  BY FS_Subset DEF HostInv, HostTypes
<1>2. \A r \in rs : HostRecord(r, clock, Began)
  BY DEF HostInv
<1>3. \A r \in rs : r.source = "Usbstor" => <<r.serial, r.first_install>> \in Began
  BY DEF Began
<1> QED
  BY <1>1, <1>2, <1>3 DEF Honest

LEMMA HonestTells ==
    ASSUME NEW rs, NEW now, NEW began, Honest(rs, now, began), NEW r \in rs,
           r.source # "MountedVolume"
    PROVE  TellsRight(r, now, began)
BY AllTellRight DEF Honest

\* The claims an adapter at a time gives are those the records tell.
LEMMA GatheredClaims ==
    ASSUME NEW rs, NEW now, NEW began, Honest(rs, now, began),
           NEW sources \in Seq(SourceKind), \A i \in 1..Len(sources) : sources[i] # "MountedVolume"
    PROVE  /\ ClaimsInOrder(sources, rs) \in Seq(Claim)
           /\ \A c : c \in ToSet(ClaimsInOrder(sources, rs)) <=>
                \E r \in rs : c \in Told(r) /\ \E i \in 1..Len(sources) : r.source = sources[i]
<1> DEFINE of(i) == {r \in rs : r.source = sources[i]}
           part(i) == FlattenSeq([j \in DOMAIN AsSeq(of(i)) |-> ClaimsOfRecord(AsSeq(of(i))[j])])
           parts == [i \in DOMAIN sources |-> part(i)]
<1>1. Len(sources) \in Nat /\ DOMAIN sources = 1..Len(sources)
  OBVIOUS
<1>2. ASSUME NEW i \in 1..Len(sources)
      PROVE  /\ part(i) \in Seq(Claim)
             /\ \A c : c \in ToSet(part(i)) <=> \E r \in rs : c \in Told(r) /\ r.source = sources[i]
  <2>1. IsFiniteSet(of(i))
    BY FS_Subset DEF Honest
  <2>2. AsSeq(of(i)) \in Seq(of(i)) /\ ToSet(AsSeq(of(i))) = of(i)
    BY <2>1, AsSeqMembers
  <2>3. PICK mine : mine = AsSeq(of(i))
    OBVIOUS
  <2> DEFINE lists == [j \in DOMAIN mine |-> ClaimsOfRecord(mine[j])]
  <2>4. /\ Len(mine) \in Nat /\ DOMAIN mine = 1..Len(mine)
        /\ \A j \in 1..Len(mine) : mine[j] \in rs /\ mine[j].source = sources[i]
        /\ \A r \in rs : r.source = sources[i] => \E j \in 1..Len(mine) : mine[j] = r
    <3>1. PICK S : S = of(i)
      OBVIOUS
    <3>2. mine \in Seq(S) /\ ToSet(mine) = S
      BY <2>2, <2>3, <3>1
    <3>3. \A r : r \in S <=> r \in rs /\ r.source = sources[i]
      BY <3>1
    <3> HIDE DEF of
    <3>4. /\ Len(mine) \in Nat /\ DOMAIN mine = 1..Len(mine)
          /\ \A j \in 1..Len(mine) : mine[j] \in S
          /\ \A r \in S : \E j \in 1..Len(mine) : mine[j] = r
      BY <3>2 DEF ToSet
    <3> QED
      BY <3>3, <3>4
  <2>5. ASSUME NEW j \in 1..Len(mine)
        PROVE  /\ lists[j] \in Seq(Claim) /\ lists[j] = ClaimsOfRecord(mine[j])
               /\ ToSet(lists[j]) = Told(mine[j])
    <3>1. TellsRight(mine[j], now, began)
      BY <2>4, HonestTells
    <3>2. lists[j] = ClaimsOfRecord(mine[j])
      BY <2>4
    <3> QED
      BY <3>1, <3>2 DEF TellsRight, Told
  <2>6. lists = [j \in 1..Len(mine) |-> lists[j]]
    BY <2>4
  <2>7. part(i) = FlattenSeq(lists)
    BY <2>3
  <2> HIDE DEF lists, part
  <2>8. lists \in [1..Len(mine) -> Seq(Claim)]
    BY <2>5, <2>6
  <2>9. lists \in Seq(Seq(Claim)) /\ Len(lists) = Len(mine)
    BY <2>4, <2>8, TupleIsSeq
  <2>10. /\ FlattenSeq(lists) \in Seq(Claim)
         /\ \A c : c \in ToSet(FlattenSeq(lists)) <=>
                     \E j \in 1..Len(mine) : c \in ToSet(lists[j])
    BY <2>9, FlattenMembers
  <2>11. ASSUME NEW c, NEW j \in 1..Len(mine), c \in ToSet(lists[j])
         PROVE  \E r \in rs : c \in Told(r) /\ r.source = sources[i]
    BY <2>4, <2>5, <2>11
  <2>12. ASSUME NEW c, NEW r \in rs, c \in Told(r), r.source = sources[i]
         PROVE  \E j \in 1..Len(mine) : c \in ToSet(lists[j])
    BY <2>4, <2>5, <2>12
  <2> QED
    BY ONLY <2>7, <2>10, <2>11, <2>12
<1>3. parts = [i \in 1..Len(sources) |-> parts[i]] /\ \A i \in 1..Len(sources) : parts[i] = part(i)
  BY <1>1
<1>4. ClaimsInOrder(sources, rs) = FlattenSeq(parts)
  BY DEF ClaimsInOrder
<1> HIDE DEF parts, part
<1>5. parts \in [1..Len(sources) -> Seq(Claim)]
  BY <1>2, <1>3
<1>6. parts \in Seq(Seq(Claim)) /\ Len(parts) = Len(sources)
  BY <1>1, <1>5, TupleIsSeq
<1>7. /\ FlattenSeq(parts) \in Seq(Claim)
      /\ \A c : c \in ToSet(FlattenSeq(parts)) <=>
                  \E i \in 1..Len(sources) : c \in ToSet(parts[i])
  BY <1>6, FlattenMembers
<1>8. ASSUME NEW c
      PROVE  (\E i \in 1..Len(sources) : c \in ToSet(parts[i])) <=>
             \E r \in rs : c \in Told(r) /\ \E i \in 1..Len(sources) : r.source = sources[i]
  <2>1. \A i \in 1..Len(sources) :
          c \in ToSet(parts[i]) <=> \E r \in rs : c \in Told(r) /\ r.source = sources[i]
    BY <1>2, <1>3
  <2> QED
    BY <2>1
<1> QED
  BY <1>4, <1>7, <1>8

\* What one entry of MountedDevices names.
LEMMA MountNames ==
    ASSUME NEW r, IsMountEntry(r)
    PROVE  \E d \in Devices :
             /\ r.signature = SignatureOf[d] /\ r.offset = 0 /\ r.signature \in Nat
             /\ PartitionOf(r) = <<SignatureOf[d], 0>>
             /\ r.guid # None => r.guid = GuidOf[d]
             /\ IdentifiersOf(r) \subseteq {Letter, GuidOf[d], DiskNameOf[d]}
<1>1. PICK d \in Devices : r = MountEntry(d, Letter, None) \/ r = MountEntry(d, None, GuidOf[d])
  BY DEF IsMountEntry
<1>2. /\ r.signature = SignatureOf[d] /\ r.offset = 0
      /\ r.guid # None => r.guid = GuidOf[d]
      /\ r.letter # None => r.letter = Letter
  BY <1>1 DEF MountEntry
<1>3. DiskName(SignatureOf[d]) = DiskNameOf[d] /\ SignatureOf[d] \in Nat
  BY InvestigationAssumption, HostAssumption
<1>4. IdentifiersOf(r) \subseteq {Letter, GuidOf[d], DiskNameOf[d]}
  BY <1>2, <1>3 DEF IdentifiersOf
<1> QED
  BY <1>2, <1>3, <1>4 DEF PartitionOf

LEMMA VolumeList ==
    ASSUME NEW rs, NEW now, NEW began, Honest(rs, now, began)
    PROVE  /\ MountList(VolumesIn(rs))
           /\ \A i \in 1..Len(VolumesIn(rs)) : IsMountEntry(VolumesIn(rs)[i])
<1> DEFINE S == {r \in rs : r.source = "MountedVolume"}
<1>1. IsFiniteSet(S)
  BY FS_Subset DEF Honest
<1>2. AsSeq(S) \in Seq(S)
  BY <1>1, AsSeqMembers
<1>3. \A r \in S : IsMountEntry(r)
  BY SourceTells DEF Honest
<1>4. PICK vs : vs = AsSeq(S)
  OBVIOUS
<1>5. VolumesIn(rs) = vs
  BY <1>4 DEF VolumesIn
<1> HIDE DEF S
<1>6. Len(vs) \in Nat /\ \A i \in 1..Len(vs) : vs[i] \in S
  BY <1>2, <1>4
<1>7. \A i \in 1..Len(vs) : IsMountEntry(vs[i])
  BY <1>3, <1>6
<1>8. \A i \in 1..Len(vs) : vs[i].signature \in Nat /\ vs[i].offset = 0
  BY <1>7, MountNames
<1> QED
  BY <1>5, <1>6, <1>7, <1>8 DEF MountList

\* A key that MountedDevices moves is the letter or a name of a stick, and
\* moves to the GUID of a stick with the same signature.
LEMMA VolumeMoves ==
    ASSUME NEW rs, NEW now, NEW began, Honest(rs, now, began), NEW key
    PROVE  \/ CanonicalKey(VolumesIn(rs), key) = key
           \/ \E d, e \in Devices :
                /\ key \in {Letter, GuidOf[d], DiskNameOf[d]} /\ SignatureOf[d] = SignatureOf[e]
                /\ CanonicalKey(VolumesIn(rs), key) = GuidOf[e]
<1>1. PICK vs : vs = VolumesIn(rs)
  OBVIOUS
<1>2. MountList(vs) /\ \A i \in 1..Len(vs) : IsMountEntry(vs[i])
  BY <1>1, VolumeList
<1>3. CASE \E i, j \in 1..Len(vs) :
             /\ key \in IdentifiersOf(vs[i]) /\ PartitionOf(vs[i]) = PartitionOf(vs[j])
             /\ CanonicalKey(vs, key) = vs[j].guid /\ vs[j].guid # None
  <2>1. PICK i \in 1..Len(vs), j \in 1..Len(vs) :
             /\ key \in IdentifiersOf(vs[i]) /\ PartitionOf(vs[i]) = PartitionOf(vs[j])
             /\ CanonicalKey(vs, key) = vs[j].guid /\ vs[j].guid # None
    BY <1>3
  <2>2. PICK d \in Devices :
            /\ PartitionOf(vs[i]) = <<SignatureOf[d], 0>>
            /\ IdentifiersOf(vs[i]) \subseteq {Letter, GuidOf[d], DiskNameOf[d]}
    BY <1>2, MountNames
  <2>3. PICK e \in Devices :
            PartitionOf(vs[j]) = <<SignatureOf[e], 0>> /\ vs[j].guid = GuidOf[e]
    BY <1>2, <2>1, MountNames
  <2>4. SignatureOf[d] = SignatureOf[e]
    <3>1. <<SignatureOf[d], 0>> = <<SignatureOf[e], 0>>
      BY <2>1, <2>2, <2>3
    <3> QED
      BY <3>1
  <2> QED
    BY <1>1, <2>1, <2>2, <2>3, <2>4
<1> QED
  BY <1>1, <1>2, <1>3, CanonicalKeyIs

LEMMA VolumeKeyTyped ==
    ASSUME NEW rs, NEW now, NEW began, Honest(rs, now, began), NEW key \in Names
    PROVE  CanonicalKey(VolumesIn(rs), key) \in Names
BY VolumeMoves, HostNames

LEMMA RunSources ==
    /\ SourcesInRun \in Seq(SourceKind)
    /\ \A i \in 1..Len(SourcesInRun) : SourcesInRun[i] \notin {"MountedVolume", "Shellbag"}
    /\ \A source \in {"Usbstor", "SetupApi", "PartitionDiag", "KernelPnp", "DriverFramework",
                      "MountPoints2", "EmdMgmt", "VolumeInfoCache", "Lnk", "DeviceImage"} :
         \E i \in 1..Len(SourcesInRun) : SourcesInRun[i] = source
<1>1. /\ Len(SourcesInRun) = 12
      /\ SourcesInRun[1] = "SetupApi" /\ SourcesInRun[2] = "Usbstor"
      /\ SourcesInRun[3] = "LinuxKernelLog" /\ SourcesInRun[4] = "Lnk"
      /\ SourcesInRun[5] = "JumpList" /\ SourcesInRun[6] = "PartitionDiag"
      /\ SourcesInRun[7] = "KernelPnp" /\ SourcesInRun[8] = "DriverFramework"
      /\ SourcesInRun[9] = "VolumeInfoCache" /\ SourcesInRun[10] = "MountPoints2"
      /\ SourcesInRun[11] = "EmdMgmt" /\ SourcesInRun[12] = "DeviceImage"
  <2>1. Len(SourcesInRun) = 12 BY DEF SourcesInRun
  <2>2. SourcesInRun[1] = "SetupApi" BY DEF SourcesInRun
  <2>3. SourcesInRun[2] = "Usbstor" BY DEF SourcesInRun
  <2>4. SourcesInRun[3] = "LinuxKernelLog" BY DEF SourcesInRun
  <2>5. SourcesInRun[4] = "Lnk" BY DEF SourcesInRun
  <2>6. SourcesInRun[5] = "JumpList" BY DEF SourcesInRun
  <2>7. SourcesInRun[6] = "PartitionDiag" BY DEF SourcesInRun
  <2>8. SourcesInRun[7] = "KernelPnp" BY DEF SourcesInRun
  <2>9. SourcesInRun[8] = "DriverFramework" BY DEF SourcesInRun
  <2>10. SourcesInRun[9] = "VolumeInfoCache" BY DEF SourcesInRun
  <2>11. SourcesInRun[10] = "MountPoints2" BY DEF SourcesInRun
  <2>12. SourcesInRun[11] = "EmdMgmt" BY DEF SourcesInRun
  <2>13. SourcesInRun[12] = "DeviceImage" BY DEF SourcesInRun
  <2> QED
    BY <2>1, <2>2, <2>3, <2>4, <2>5, <2>6, <2>7, <2>8, <2>9, <2>10, <2>11, <2>12, <2>13
<1>2. \A i \in 1..12 : i \in {1, 2, 3, 4, 5, 6, 7, 8, 9, 10, 11, 12}
  OBVIOUS
<1>3. \A i \in {1, 2, 3, 4, 5, 6, 7, 8, 9, 10, 11, 12} : i \in 1..12
  OBVIOUS
<1>6. SourcesInRun = [i \in 1..12 |-> SourcesInRun[i]]
  BY DEF SourcesInRun
<1> HIDE DEF SourcesInRun
<1>7. \A i \in 1..12 : SourcesInRun[i] \in SourceKind
  BY <1>1, <1>2 DEF SourceKind
<1>8. SourcesInRun \in Seq(SourceKind)
  <2>1. SourcesInRun \in [1..12 -> SourceKind]
    BY <1>6, <1>7
  <2> QED
    BY <2>1, TupleIsSeq
<1>4. \A i \in 1..12 : SourcesInRun[i] \notin {"MountedVolume", "Shellbag"}
  BY <1>1, <1>2
<1>5. \A source \in {"Usbstor", "SetupApi", "PartitionDiag", "KernelPnp", "DriverFramework",
                      "MountPoints2", "EmdMgmt", "VolumeInfoCache", "Lnk", "DeviceImage"} :
         \E i \in 1..12 : SourcesInRun[i] = source
  BY <1>1, <1>3
<1> QED
  BY <1>1, <1>4, <1>5, <1>8

\* Where run files the claims that name a key, and where the library does.
LibrarySources == SourcesInRun \o <<"Shellbag">>
LibraryClaims(rs) == ClaimsInOrder(LibrarySources, rs)
RunHome(rs, key) == CanonicalKey(VolumesIn(rs), Resolve(CarriersOf(GatheredFrom(rs), key), key))
LibraryHome(rs, key) == Resolve(CarriersOf(LibraryClaims(rs), key), key)

ToldToRun(rs, t) ==
    \E r \in rs : t \in Told(r) /\ \E i \in 1..Len(SourcesInRun) : r.source = SourcesInRun[i]

ToldToLibrary(rs, t) ==
    \E r \in rs : t \in Told(r) /\ \E i \in 1..Len(LibrarySources) : r.source = LibrarySources[i]

LEMMA GatheredByRun ==
    ASSUME NEW rs, NEW now, NEW began, Honest(rs, now, began)
    PROVE  /\ GatheredFrom(rs) \in Seq(Claim)
           /\ \A t : t \in ToSet(GatheredFrom(rs)) <=> ToldToRun(rs, t)
<1>1. \A i \in 1..Len(SourcesInRun) : SourcesInRun[i] # "MountedVolume"
  BY RunSources
<1>2. /\ ClaimsInOrder(SourcesInRun, rs) \in Seq(Claim)
      /\ \A c : c \in ToSet(ClaimsInOrder(SourcesInRun, rs)) <=>
           \E r \in rs : c \in Told(r) /\ \E i \in 1..Len(SourcesInRun) : r.source = SourcesInRun[i]
  BY <1>1, RunSources, GatheredClaims
<1> QED
  BY <1>2 DEF GatheredFrom, ToldToRun

LEMMA GatheredByLibrary ==
    ASSUME NEW rs, NEW now, NEW began, Honest(rs, now, began)
    PROVE  /\ LibraryClaims(rs) \in Seq(Claim)
           /\ \A t : t \in ToSet(LibraryClaims(rs)) <=> ToldToLibrary(rs, t)
           /\ \E i \in 1..Len(LibrarySources) : LibrarySources[i] = "Shellbag"
           /\ \A i \in 1..Len(LibrarySources) : LibrarySources[i] # "MountedVolume"
           /\ \A i \in 1..Len(SourcesInRun) :
                \E j \in 1..Len(LibrarySources) : LibrarySources[j] = SourcesInRun[i]
<1> DEFINE bags == <<"Shellbag">>
<1>1. bags \in Seq(SourceKind) /\ ToSet(bags) = {"Shellbag"}
  BY DEF SourceKind, ToSet
<1>2. LibrarySources = SourcesInRun \o bags
  BY DEF LibrarySources
<1> HIDE DEF bags
<1>3. PICK run \in Seq(SourceKind) : run = SourcesInRun
  BY RunSources
<1>4. PICK both : both = run \o bags
  OBVIOUS
<1>5. both \in Seq(SourceKind) /\ ToSet(both) = ToSet(run) \cup {"Shellbag"}
  BY <1>1, <1>4, JoinedMembers
<1>6. /\ \A x : x \in ToSet(run) <=> \E i \in 1..Len(run) : run[i] = x
      /\ \A x : x \in ToSet(both) <=> \E i \in 1..Len(both) : both[i] = x
  BY <1>5 DEF ToSet
<1>7. \A i \in 1..Len(run) : run[i] # "MountedVolume"
  BY <1>3, RunSources
<1>8. \A i \in 1..Len(both) : both[i] # "MountedVolume"
  BY <1>5, <1>6, <1>7
<1>9. /\ \E i \in 1..Len(both) : both[i] = "Shellbag"
      /\ \A i \in 1..Len(run) : \E j \in 1..Len(both) : both[j] = run[i]
  BY <1>5, <1>6
<1>10. LibrarySources = both
  BY <1>2, <1>3, <1>4
<1>11. /\ ClaimsInOrder(both, rs) \in Seq(Claim)
       /\ \A c : c \in ToSet(ClaimsInOrder(both, rs)) <=>
            \E r \in rs : c \in Told(r) /\ \E i \in 1..Len(both) : r.source = both[i]
  BY <1>5, <1>8, GatheredClaims
<1> QED
  BY <1>3, <1>8, <1>9, <1>10, <1>11 DEF LibraryClaims, ToldToLibrary

LEMMA FiledAgain ==
    ASSUME NEW c, NEW k, NEW v, NEW key, NEW value
    PROVE  FiledAs(FiledAs(c, k, v), key, value) = FiledAs(c, key, value)
BY DEF FiledAs

LEMMA FiledParts ==
    ASSUME NEW c, NEW key, NEW value
    PROVE  /\ FiledAs(c, key, value).device = key /\ FiledAs(c, key, value).value = value
           /\ FiledAs(c, key, value).attribute = c.attribute
           /\ FiledAs(c, key, value).source = c.source
BY DEF FiledAs

\* Only texts make carriers, so the clock has no part in it.
LEMMA ClockLeavesCarriers ==
    ASSUME NEW cs \in Seq(Claim), NEW offset \in Int \cup {None}, NEW identity
    PROVE  CarriersOf(NormalizedIfGiven(cs, offset), identity) = CarriersOf(cs, identity)
<1> DEFINE ns == NormalizedIfGiven(cs, offset)
<1>1. Len(cs) \in Nat /\ \A i \in 1..Len(cs) : cs[i] \in Claim
  BY ListedClaims
<1>2. /\ Len(ns) = Len(cs)
      /\ \A i \in 1..Len(cs) : ns[i] = FiledAs(cs[i], cs[i].device, UtcValue(cs[i], offset))
  BY NormalizedClaims
<1> HIDE DEF ns
<1>3. ASSUME NEW i \in 1..Len(cs)
      PROVE  /\ ns[i].device = cs[i].device
             /\ AssertsCarrier(ns[i]) <=> AssertsCarrier(cs[i])
             /\ AssertsCarrier(cs[i]) => ns[i].value = cs[i].value
  <2>1. /\ ns[i].device = cs[i].device /\ ns[i].attribute = cs[i].attribute
        /\ ns[i].value = UtcValue(cs[i], offset)
    <3>1. PICK device, value : device = cs[i].device /\ value = UtcValue(cs[i], offset)
      OBVIOUS
    <3>2. ns[i] = FiledAs(cs[i], device, value)
      BY <1>2, <3>1
    <3> QED
      BY <3>1, <3>2, FiledParts
  <2>2. /\ IsText(ns[i].value) <=> IsText(cs[i].value)
        /\ IsText(cs[i].value) => ns[i].value = cs[i].value
    BY <1>1, <2>1, UtcTyped
  <2> QED
    BY <2>1, <2>2 DEF AssertsCarrier
<1>4. ASSUME NEW d
      PROVE  d \in CarriersOf(ns, identity) <=> d \in CarriersOf(cs, identity)
  BY <1>2, <1>3 DEF CarriersOf, CarriersUpTo
<1> QED
  BY <1>4 DEF CarriersOf, CarriersUpTo, ns

\* The claims that run correlates: each that is told, by UTC and at home.
LEMMA RunFiles ==
    ASSUME NEW rs, NEW now, NEW began, Honest(rs, now, began), tz \in Int \cup {None}
    PROVE  /\ ByRun(rs) \in Seq(Claim)
           /\ \A t : ToldToRun(rs, t) =>
                FiledAs(t, RunHome(rs, t.device), UtcValue(t, tz)) \in ToSet(ByRun(rs))
           /\ \A c \in ToSet(ByRun(rs)) : \E t :
                ToldToRun(rs, t) /\ c = FiledAs(t, RunHome(rs, t.device), UtcValue(t, tz))
<1>1. PICK g \in Seq(Claim) : g = GatheredFrom(rs)
  BY GatheredByRun
<1>2. PICK n : n = NormalizedIfGiven(g, tz)
  OBVIOUS
<1>3. PICK k : k = Rekeyed(n)
  OBVIOUS
<1>4. PICK vs : vs = VolumesIn(rs)
  OBVIOUS
<1>5. PICK f : f = Canonicalized(k, vs)
  OBVIOUS
<1>6. ByRun(rs) = f
  BY <1>1, <1>2, <1>3, <1>4, <1>5 DEF ByRun, Clocked
<1>7. /\ n \in Seq(Claim) /\ Len(n) = Len(g)
      /\ \A i \in 1..Len(g) : n[i] = FiledAs(g[i], g[i].device, UtcValue(g[i], tz))
  BY <1>2, NormalizedClaims
<1>8. \A key : CarriersOf(n, key) = CarriersOf(g, key)
  BY <1>2, ClockLeavesCarriers
<1>9. /\ k \in Seq(Claim) /\ Len(k) = Len(g)
      /\ \A i \in 1..Len(g) :
            k[i] = FiledAs(n[i], Resolve(CarriersOf(n, n[i].device), n[i].device), n[i].value)
  BY <1>3, <1>7, RekeyedClaims
<1>10. /\ f \in Seq(Claim) /\ Len(f) = Len(g)
       /\ \A i \in 1..Len(g) : f[i] = FiledAs(k[i], CanonicalKey(vs, k[i].device), k[i].value)
  <2>1. \A key \in Names : CanonicalKey(vs, key) \in Names
    BY <1>4, VolumeKeyTyped
  <2> QED
    BY <1>5, <1>9, <2>1, CanonicalizedClaims
<1>11. ASSUME NEW i \in 1..Len(g)
       PROVE  f[i] = FiledAs(g[i], RunHome(rs, g[i].device), UtcValue(g[i], tz))
  <2>1. PICK value : value = UtcValue(g[i], tz)
    OBVIOUS
  <2>2. PICK home : home = Resolve(CarriersOf(g, g[i].device), g[i].device)
    OBVIOUS
  <2>3. n[i] = FiledAs(g[i], g[i].device, value)
    BY <1>7, <2>1
  <2>4. n[i].device = g[i].device /\ n[i].value = value
    BY <2>3, FiledParts
  <2>5. k[i] = FiledAs(n[i], home, value)
    BY <1>8, <1>9, <2>2, <2>4
  <2>6. k[i] = FiledAs(g[i], home, value) /\ k[i].device = home /\ k[i].value = value
    BY <2>3, <2>5, FiledAgain, FiledParts
  <2>7. f[i] = FiledAs(k[i], CanonicalKey(vs, home), value)
    BY <1>10, <2>6
  <2>8. f[i] = FiledAs(g[i], CanonicalKey(vs, home), value)
    BY <2>6, <2>7, FiledAgain
  <2>9. CanonicalKey(vs, home) = RunHome(rs, g[i].device)
    BY <1>1, <1>4, <2>2 DEF RunHome
  <2> QED
    BY <2>1, <2>8, <2>9
<1>12. \A c : c \in ToSet(f) <=> \E i \in 1..Len(g) : f[i] = c
  BY <1>10 DEF ToSet
<1>13. \A t : ToldToRun(rs, t) <=> \E i \in 1..Len(g) : g[i] = t
  BY <1>1, GatheredByRun, ListedClaims
<1>14. ASSUME NEW t, ToldToRun(rs, t)
       PROVE  FiledAs(t, RunHome(rs, t.device), UtcValue(t, tz)) \in ToSet(f)
  <2>1. PICK i \in 1..Len(g) : g[i] = t
    BY <1>13, <1>14
  <2> QED
    BY <1>11, <1>12, <2>1
<1>15. ASSUME NEW c \in ToSet(f)
       PROVE  \E t : ToldToRun(rs, t) /\ c = FiledAs(t, RunHome(rs, t.device), UtcValue(t, tz))
  <2>1. PICK i \in 1..Len(g) : f[i] = c
    BY <1>12
  <2> QED
    BY <1>11, <1>13, <2>1
<1> QED
  BY <1>6, <1>10, <1>14, <1>15

\* The claims that correlate_sources correlates: as they were told, at home.
LEMMA LibraryFiles ==
    ASSUME NEW rs, NEW now, NEW began, Honest(rs, now, began)
    PROVE  /\ ByLibrary(rs) \in Seq(Claim)
           /\ \A t : ToldToLibrary(rs, t) =>
                FiledAs(t, LibraryHome(rs, t.device), t.value) \in ToSet(ByLibrary(rs))
           /\ \A c \in ToSet(ByLibrary(rs)) : \E t :
                ToldToLibrary(rs, t) /\ c = FiledAs(t, LibraryHome(rs, t.device), t.value)
<1>1. PICK g \in Seq(Claim) : g = LibraryClaims(rs)
  BY GatheredByLibrary
<1>2. PICK f : f = Rekeyed(g)
  OBVIOUS
<1>3. ByLibrary(rs) = f
  BY <1>1, <1>2 DEF ByLibrary, LibraryClaims, LibrarySources
<1>4. /\ f \in Seq(Claim) /\ Len(f) = Len(g)
      /\ \A i \in 1..Len(g) :
            f[i] = FiledAs(g[i], Resolve(CarriersOf(g, g[i].device), g[i].device), g[i].value)
  BY <1>2, RekeyedClaims
<1>5. \A i \in 1..Len(g) : f[i] = FiledAs(g[i], LibraryHome(rs, g[i].device), g[i].value)
  BY <1>1, <1>4 DEF LibraryHome
<1>6. \A c : c \in ToSet(f) <=> \E i \in 1..Len(g) : f[i] = c
  BY <1>4 DEF ToSet
<1>7. \A t : ToldToLibrary(rs, t) <=> \E i \in 1..Len(g) : g[i] = t
  BY <1>1, GatheredByLibrary, ListedClaims
<1>8. ASSUME NEW t, ToldToLibrary(rs, t)
      PROVE  FiledAs(t, LibraryHome(rs, t.device), t.value) \in ToSet(f)
  <2>1. PICK i \in 1..Len(g) : g[i] = t
    BY <1>7, <1>8
  <2> QED
    BY <1>5, <1>6, <2>1
<1>9. ASSUME NEW c \in ToSet(f)
      PROVE  \E t : ToldToLibrary(rs, t) /\ c = FiledAs(t, LibraryHome(rs, t.device), t.value)
  <2>1. PICK i \in 1..Len(g) : f[i] = c
    BY <1>6
  <2> QED
    BY <1>5, <1>7, <2>1
<1> QED
  BY <1>3, <1>4, <1>8, <1>9

-----------------------------------------------------------------------------
(***************************************************************************)
(* What the report holds, claim by claim.                                  *)
(***************************************************************************)
LEMMA EntryHolds ==
    ASSUME NEW cs \in Seq(Claim), NEW hs, hs = Correlated(cs)
    PROVE  \A k \in DOMAIN hs :
             /\ hs[k].values \in Seq(ProvenancedValue) /\ hs[k].values # <<>>
             /\ hs[k].consistency = Grade(hs[k].values)
             /\ \A pv : pv \in ToSet(hs[k].values) <=>
                  \E c \in ToSet(cs) : GroupOf(c) = GroupOf(hs[k]) /\ pv = Provenanced(c)
<1>1. IsReportOf(cs, hs)
  BY CorrelatedIsReport
<1>2. /\ DOMAIN hs = 1..Len(hs)
      /\ \A k \in DOMAIN hs : hs[k].values \in Seq(ProvenancedValue)
  BY <1>1, ReportEntries
<1>3. /\ Len(cs) \in Nat
      /\ \A c : c \in ToSet(cs) <=> \E i \in 1..Len(cs) : cs[i] = c
  BY ListedClaims
<1> SUFFICES ASSUME NEW k \in DOMAIN hs
             PROVE  /\ hs[k].values \in Seq(ProvenancedValue) /\ hs[k].values # <<>>
                    /\ hs[k].consistency = Grade(hs[k].values)
                    /\ \A pv : pv \in ToSet(hs[k].values) <=>
                         \E c \in ToSet(cs) : GroupOf(c) = GroupOf(hs[k]) /\ pv = Provenanced(c)
  OBVIOUS
<1>4. PICK values \in Seq(ProvenancedValue) : values = hs[k].values
  BY <1>2
<1>5. HoldsUpTo(cs, Len(cs), values, GroupOf(hs[k])) /\ values # <<>>
  BY <1>1, <1>4 DEF IsReportOf
<1>6. /\ Len(values) \in Nat /\ DOMAIN values = 1..Len(values)
      /\ \A pv : pv \in ToSet(values) <=> \E j \in DOMAIN values : values[j] = pv
  BY DEF ToSet
<1>7. ASSUME NEW c \in ToSet(cs), GroupOf(c) = GroupOf(hs[k])
      PROVE  Provenanced(c) \in ToSet(values)
  <2>1. Cardinality(PlacesIn(values, c)) = Cardinality(ReadAs(cs, Len(cs), c))
    BY <1>5, <1>7 DEF HoldsUpTo
  <2>2. PICK i \in 1..Len(cs) : cs[i] = c
    BY <1>3
  <2>3. ReadAs(cs, Len(cs), c) # {} /\ ReadAs(cs, Len(cs), c) \in SUBSET (1..Len(cs))
    BY <2>2 DEF ReadAs
  <2>4. PlacesIn(values, c) \in SUBSET (1..Len(values))
    BY <1>6 DEF PlacesIn
  <2>5. IsFiniteSet(ReadAs(cs, Len(cs), c)) /\ IsFiniteSet(PlacesIn(values, c))
    BY <1>3, <1>6, <2>3, <2>4, PlacesFinite
  <2>6. PlacesIn(values, c) # {}
    BY <2>1, <2>3, <2>5, FS_EmptySet
  <2> QED
    BY <1>6, <2>6 DEF PlacesIn
<1>8. ASSUME NEW pv \in ToSet(values)
      PROVE  \E c \in ToSet(cs) : GroupOf(c) = GroupOf(hs[k]) /\ pv = Provenanced(c)
  <2>1. PICK j \in DOMAIN values : values[j] = pv
    BY <1>6
  <2>2. PICK i \in 1..Len(cs) : GroupOf(cs[i]) = GroupOf(hs[k]) /\ values[j] = Provenanced(cs[i])
    BY <1>5 DEF HoldsUpTo
  <2> QED
    BY <1>3, <2>1, <2>2
<1>9. hs[k].consistency = Grade(hs[k].values)
  BY <1>1 DEF IsReportOf
<1> QED
  BY <1>4, <1>5, <1>7, <1>8, <1>9

LEMMA SameGroup ==
    ASSUME NEW x, NEW y
    PROVE  GroupOf(x) = GroupOf(y) <=> x.device = y.device /\ x.attribute = y.attribute
BY DEF GroupOf

\* The values reported for a device are those its claims have.
LEMMA ValuesReported ==
    ASSUME NEW cs \in Seq(Claim), NEW hs, hs = Correlated(cs)
    PROVE  /\ \A device, attribute, v : v \in ValuesOf(hs, device, attribute) <=>
                \E c \in ToSet(cs) : c.device = device /\ c.attribute = attribute /\ c.value = v
           /\ \A k \in DOMAIN hs : \A v : v \in ReportedValues(hs[k].values) <=>
                \E c \in ToSet(cs) : /\ c.device = hs[k].device
                                     /\ c.attribute = hs[k].attribute /\ c.value = v
           /\ \A c \in ToSet(cs) : c.device \in DevicesIn(hs)
<1>1. \A k \in DOMAIN hs : \A pv : pv \in ToSet(hs[k].values) <=>
        \E c \in ToSet(cs) : GroupOf(c) = GroupOf(hs[k]) /\ pv = Provenanced(c)
  BY EntryHolds
<1>2. ASSUME NEW k \in DOMAIN hs, NEW v
      PROVE  v \in ReportedValues(hs[k].values) <=>
                \E c \in ToSet(cs) : GroupOf(c) = GroupOf(hs[k]) /\ c.value = v
  <2>1. v \in ReportedValues(hs[k].values) <=> \E pv \in ToSet(hs[k].values) : pv.value = v
    BY DEF ReportedValues
  <2>2. \A c : Provenanced(c).value = c.value
    BY DEF Provenanced
  <2>3. PICK held : held = ToSet(hs[k].values)
    OBVIOUS
  <2>4. \A pv : pv \in held <=>
          \E c \in ToSet(cs) : GroupOf(c) = GroupOf(hs[k]) /\ pv = Provenanced(c)
    BY <1>1, <2>3
  <2>5. (\E pv \in held : pv.value = v) <=>
          \E c \in ToSet(cs) : GroupOf(c) = GroupOf(hs[k]) /\ c.value = v
    BY <2>2, <2>4
  <2> QED
    BY <2>1, <2>3, <2>5
<1>3. ASSUME NEW c \in ToSet(cs) PROVE \E k \in DOMAIN hs : GroupOf(hs[k]) = GroupOf(c)
  <2>1. IsReportOf(cs, hs)
    BY CorrelatedIsReport
  <2>2. PICK i \in 1..Len(cs) : cs[i] = c
    BY ListedClaims
  <2>3. i \in DOMAIN cs
    BY ListedClaims
  <2> QED
    BY <2>1, <2>2, <2>3 DEF IsReportOf
<1>4. ASSUME NEW device, NEW attribute, NEW v
      PROVE  v \in ValuesOf(hs, device, attribute) <=>
                \E c \in ToSet(cs) : c.device = device /\ c.attribute = attribute /\ c.value = v
  <2> DEFINE group == [device |-> device, attribute |-> attribute]
  <2>1. v \in ValuesOf(hs, device, attribute) <=>
          \E k \in DOMAIN hs : GroupOf(hs[k]) = group /\ v \in ReportedValues(hs[k].values)
    BY DEF ValuesOf
  <2>2. \A c : GroupOf(c) = group <=> c.device = device /\ c.attribute = attribute
    BY DEF GroupOf
  <2> HIDE DEF group
  <2>3. ASSUME NEW k \in DOMAIN hs, GroupOf(hs[k]) = group, v \in ReportedValues(hs[k].values)
        PROVE  \E c \in ToSet(cs) : GroupOf(c) = group /\ c.value = v
    BY <1>2, <2>3
  <2>4. ASSUME NEW c \in ToSet(cs), GroupOf(c) = group, c.value = v
        PROVE  \E k \in DOMAIN hs : GroupOf(hs[k]) = group /\ v \in ReportedValues(hs[k].values)
    BY <1>2, <1>3, <2>4
  <2> QED
    BY <2>1, <2>2, <2>3, <2>4
<1>5. ASSUME NEW c \in ToSet(cs) PROVE c.device \in DevicesIn(hs)
  BY <1>3, SameGroup DEF DevicesIn
<1>6. ASSUME NEW k \in DOMAIN hs, NEW v
      PROVE  v \in ReportedValues(hs[k].values) <=>
                \E c \in ToSet(cs) : /\ c.device = hs[k].device
                                     /\ c.attribute = hs[k].attribute /\ c.value = v
  BY <1>2, SameGroup
<1> QED
  BY <1>4, <1>5, <1>6

-----------------------------------------------------------------------------
(***************************************************************************)
(* Whose claims end where, when the names of the sticks are apart.         *)
(***************************************************************************)
LEMMA ToldSource ==
    ASSUME NEW rs, NEW now, NEW began, Honest(rs, now, began), NEW t,
           ToldToRun(rs, t) \/ ToldToLibrary(rs, t)
    PROVE  /\ ClaimTold(t, now, began)
           /\ \E r \in rs : t \in Told(r) /\ t.source = r.source /\ r.source # "MountedVolume"
<1>1. PICK r \in rs : t \in Told(r) /\ r.source # "MountedVolume"
  <2>1. CASE ToldToRun(rs, t)
    BY <2>1, RunSources DEF ToldToRun
  <2>2. CASE ToldToLibrary(rs, t)
    <3>1. \A i \in 1..Len(LibrarySources) : LibrarySources[i] # "MountedVolume"
      BY GatheredByLibrary
    <3> QED
      BY <2>2, <3>1 DEF ToldToLibrary
  <2> QED
    BY <2>1, <2>2
<1>2. TellsRight(r, now, began)
  BY <1>1, HonestTells
<1> QED
  BY <1>1, <1>2 DEF TellsRight

\* What run is told, the library is told as well.
LEMMA ToldToBoth ==
    ASSUME NEW rs, NEW now, NEW began, Honest(rs, now, began), NEW t, ToldToRun(rs, t)
    PROVE  ToldToLibrary(rs, t)
BY GatheredByLibrary DEF ToldToRun, ToldToLibrary

\* What a claim asserts to be carried is never the key of a stick.
LEMMA CarriedIsNoKey ==
    ASSUME NamesApart, NEW t, NEW now, NEW began, ClaimTold(t, now, began), AssertsCarrier(t),
           NEW d \in Devices
    PROVE  t.value.text \notin KeysOf(d)
<1>1. CarrierTold(t) /\ t.value.text # t.device
  BY DEF AssertsCarrier, ClaimTold
<1>2. t.value.text = Letter \/ \E e \in Devices : t.value.text \in SerialsOf(e)
  BY <1>1 DEF CarrierTold
<1> QED
  BY <1>2 DEF NamesApart

LEMMA KeyUncarried ==
    ASSUME NamesApart, NEW rs, NEW now, NEW began, Honest(rs, now, began),
           NEW d \in Devices, NEW key \in KeysOf(d)
    PROVE  /\ CarriersOf(GatheredFrom(rs), key) = {} /\ CarriersOf(LibraryClaims(rs), key) = {}
           /\ LibraryHome(rs, key) = key
           /\ RunHome(rs, key) = CanonicalKey(VolumesIn(rs), key)
<1>1. ASSUME NEW e PROVE e \notin CarriersOf(GatheredFrom(rs), key)
  <2> SUFFICES ASSUME e \in CarriersOf(GatheredFrom(rs), key) PROVE FALSE
    OBVIOUS
  <2>1. PICK t \in ToSet(GatheredFrom(rs)) : AssertsCarrier(t) /\ t.value.text = key
    BY GatheredByRun, Carriers
  <2>2. ClaimTold(t, now, began)
    BY GatheredByRun, ToldSource
  <2> QED
    BY <2>1, <2>2, CarriedIsNoKey
<1>2. ASSUME NEW e PROVE e \notin CarriersOf(LibraryClaims(rs), key)
  <2> SUFFICES ASSUME e \in CarriersOf(LibraryClaims(rs), key) PROVE FALSE
    OBVIOUS
  <2>1. PICK t \in ToSet(LibraryClaims(rs)) : AssertsCarrier(t) /\ t.value.text = key
    BY GatheredByLibrary, Carriers
  <2>2. ClaimTold(t, now, began)
    BY GatheredByLibrary, ToldSource
  <2> QED
    BY <2>1, <2>2, CarriedIsNoKey
<1>3. Resolve({}, key) = key
  BY DEF Resolve
<1>4. CarriersOf(GatheredFrom(rs), key) = {} /\ CarriersOf(LibraryClaims(rs), key) = {}
  BY <1>1, <1>2
<1> QED
  BY <1>3, <1>4 DEF RunHome, LibraryHome

\* A serial number stays where it is; a GUID becomes at most another GUID.
LEMMA TimedKeysStay ==
    ASSUME NamesApart, NEW rs, NEW now, NEW began, Honest(rs, now, began), NEW d \in Devices
    PROVE  /\ RunHome(rs, SerialNumber[d]) = SerialNumber[d]
           /\ RunHome(rs, GuidOf[d]) \in Guids /\ RunHome(rs, GuidOf[d]) \notin SerialNumbers
<1>1. /\ SerialNumber[d] \in KeysOf(d) /\ GuidOf[d] \in KeysOf(d)
      /\ GuidOf[d] \in Guids
  BY DEF KeysOf, Guids
<1>2. RunHome(rs, SerialNumber[d]) = CanonicalKey(VolumesIn(rs), SerialNumber[d])
  BY <1>1, KeyUncarried
<1>3. RunHome(rs, GuidOf[d]) = CanonicalKey(VolumesIn(rs), GuidOf[d])
  BY <1>1, KeyUncarried
<1>4. \A e \in Devices : SerialNumber[d] \notin {Letter, GuidOf[e], DiskNameOf[e]}
  BY DEF NamesApart, KeysOf
<1>5. CanonicalKey(VolumesIn(rs), SerialNumber[d]) = SerialNumber[d]
  BY <1>4, VolumeMoves
<1>6. CanonicalKey(VolumesIn(rs), GuidOf[d]) \in Guids
  BY <1>1, VolumeMoves DEF Guids
<1>7. \A x \in Guids : x \notin SerialNumbers
  BY DEF Guids, SerialNumbers, NamesApart
<1> QED
  BY <1>2, <1>3, <1>5, <1>6, <1>7

\* Where a time is filed: under the stick it is of, or under a GUID; a jump list's
\* where the serial of its volume leads.
LEMMA TimeFiled ==
    ASSUME NamesApart, NEW rs, NEW now, NEW began, Honest(rs, now, began),
           NEW t, ToldToRun(rs, t), t.attribute \in Timed
    PROVE  /\ TimeTold(t, now, began) /\ t \in Claim
           /\ t.device \in SerialNumbers => RunHome(rs, t.device) = t.device
           /\ t.device \in Guids => RunHome(rs, t.device) \notin SerialNumbers
           /\ t.attribute = "FirstConnected" => t.device \in SerialNumbers
<1>1. ClaimTold(t, now, began)
  BY ToldSource
<1>2. TimeTold(t, now, began) /\ t \in Claim
  BY <1>1 DEF ClaimTold
<1>3. t.device \in SerialNumbers => RunHome(rs, t.device) = t.device
  BY TimedKeysStay DEF SerialNumbers
<1>4. t.device \in Guids => RunHome(rs, t.device) \notin SerialNumbers
  BY TimedKeysStay DEF Guids
<1>5. t.attribute = "FirstConnected" => t.device \in SerialNumbers
  BY <1>2 DEF TimeTold
<1> QED
  BY <1>2, <1>3, <1>4, <1>5

\* Told the host's offset, the tool has the first connection of a stick as the
\* moment it began, and no later one or removal before it.
LEMMA FirstFiled ==
    ASSUME NamesApart, tz = HostOffset, NEW rs, NEW now, NEW began, Honest(rs, now, began),
           NEW c \in ToSet(ByRun(rs)), c.attribute = "FirstConnected"
    PROVE  /\ c.device \in SerialNumbers
           /\ \E first \in 0..now : <<c.device, first>> \in began /\ c.value = Timestamp(first)
<1>1. PICK t : ToldToRun(rs, t) /\ c = FiledAs(t, RunHome(rs, t.device), UtcValue(t, tz))
  BY RunFiles, HostWords
<1>2. /\ c.device = RunHome(rs, t.device) /\ t.attribute = "FirstConnected"
      /\ c.value = UtcValue(t, HostOffset)
  BY <1>1, FiledParts
<1>3. /\ TimeTold(t, now, began) /\ t \in Claim
      /\ t.device \in SerialNumbers /\ c.device = t.device
  BY <1>1, <1>2, TimeFiled DEF Timed
<1>4. FirstTold(t, now, began) /\ ~IsText(t.value) /\ t.source \in {"Usbstor", "SetupApi"}
  BY <1>2, <1>3 DEF TimeTold
<1>5. PICK first \in 0..now :
        /\ <<t.device, first>> \in began
        /\ t.value = Timestamp(IF t.source = "SetupApi" THEN first + HostOffset ELSE first)
  BY <1>4 DEF FirstTold
<1>6. HostOffset \in Int /\ HostOffset # None /\ first \in Int
  BY HostWords
<1>7. c.value = Timestamp(first)
  <2>1. CASE t.source = "SetupApi"
    <3>1. t.value = Timestamp(first + HostOffset) /\ first + HostOffset \in Int
      BY <1>5, <1>6, <2>1
    <3>2. t.value.at = first + HostOffset
      BY <3>1, ValueTyped
    <3>3. c.value = Timestamp(t.value.at - HostOffset)
      BY <1>2, <1>4, <1>6, <2>1 DEF UtcValue, ClockIsLocal
    <3>4. t.value.at - HostOffset = first
      BY <1>6, <3>2
    <3> QED
      BY <3>3, <3>4
  <2>2. CASE t.source = "Usbstor"
    BY <1>2, <1>5, <2>2 DEF UtcValue, ClockIsLocal
  <2> QED
    BY <1>4, <2>1, <2>2
<1> QED
  BY <1>3, <1>5, <1>7

\* A claim that a stick was there, at a time not before it first came.
SeenSince(c, device, now, began) ==
    /\ c.device = device /\ c.attribute \in {"LastConnected", "LastRemoved"}
    /\ \E at \in 0..now : \E first \in 0..at : <<device, first>> \in began /\ c.value = Timestamp(at)

\* A serial is taken to a stick by the event of an arrival of that stick, which
\* is a connection of its own.
LEMMA ArrivalFiled ==
    ASSUME NamesApart, tz \in Int \cup {None}, NEW rs, NEW now, NEW began, Honest(rs, now, began),
           NEW e \in Devices, NEW s \in SerialsOf(e), RunHome(rs, s) \in SerialNumbers
    PROVE  \E c \in ToSet(ByRun(rs)) : SeenSince(c, RunHome(rs, s), now, began)
<1>1. PICK home : home = Resolve(CarriersOf(GatheredFrom(rs), s), s)
  OBVIOUS
<1>2. PICK g \in Devices : RunHome(rs, s) = SerialNumber[g]
  BY DEF SerialNumbers
<1>3. home = SerialNumber[g]
  <2>1. CanonicalKey(VolumesIn(rs), home) = SerialNumber[g]
    BY <1>1, <1>2 DEF RunHome
  <2>2. \A d \in Devices : GuidOf[d] # SerialNumber[g]
    BY DEF NamesApart
  <2> QED
    BY <2>1, <2>2, VolumeMoves
<1>4. SerialNumber[g] # s
  BY DEF NamesApart, KeysOf
<1>5. PICK D : D = CarriersOf(GatheredFrom(rs), s)
  OBVIOUS
<1>6. SerialNumber[g] \in D
  <2>1. (\A d : D # {d}) => home = s
    BY <1>1, <1>5, ResolveEither
  <2>2. \A d : D = {d} => home = d
    BY <1>1, <1>5, ResolveEither
  <2> QED
    BY <1>3, <1>4, <2>1, <2>2
<1>7. PICK t \in ToSet(GatheredFrom(rs)) :
        AssertsCarrier(t) /\ t.value.text = s /\ t.device = SerialNumber[g]
  BY <1>5, <1>6, GatheredByRun, Carriers
<1>8. ToldToRun(rs, t) /\ ClaimTold(t, now, began)
  BY <1>7, GatheredByRun, ToldSource
<1>9. t.source = "PartitionDiag"
  <2>1. CarrierTold(t) /\ t.value.text # t.device
    BY <1>7, <1>8 DEF AssertsCarrier, ClaimTold
  <2>2. s # Letter /\ \A d \in Devices : DiskNameOf[d] # SerialNumber[g]
    BY DEF NamesApart
  <2> QED
    BY <1>7, <2>1, <2>2 DEF CarrierTold
<1>10. PICK r \in rs : t \in Told(r) /\ t.source = r.source
  BY <1>8, ToldSource
<1>11. IsArrival(r, now, began) /\ now \in Nat /\ r.source = "PartitionDiag"
  BY <1>9, <1>10, SourceTells DEF Honest
<1>12. PICK d \in Devices, at \in 0..now : /\ r.serial_number = SerialNumber[d] /\ r.at = at
                                           /\ Since(d, at, began)
  BY <1>11 DEF IsArrival, ArrivalEvent
<1>13. SerialNumber[d] = SerialNumber[g]
  BY <1>7, <1>10, <1>11, <1>12, ArrivalTells
<1>14. SerialNumber[d] # Empty
  BY DEF NamesApart, KeysOf
<1> DEFINE c == ClaimOf(SerialNumber[d], "LastConnected", Timestamp(at), r)
<1>15. c \in Told(r)
  BY <1>11, <1>12, <1>14, ArrivalTells
<1>16. /\ c.device = SerialNumber[g] /\ c.attribute = "LastConnected"
       /\ c.value = Timestamp(at) /\ c.source = "PartitionDiag"
  BY <1>11, <1>13 DEF ClaimOf
<1> HIDE DEF c
<1>17. ToldToRun(rs, c)
  BY <1>11, <1>15, RunSources DEF ToldToRun
<1>18. RunHome(rs, SerialNumber[g]) = SerialNumber[g]
  BY TimedKeysStay
<1> DEFINE f == FiledAs(c, RunHome(rs, c.device), UtcValue(c, tz))
<1>19. f \in ToSet(ByRun(rs))
  BY <1>17, RunFiles
<1>20. f.device = SerialNumber[g] /\ f.attribute = "LastConnected" /\ f.value = Timestamp(at)
  BY <1>16, <1>18, FiledParts DEF UtcValue, ClockIsLocal
<1> HIDE DEF f
<1>21. PICK first \in 0..at : <<SerialNumber[g], first>> \in began
  BY <1>12, <1>13 DEF Since
<1>22. SeenSince(f, SerialNumber[g], now, began)
  BY <1>20, <1>21 DEF SeenSince
<1> QED
  BY <1>2, <1>19, <1>22

\* What is filed under a stick as a connection or removal is of a time there was,
\* and one that is so filed is not before the stick first came.
LEMMA LastFiled ==
    ASSUME NamesApart, tz \in Int \cup {None}, NEW rs, NEW now, NEW began, Honest(rs, now, began),
           NEW c \in ToSet(ByRun(rs)), c.attribute \in {"LastConnected", "LastRemoved"},
           c.device \in SerialNumbers
    PROVE  /\ \E at \in 0..now : c.value = Timestamp(at)
           /\ \E last \in ToSet(ByRun(rs)) : SeenSince(last, c.device, now, began)
<1>1. PICK t : ToldToRun(rs, t) /\ c = FiledAs(t, RunHome(rs, t.device), UtcValue(t, tz))
  BY RunFiles
<1>2. /\ c.device = RunHome(rs, t.device) /\ t.attribute = c.attribute
      /\ c.value = UtcValue(t, tz)
  BY <1>1, FiledParts
<1>3. /\ TimeTold(t, now, began)
      /\ t.device \in SerialNumbers => c.device = t.device
      /\ t.device \notin Guids
  BY <1>1, <1>2, TimeFiled DEF Timed
<1>4. CASE /\ t.device \in SerialNumbers /\ LastTold(t, now, began)
           /\ t.source \notin {"SetupApi", "LinuxKernelLog"}
  <2>1. c.value = t.value
    BY <1>2, <1>4 DEF UtcValue, ClockIsLocal
  <2>2. SeenSince(c, c.device, now, began)
    BY <1>3, <1>4, <2>1 DEF LastTold, SeenSince
  <2> QED
    BY <2>2 DEF SeenSince
<1>5. CASE t.source = "JumpList" /\ \E e \in Devices : t.device \in SerialsOf(e)
  <2>1. PICK e \in Devices : t.device \in SerialsOf(e)
    BY <1>5
  <2>2. PICK s \in SerialsOf(e) : s = t.device
    BY <2>1
  <2>3. \E last \in ToSet(ByRun(rs)) : SeenSince(last, c.device, now, began)
    BY <1>2, <2>2, ArrivalFiled
  <2>4. t.device \notin SerialNumbers
    BY <2>1 DEF NamesApart, KeysOf, SerialNumbers
  <2>5. \E at \in 0..now : t.value = Timestamp(at)
    BY <1>3, <2>4 DEF TimeTold
  <2>6. c.value = t.value
    BY <1>2, <1>5 DEF UtcValue, ClockIsLocal
  <2> QED
    BY <2>3, <2>5, <2>6
<1> QED
  BY <1>2, <1>3, <1>4, <1>5 DEF TimeTold

-----------------------------------------------------------------------------
(***************************************************************************)
(* The theorems on times.                                                  *)
(***************************************************************************)
\* After the audit the findings are those of the claims as run filed them.
LEMMA RunAudited ==
    ASSUME IInv, EntryPoints = {"usb4n6"}, phase = "audited"
    PROVE  /\ Honest(Evidence, clock, Began) /\ tz \in TzChoices /\ tz \in Int \cup {None}
           /\ histories = Correlated(ByRun(Evidence)) /\ ByRun(Evidence) \in Seq(Claim)
           /\ findings = Audit(histories)
<1>1. Evidence \in SUBSET records
  BY DEF Evidence
<1>2. Honest(Evidence, clock, Began)
  BY <1>1, HonestEvidence DEF IInv
<1>3. tz \in TzChoices /\ Reported /\ findings = Audit(histories)
  BY DEF IInv, ToolInv
<1>4. tz \in Int \cup {None}
  BY <1>3, InvestigationAssumption
<1>5. ByRun(Evidence) \in Seq(Claim)
  BY <1>2, <1>4, RunFiles
<1> QED
  BY <1>2, <1>3, <1>4, <1>5 DEF Reported

LEMMA NothingBefore ==
    ASSUME IInv, phase # "audited" PROVE findings = {}
BY DEF IInv, ToolInv

LEMMA AuditParts ==
    ASSUME NEW hs, NEW f
    PROVE  f \in Audit(hs) <=>
             \/ f \in GradeFindings(hs)
             \/ \E device \in DevicesIn(hs) : f \in DeviceFindings(hs, device)
             \/ f \in ReformattingFindings(hs)
<1> DEFINE each == UNION {DeviceFindings(hs, device) : device \in DevicesIn(hs)}
<1>1. f \in each <=> \E device \in DevicesIn(hs) : f \in DeviceFindings(hs, device)
  OBVIOUS
<1>2. Audit(hs) = GradeFindings(hs) \cup each \cup ReformattingFindings(hs)
  BY DEF Audit
<1> HIDE DEF each
<1>3. f \in Audit(hs) <=> f \in GradeFindings(hs) \/ f \in each \/ f \in ReformattingFindings(hs)
  BY <1>2
<1> QED
  BY <1>1, <1>3

\* What a finding of each kind says.
LEMMA OrderingFound ==
    ASSUME NEW hs, NEW f \in Audit(hs), f.code = "USB-IMPOSSIBLE-ORDERING"
    PROVE  \E device \in DevicesIn(hs) : ImpossibleOrdering(hs, device)
<1>1. f \notin GradeFindings(hs)
  BY DEF GradeFindings
<1>2. f \notin ReformattingFindings(hs)
  BY DEF ReformattingFindings
<1>3. PICK device \in DevicesIn(hs) : f \in DeviceFindings(hs, device)
  BY <1>1, <1>2, AuditParts
<1>4. f \in RaisedWhen(ImpossibleOrdering(hs, device),
                       [code |-> "USB-IMPOSSIBLE-ORDERING", device |-> device])
  <2>1. f \notin {[code |-> "USB-VOLUME-ENCRYPTED", device |-> device, kind |-> kind] :
                    kind \in EncryptionKinds(hs, device)}
    OBVIOUS
  <2>2. f \notin RaisedWhen(IsMtp(hs, device), [code |-> "USB-MTP-DEVICE", device |-> device])
    BY DEF RaisedWhen
  <2> QED
    BY <1>3, <2>1, <2>2 DEF DeviceFindings
<1> QED
  BY <1>4 DEF RaisedWhen

LEMMA ConflictFound ==
    ASSUME NEW hs, NEW f \in Audit(hs), f.code = "USB-TIMESTAMP-CONFLICT"
    PROVE  \E k \in DOMAIN hs : /\ hs[k].consistency = "Conflicting"
                                /\ f.attribute = hs[k].attribute
<1>1. f \notin ReformattingFindings(hs)
  BY DEF ReformattingFindings
<1>2. ASSUME NEW device \in DevicesIn(hs) PROVE f \notin DeviceFindings(hs, device)
  <2>1. f \notin {[code |-> "USB-VOLUME-ENCRYPTED", device |-> device, kind |-> kind] :
                    kind \in EncryptionKinds(hs, device)}
    OBVIOUS
  <2>2. f \notin RaisedWhen(IsMtp(hs, device), [code |-> "USB-MTP-DEVICE", device |-> device])
    BY DEF RaisedWhen
  <2>3. f \notin RaisedWhen(ImpossibleOrdering(hs, device),
                            [code |-> "USB-IMPOSSIBLE-ORDERING", device |-> device])
    BY DEF RaisedWhen
  <2> QED
    BY <2>1, <2>2, <2>3 DEF DeviceFindings
<1>3. f \in GradeFindings(hs)
  BY <1>1, <1>2, AuditParts
<1> QED
  BY <1>3 DEF GradeFindings

LEMMA TsReported ==
    ASSUME NEW cs \in Seq(Claim), NEW hs, hs = Correlated(cs), NEW device, NEW attribute, NEW at
    PROVE  at \in TsValues(hs, device, attribute) <=>
             \E c \in ToSet(cs) : /\ c.device = device /\ c.attribute = attribute
                                  /\ ~IsText(c.value) /\ c.value.at = at
<1>1. \A v : v \in ValuesOf(hs, device, attribute) <=>
        \E c \in ToSet(cs) : c.device = device /\ c.attribute = attribute /\ c.value = v
  BY ValuesReported
<1>2. at \in TsValues(hs, device, attribute) <=>
        \E v \in ValuesOf(hs, device, attribute) : ~IsText(v) /\ v.at = at
  BY DEF TsValues
<1> HIDE DEF TsValues
<1> QED
  BY <1>1, <1>2

\* No stick of an honest collection seems to have come after it last came.
LEMMA OrderingRight ==
    ASSUME NamesApart, tz = HostOffset, NEW rs, NEW now, NEW began, Honest(rs, now, began),
           \A p, q \in began : p[1] = q[1] => p = q,
           NEW hs, hs = Correlated(ByRun(rs)), NEW device, ImpossibleOrdering(hs, device)
    PROVE  FALSE
<1> DEFINE first == TsValues(hs, device, "FirstConnected")
           last == TsValues(hs, device, "LastConnected") \cup TsValues(hs, device, "LastRemoved")
<1>1. first # {} /\ last # {} /\ Min(first) > Max(last)
  BY DEF ImpossibleOrdering
<1>2. tz \in Int \cup {None} /\ ByRun(rs) \in Seq(Claim) /\ now \in Nat
  BY HostWords, RunFiles DEF Honest
<1>3. ASSUME NEW at \in first
      PROVE  /\ device \in SerialNumbers
             /\ at \in 0..now /\ <<device, at>> \in began
  <2>1. PICK c \in ToSet(ByRun(rs)) :
            c.device = device /\ c.attribute = "FirstConnected" /\ c.value.at = at
    BY <1>2, TsReported
  <2>2. /\ c.device \in SerialNumbers
        /\ \E f \in 0..now : <<c.device, f>> \in began /\ c.value = Timestamp(f)
    BY <2>1, FirstFiled
  <2>3. \A f \in 0..now : Timestamp(f).at = f
    BY DEF Timestamp
  <2> QED
    BY <2>1, <2>2, <2>3
<1>4. PICK start \in first : TRUE
  BY <1>1
<1>5. device \in SerialNumbers /\ start \in 0..now /\ <<device, start>> \in began
  BY <1>3
<1>6. ASSUME NEW at \in last
      PROVE  /\ at \in 0..now
             /\ \E later \in last : start <= later
  <2>1. PICK c \in ToSet(ByRun(rs)) :
            c.device = device /\ c.attribute \in {"LastConnected", "LastRemoved"} /\ c.value.at = at
    BY <1>2, TsReported
  <2>2. /\ \E t \in 0..now : c.value = Timestamp(t)
        /\ \E z \in ToSet(ByRun(rs)) : SeenSince(z, c.device, now, began)
    BY <1>2, <1>5, <2>1, LastFiled
  <2>3. at \in 0..now
    BY <2>1, <2>2 DEF Timestamp
  <2>4. PICK z \in ToSet(ByRun(rs)) : SeenSince(z, device, now, began)
    BY <2>1, <2>2
  <2>5. PICK t \in 0..now : \E f \in 0..t :
            <<device, f>> \in began /\ z.value = Timestamp(t)
    BY <2>4 DEF SeenSince
  <2>6. PICK f \in 0..t : <<device, f>> \in began /\ z.value = Timestamp(t)
    BY <2>5
  <2>7. f = start
    <3>1. <<device, f>> = <<device, start>>
      BY <1>5, <2>6
    <3> QED
      BY <3>1
  <2>8. t \in last
    <3>1. z.value.at = t /\ ~IsText(z.value)
      BY <2>5, ValueTyped
    <3> QED
      BY <1>2, <2>4, <3>1, TsReported DEF SeenSince
  <2>9. start <= t
    BY <2>7, <2>6
  <2> QED
    BY <2>3, <2>8, <2>9
<1> HIDE DEF first, last
<1>7. first \in SUBSET (0..now) /\ last \in SUBSET (0..now)
  BY <1>3, <1>6
<1>8. IsFiniteSet(0..now) /\ (0..now) \in SUBSET Int
  BY <1>2, FS_Interval
<1>9. IsFiniteSet(first) /\ IsFiniteSet(last) /\ first \in SUBSET Int /\ last \in SUBSET Int
  BY <1>7, <1>8, FS_Subset
<1>10. Min(first) <= start /\ Min(first) \in first
  BY <1>1, <1>4, <1>9, GreatestExists
<1>11. Max(last) \in last /\ \A at \in last : at <= Max(last)
  BY <1>1, <1>9, GreatestExists
<1>12. PICK later \in last : start <= later
  BY <1>6, <1>11
<1>13. start \in Int /\ Min(first) \in Int /\ Max(last) \in Int
  BY <1>5, <1>9, <1>10, <1>11
<1>14. later \in Int /\ later <= Max(last)
  BY <1>9, <1>11, <1>12
<1> QED
  BY <1>1, <1>10, <1>12, <1>13, <1>14

(***************************************************************************)
(* Told the host's UTC offset, usb4n6 never reports that a first           *)
(* connection is after every last one: not for any number of sticks, any   *)
(* history and any collection of the artifacts it left (report.rs:218).    *)
(***************************************************************************)
THEOREM NoFalseOrderingAlways ==
    ASSUME NamesApart, EntryPoints = {"usb4n6"}, TzChoices = {HostOffset}
    PROVE  Spec => []NoFalseOrdering
<1>1. IInv => NoFalseOrdering
  <2> SUFFICES ASSUME IInv, NEW f \in findings, f.code = "USB-IMPOSSIBLE-ORDERING"
               PROVE  FALSE
    BY DEF NoFalseOrdering
  <2>1. phase = "audited"
    BY NothingBefore
  <2>2. /\ Honest(Evidence, clock, Began) /\ tz = HostOffset
        /\ histories = Correlated(ByRun(Evidence)) /\ findings = Audit(histories)
    BY <2>1, RunAudited
  <2>3. PICK device : ImpossibleOrdering(histories, device)
    BY <2>2, OrderingFound
  <2>4. \A p, q \in Began : p[1] = q[1] => p = q
    BY DEF IInv, HostInv, OneBeginning
  <2> QED
    BY <2>2, <2>3, <2>4, OrderingRight
<1> QED
  BY <1>1, HonestRecords, PTL

\* With one value nothing conflicts.
LEMMA OneValueAgrees ==
    ASSUME NEW values, NEW x, ReportedValues(values) = {x}
    PROVE  Grade(values) # "Conflicting"
<1>1. Cardinality(ReportedValues(values)) = 1
  BY FS_Singleton
<1> QED
  BY <1>1 DEF Grade

(***************************************************************************)
(* Told the host's UTC offset, usb4n6 never reports a conflict between the *)
(* times of a first connection: the local time of setupapi and the UTC     *)
(* time of the registry are read as the same moment (tz.rs:5-6).           *)
(***************************************************************************)
THEOREM FirstConnectionAgreesAlways ==
    ASSUME NamesApart, EntryPoints = {"usb4n6"}, TzChoices = {HostOffset}
    PROVE  Spec => []FirstConnectionAgrees
<1>1. IInv => FirstConnectionAgrees
  <2> SUFFICES ASSUME IInv, NEW f \in findings, f.code = "USB-TIMESTAMP-CONFLICT",
                      f.attribute = "FirstConnected"
               PROVE  FALSE
    BY DEF FirstConnectionAgrees
  <2>1. phase = "audited"
    BY NothingBefore
  <2>2. /\ Honest(Evidence, clock, Began) /\ tz = HostOffset /\ ByRun(Evidence) \in Seq(Claim)
        /\ histories = Correlated(ByRun(Evidence)) /\ findings = Audit(histories)
    BY <2>1, RunAudited
  <2>3. \A p, q \in Began : p[1] = q[1] => p = q
    BY DEF IInv, HostInv, OneBeginning
  <2>4. PICK k \in DOMAIN histories :
            histories[k].consistency = "Conflicting" /\ histories[k].attribute = "FirstConnected"
    BY <2>2, ConflictFound
  <2>5. /\ histories[k].values \in Seq(ProvenancedValue) /\ histories[k].values # <<>>
        /\ histories[k].consistency = Grade(histories[k].values)
    BY <2>2, EntryHolds
  <2>6. PICK values : values = histories[k].values
    OBVIOUS
  <2>7. \A v : v \in ReportedValues(values) <=>
          \E c \in ToSet(ByRun(Evidence)) : /\ c.device = histories[k].device
                                            /\ c.attribute = "FirstConnected" /\ c.value = v
    BY <2>2, <2>4, <2>6, ValuesReported
  <2>8. \E x : x \in ReportedValues(values)
    <3>1. values[1] \in ToSet(values)
      BY <2>5, <2>6 DEF ToSet
    <3> QED
      BY <3>1 DEF ReportedValues
  <2>9. PICK x : x \in ReportedValues(values)
    BY <2>8
  <2>10. ASSUME NEW v \in ReportedValues(values)
         PROVE  \E first : <<histories[k].device, first>> \in Began /\ v = Timestamp(first)
    <3>1. PICK c \in ToSet(ByRun(Evidence)) : /\ c.device = histories[k].device
                                              /\ c.attribute = "FirstConnected" /\ c.value = v
      BY <2>7
    <3>2. \E first \in 0..clock : <<c.device, first>> \in Began /\ c.value = Timestamp(first)
      BY <2>2, <3>1, FirstFiled
    <3> QED
      BY <3>1, <3>2
  <2>11. PICK first : <<histories[k].device, first>> \in Began /\ x = Timestamp(first)
    BY <2>9, <2>10
  <2>12. ASSUME NEW v \in ReportedValues(values) PROVE v = x
    <3>1. PICK other : <<histories[k].device, other>> \in Began /\ v = Timestamp(other)
      BY <2>10
    <3>2. <<histories[k].device, other>> = <<histories[k].device, first>>
      BY <2>3, <2>11, <3>1
    <3> QED
      BY <2>11, <3>1, <3>2
  <2>13. ReportedValues(values) = {x}
    BY <2>9, <2>12
  <2> QED
    BY <2>4, <2>5, <2>6, <2>13, OneValueAgrees
<1> QED
  BY <1>1, HonestRecords, PTL

-----------------------------------------------------------------------------
(***************************************************************************)
(* The theorems on volumes and what was found on them.                     *)
(***************************************************************************)
\* After the audit, by whichever entry point, the findings are of the evidence.
LEMMA Audited ==
    ASSUME IInv, phase = "audited"
    PROVE  /\ Honest(Evidence, clock, Began) /\ tz \in Int \cup {None}
           /\ findings = Audit(histories)
           /\ ByRun(Evidence) \in Seq(Claim) /\ ByLibrary(Evidence) \in Seq(Claim)
           /\ histories = Correlated(ByRun(Evidence)) \/ histories = Correlated(ByLibrary(Evidence))
<1>1. Evidence \in SUBSET records
  BY DEF Evidence
<1>2. Honest(Evidence, clock, Began)
  BY <1>1, HonestEvidence DEF IInv
<1>3. tz \in TzChoices /\ Reported /\ findings = Audit(histories)
  BY DEF IInv, ToolInv
<1>4. tz \in Int \cup {None}
  BY <1>3, InvestigationAssumption
<1>5. ByRun(Evidence) \in Seq(Claim) /\ ByLibrary(Evidence) \in Seq(Claim)
  BY <1>2, <1>4, RunFiles, LibraryFiles
<1> QED
  BY <1>2, <1>3, <1>4, <1>5 DEF Reported

LEMMA TextReported ==
    ASSUME NEW cs \in Seq(Claim), NEW hs, hs = Correlated(cs), NEW device, NEW attribute, NEW text
    PROVE  text \in TextValues(hs, device, attribute) <=>
             \E c \in ToSet(cs) : /\ c.device = device /\ c.attribute = attribute
                                  /\ IsText(c.value) /\ c.value.text = text
<1>1. \A v : v \in ValuesOf(hs, device, attribute) <=>
        \E c \in ToSet(cs) : c.device = device /\ c.attribute = attribute /\ c.value = v
  BY ValuesReported
<1>2. text \in TextValues(hs, device, attribute) <=>
        \E v \in ValuesOf(hs, device, attribute) : IsText(v) /\ v.text = text
  BY DEF TextValues
<1> HIDE DEF TextValues
<1> QED
  BY <1>1, <1>2

\* Only finitely many serials are seen with a label.
LEMMA SerialsFinite ==
    ASSUME NEW cs \in Seq(Claim), NEW hs, hs = Correlated(cs), NEW name
    PROVE  IsFiniteSet(SerialsSeenWith(hs, name))
<1> DEFINE textAt == [i \in 1..Len(cs) |-> cs[i].value.text]
           T == {textAt[i] : i \in 1..Len(cs)}
<1>1. Len(cs) \in Nat /\ \A c \in ToSet(cs) : \E i \in 1..Len(cs) : cs[i] = c
  BY ListedClaims
<1>2. IsFiniteSet(1..Len(cs)) /\ DOMAIN textAt = 1..Len(cs)
  BY <1>1, PlacesFinite
<1>3. textAt = [i \in 1..Len(cs) |-> textAt[i]] /\ \A i \in 1..Len(cs) : textAt[i] = cs[i].value.text
  OBVIOUS
<1> HIDE DEF textAt
<1>4. IsFiniteSet(T)
  BY <1>2, <1>3, ImageFinite
<1>5. ASSUME NEW s \in SerialsSeenWith(hs, name) PROVE s \in T
  <2>1. PICK device : s \in TextValues(hs, device, "VolumeSerial")
    BY DEF SerialsSeenWith
  <2>2. PICK c \in ToSet(cs) : c.value.text = s
    BY <2>1, TextReported
  <2> QED
    BY <1>1, <1>3, <2>2
<1>6. SerialsSeenWith(hs, name) \in SUBSET T
  BY <1>5
<1> QED
  BY <1>4, <1>6, FS_Subset

FiledTogether(cs, serial, name) ==
    \E a, b \in ToSet(cs) :
        /\ a.device = b.device
        /\ a.attribute = "VolumeSerial" /\ IsText(a.value) /\ a.value.text = serial
        /\ b.attribute = "VolumeName" /\ IsText(b.value) /\ b.value.text = name

SeveralFiled(cs, serials, name) ==
    Cardinality(serials) >= 2 /\ \A s \in serials : FiledTogether(cs, s, name)

\* Serials filed with a label, wherever they are, are found together.
LEMMA SerialsFound ==
    ASSUME NEW cs \in Seq(Claim), NEW hs, hs = Correlated(cs), NEW name, NEW serials,
           SeveralFiled(cs, serials, name)
    PROVE  \E f \in Audit(hs) : /\ f.code = "USB-VOLUME-REFORMATTED" /\ f.label = name
                                /\ serials \subseteq f.serials
<1> DEFINE seen == SerialsSeenWith(hs, name)
           f == [code |-> "USB-VOLUME-REFORMATTED", label |-> name, serials |-> seen]
<1>1. ASSUME NEW s \in serials
      PROVE  \E device \in DevicesIn(hs) : /\ s \in TextValues(hs, device, "VolumeSerial")
                                           /\ name \in TextValues(hs, device, "VolumeName")
  <2>1. PICK a \in ToSet(cs), b \in ToSet(cs) :
              /\ a.device = b.device
              /\ a.attribute = "VolumeSerial" /\ IsText(a.value) /\ a.value.text = s
              /\ b.attribute = "VolumeName" /\ IsText(b.value) /\ b.value.text = name
    BY DEF SeveralFiled, FiledTogether
  <2>2. a.device \in DevicesIn(hs)
    BY ValuesReported
  <2>3. s \in TextValues(hs, a.device, "VolumeSerial")
    BY <2>1, TextReported
  <2>4. name \in TextValues(hs, a.device, "VolumeName")
    BY <2>1, TextReported
  <2> QED
    BY <2>2, <2>3, <2>4
<1>2. serials \in SUBSET seen
  BY <1>1 DEF SerialsSeenWith
<1>3. IsFiniteSet(seen)
  BY SerialsFinite
<1> HIDE DEF seen
<1>4. /\ IsFiniteSet(serials) /\ Cardinality(serials) <= Cardinality(seen)
      /\ Cardinality(serials) \in Nat /\ Cardinality(seen) \in Nat
  BY <1>2, <1>3, FS_Subset, FS_CardinalityType
<1>5. Cardinality(seen) >= 2 /\ Cardinality(serials) # 0
  BY <1>4 DEF SeveralFiled
<1>6. serials # {}
  BY <1>5, FS_EmptySet
<1>7. name \in UNION {TextValues(hs, d, "VolumeName") : d \in DevicesIn(hs)}
  BY <1>1, <1>6
<1>8. f \in ReformattingFindings(hs)
  BY <1>5, <1>7 DEF ReformattingFindings, seen
<1>9. f \in Audit(hs)
  BY <1>8, AuditParts
<1> QED
  BY <1>2, <1>9

\* The serial and the label of a cached volume are filed under one key.
LEMMA CachedPairFiled ==
    ASSUME NEW rs, NEW now, NEW began, Honest(rs, now, began), tz \in Int \cup {None},
           NEW serial \in Names, NEW name \in Labels, name # Empty, CachedVolume(serial, name) \in rs,
           NEW cs, cs = ByRun(rs) \/ cs = ByLibrary(rs)
    PROVE  FiledTogether(cs, serial, name)
<1>1. PICK r \in rs : r = CachedVolume(serial, name)
  OBVIOUS
<1>2. r.source = "EmdMgmt" /\ r.serial = serial /\ r.label = name
  BY <1>1 DEF CachedVolume
<1>3. IsCachedVolume(r) /\ now \in Nat
  BY <1>2, SourceTells DEF Honest
<1> DEFINE s == ClaimOf(r.serial, "VolumeSerial", Text(r.serial), r)
           n == ClaimOf(r.serial, "VolumeName", Text(r.label), r)
<1>4. s \in Told(r) /\ n \in Told(r)
  BY <1>2, <1>3, VolumeCacheTells
<1>5. /\ s.device = serial /\ s.attribute = "VolumeSerial" /\ s.value = Text(serial)
      /\ n.device = serial /\ n.attribute = "VolumeName" /\ n.value = Text(name)
  BY <1>2 DEF ClaimOf
<1>6. /\ IsText(Text(serial)) /\ Text(serial).text = serial
      /\ IsText(Text(name)) /\ Text(name).text = name
  BY DEF Text, IsText
<1> HIDE DEF s, n
<1>7. ToldToRun(rs, s) /\ ToldToRun(rs, n)
  BY <1>2, <1>4, RunSources DEF ToldToRun
<1>8. CASE cs = ByRun(rs)
  <2>1. UtcValue(s, tz) = s.value /\ UtcValue(n, tz) = n.value
    BY <1>5, <1>6 DEF UtcValue
  <2>2. /\ FiledAs(s, RunHome(rs, serial), s.value) \in ToSet(cs)
        /\ FiledAs(n, RunHome(rs, serial), n.value) \in ToSet(cs)
    BY <1>5, <1>7, <1>8, <2>1, RunFiles
  <2> QED
    BY <1>5, <1>6, <2>2, FiledParts DEF FiledTogether
<1>9. CASE cs = ByLibrary(rs)
  <2>1. ToldToLibrary(rs, s) /\ ToldToLibrary(rs, n)
    BY <1>7, ToldToBoth
  <2>2. /\ FiledAs(s, LibraryHome(rs, serial), s.value) \in ToSet(cs)
        /\ FiledAs(n, LibraryHome(rs, serial), n.value) \in ToSet(cs)
    BY <1>5, <1>9, <2>1, LibraryFiles
  <2> QED
    BY <1>5, <1>6, <2>2, FiledParts DEF FiledTogether
<1> QED
  BY <1>8, <1>9

(***************************************************************************)
(* A reformat that kept the label is found whenever the SOFTWARE hive is   *)
(* among the evidence, by either entry point and whatever other evidence   *)
(* re-keys the cached volumes: both claims of one entry move together      *)
(* (report.rs:93-98).  A volume without a label has none to keep.          *)
(***************************************************************************)
THEOREM ReformatFoundAlways ==
    ASSUME Empty \notin Labels
    PROVE  Spec => []ReformatFound
<1>1. IInv => ReformatFound
  <2> SUFFICES ASSUME IInv, phase = "audited", "SOFTWARE" \in files, NEW name \in Labels,
                      Cardinality(SerialsLabelled(name)) >= 2
               PROVE  \E f \in findings : /\ f.code = "USB-VOLUME-REFORMATTED" /\ f.label = name
                                          /\ SerialsLabelled(name) \subseteq f.serials
    BY DEF ReformatFound
  <2>1. /\ Honest(Evidence, clock, Began) /\ tz \in Int \cup {None}
        /\ findings = Audit(histories)
        /\ ByRun(Evidence) \in Seq(Claim) /\ ByLibrary(Evidence) \in Seq(Claim)
        /\ histories = Correlated(ByRun(Evidence)) \/ histories = Correlated(ByLibrary(Evidence))
    BY Audited
  <2>2. PICK cs \in Seq(Claim) :
            /\ cs = ByRun(Evidence) \/ cs = ByLibrary(Evidence)
            /\ histories = Correlated(cs)
    BY <2>1
  <2>3. PICK serials : serials = SerialsLabelled(name)
    OBVIOUS
  <2>4. ASSUME NEW s \in serials
        PROVE  s \in Names /\ CachedVolume(s, name) \in Evidence
    <3>1. PICK pair \in truth.labelled : pair[1] = name /\ pair[2] = s
      BY <2>3 DEF SerialsLabelled
    <3>2. pair \in Labels \X Names
      BY DEF IInv, HostInv, HostTypes, Truths
    <3>3. CachedVolume(s, name) \in records
      BY <3>1 DEF IInv, HostInv, LabelsCached
    <3>4. CachedVolume(s, name).locator = "SOFTWARE"
      BY DEF CachedVolume
    <3> QED
      BY <3>1, <3>2, <3>3, <3>4 DEF Evidence
  <2>5. \A s \in serials : FiledTogether(cs, s, name)
    BY <2>1, <2>2, <2>4, CachedPairFiled
  <2>6. SeveralFiled(cs, serials, name)
    BY <2>3, <2>5 DEF SeveralFiled
  <2>7. \E f \in Audit(histories) : /\ f.code = "USB-VOLUME-REFORMATTED" /\ f.label = name
                                    /\ serials \subseteq f.serials
    <3>1. PICK hs : hs = histories
      OBVIOUS
    <3>2. hs = Correlated(cs)
      BY <2>2, <3>1
    <3>3. \E f \in Audit(hs) : /\ f.code = "USB-VOLUME-REFORMATTED" /\ f.label = name
                              /\ serials \subseteq f.serials
      BY <3>2, <2>6, SerialsFound
    <3> QED
      BY <3>1, <3>3
  <2> QED
    BY <2>1, <2>3, <2>7
<1> QED
  BY <1>1, HonestRecords, PTL

\* An entry has claims of its own.
LEMMA EntryHasClaim ==
    ASSUME NEW cs \in Seq(Claim), NEW hs, hs = Correlated(cs), NEW k \in DOMAIN hs
    PROVE  \E c \in ToSet(cs) : c.device = hs[k].device /\ c.attribute = hs[k].attribute
<1>1. \A i \in DOMAIN hs : \A pv : pv \in ToSet(hs[i].values) <=>
        \E c \in ToSet(cs) : GroupOf(c) = GroupOf(hs[i]) /\ pv = Provenanced(c)
  BY EntryHolds
<1>5. \A i \in DOMAIN hs : hs[i].values \in Seq(ProvenancedValue) /\ hs[i].values # <<>>
  BY EntryHolds
<1>2. PICK values : values = hs[k].values
  OBVIOUS
<1>3. values[1] \in ToSet(values)
  BY <1>5, <1>2 DEF ToSet
<1>4. PICK c \in ToSet(cs) : GroupOf(c) = GroupOf(hs[k])
  BY <1>1, <1>2, <1>3
<1> QED
  BY <1>4, SameGroup

\* The registry entry of a collected host.
LEMMA RegistryHonest ==
    ASSUME NEW rs, NEW now, NEW began, Honest(rs, now, began), NEW r \in rs, r.source = "Usbstor"
    PROVE  /\ r.serial \in SerialNumbers /\ r.locator = "SYSTEM"
           /\ \A c \in Told(r) : c.device = r.serial
           /\ r.drive_letter = Letter =>
                ClaimOf(r.serial, "DriveLetter", Text(Letter), r) \in Told(r)
<1>1. IsRegistryEntry(r, now) /\ <<r.serial, r.first_install>> \in began /\ now \in Nat
  BY SourceTells DEF Honest
<1>2. r.serial \in SerialNumbers /\ r.locator = "SYSTEM"
  BY <1>1 DEF IsRegistryEntry, RegistryEntry, Connection, SerialNumbers
<1> QED
  BY <1>1, <1>2, RegistryTells

\* The only stick ever carried is the only carrier of the letter.
LEMMA LetterCarrier ==
    ASSUME NamesApart, HostInv, NEW rs \in SUBSET records,
           \A r \in records : r.locator = "SYSTEM" => r \in rs,
           NEW d \in Devices, {pair[1] : pair \in truth.carried} = {SerialNumber[d]}
    PROVE  CarriersOf(LibraryClaims(rs), Letter) = {SerialNumber[d]}
<1>1. Honest(rs, clock, Began)
  BY HonestEvidence
<1>2. ASSUME NEW r \in records, r.source = "Usbstor" PROVE r.serial = SerialNumber[d]
  <2>1. PICK pair \in truth.carried : pair[1] = r.serial
    BY <1>2 DEF HostInv, LetterHeld
  <2> QED
    BY <2>1
<1>3. ASSUME NEW x \in CarriersOf(LibraryClaims(rs), Letter) PROVE x = SerialNumber[d]
  <2>1. PICK t \in ToSet(LibraryClaims(rs)) :
            AssertsCarrier(t) /\ t.value.text = Letter /\ t.device = x
    BY <1>1, GatheredByLibrary, Carriers
  <2>2. ToldToLibrary(rs, t)
    BY <1>1, GatheredByLibrary
  <2>3. ClaimTold(t, clock, Began)
    BY <1>1, <2>2, ToldSource
  <2>4. CarrierTold(t) /\ t.value.text # t.device
    BY <2>1, <2>3 DEF AssertsCarrier, ClaimTold
  <2>5. t.source = "Usbstor"
    BY <2>1, <2>4 DEF CarrierTold, NamesApart
  <2>6. PICK r \in rs : t \in Told(r) /\ t.source = r.source
    BY <1>1, <2>2, ToldSource
  <2>7. t.device = r.serial
    BY <1>1, <2>5, <2>6, RegistryHonest
  <2> QED
    BY <1>2, <2>1, <2>5, <2>6, <2>7
<1>4. SerialNumber[d] \in CarriersOf(LibraryClaims(rs), Letter)
  <2>1. PICK u \in records : u.source = "Usbstor" /\ u.drive_letter = Letter
    BY DEF HostInv, LetterHeld
  <2>2. Honest(records, clock, Began)
    BY HonestEvidence
  <2>3. u.locator = "SYSTEM" /\ u.serial = SerialNumber[d]
    BY <1>2, <2>1, <2>2, RegistryHonest
  <2>4. u \in rs
    BY <2>3
  <2> DEFINE c == ClaimOf(u.serial, "DriveLetter", Text(Letter), u)
  <2>5. c \in Told(u)
    BY <1>1, <2>1, <2>4, RegistryHonest
  <2>6. u.serial # Letter
    BY <2>3 DEF NamesApart, KeysOf
  <2>7. AssertsCarrier(c) /\ c.value.text = Letter /\ c.device = u.serial
    BY <2>6 DEF AssertsCarrier, ClaimOf, Text, IsText
  <2> HIDE DEF c
  <2>8. \E i \in 1..Len(LibrarySources) : u.source = LibrarySources[i]
    <3>1. PICK i \in 1..Len(SourcesInRun) : SourcesInRun[i] = "Usbstor"
      BY RunSources
    <3>2. PICK j \in 1..Len(LibrarySources) : LibrarySources[j] = SourcesInRun[i]
      BY <1>1, GatheredByLibrary
    <3> QED
      BY <2>1, <3>1, <3>2
  <2>9. ToldToLibrary(rs, c)
    BY <2>4, <2>5, <2>8 DEF ToldToLibrary
  <2>10. c \in ToSet(LibraryClaims(rs)) /\ LibraryClaims(rs) \in Seq(Claim)
    BY <1>1, <2>9, GatheredByLibrary
  <2> QED
    BY <2>3, <2>7, <2>10, Carriers
<1> QED
  BY <1>3, <1>4

(***************************************************************************)
(* With the SYSTEM hive in evidence and one stick only ever mounted, every *)
(* browsed folder is reported under that stick: the claims a shellbag      *)
(* makes about its own letter do not stand in the way (shellbag.rs:66).    *)
(***************************************************************************)
THEOREM FolderAttributedAlways ==
    ASSUME NamesApart
    PROVE  Spec => []FolderAttributed
<1>1. IInv => FolderAttributed
  <2> SUFFICES ASSUME IInv, phase = "audited", "SYSTEM" \in files, NEW d \in Devices,
                      {pair[1] : pair \in truth.carried} = {SerialNumber[d]},
                      NEW k \in DOMAIN histories, histories[k].attribute = "BrowsedFolder"
               PROVE  histories[k].device = SerialNumber[d]
    BY DEF FolderAttributed
  <2>1. /\ Honest(Evidence, clock, Began) /\ tz \in Int \cup {None}
        /\ ByRun(Evidence) \in Seq(Claim) /\ ByLibrary(Evidence) \in Seq(Claim)
        /\ histories = Correlated(ByRun(Evidence)) \/ histories = Correlated(ByLibrary(Evidence))
    BY Audited
  <2>2. PICK cs \in Seq(Claim) :
            /\ cs = ByRun(Evidence) \/ cs = ByLibrary(Evidence)
            /\ histories = Correlated(cs)
    BY <2>1
  <2>3. PICK c \in ToSet(cs) : c.device = histories[k].device /\ c.attribute = "BrowsedFolder"
    <3>1. PICK hs : hs = histories
      OBVIOUS
    <3>2. hs = Correlated(cs) /\ k \in DOMAIN hs
      BY <2>2, <3>1
    <3> QED
      BY <3>1, <3>2, EntryHasClaim
  <2>4. CASE cs = ByRun(Evidence)
    <3>1. PICK t : ToldToRun(Evidence, t) /\ t.attribute = "BrowsedFolder"
      BY <2>1, <2>3, <2>4, RunFiles, FiledParts
    <3>2. t.source = "Shellbag"
      BY <2>1, <3>1, ToldSource DEF ClaimTold
    <3>3. PICK r \in Evidence : /\ t \in Told(r)
                                /\ \E i \in 1..Len(SourcesInRun) : r.source = SourcesInRun[i]
      BY <3>1 DEF ToldToRun
    <3>4. r.source \notin {"MountedVolume", "Shellbag"}
      BY <3>3, RunSources
    <3>5. t.source = r.source
      BY <2>1, <3>3, <3>4, HonestTells DEF TellsRight
    <3> QED
      BY <3>2, <3>4, <3>5
  <2>5. CASE cs = ByLibrary(Evidence)
    <3>1. PICK t : /\ ToldToLibrary(Evidence, t)
                   /\ c = FiledAs(t, LibraryHome(Evidence, t.device), t.value)
      BY <2>1, <2>3, <2>5, LibraryFiles
    <3>2. t.device = Letter
      BY <2>1, <2>3, <3>1, ToldSource, FiledParts DEF ClaimTold
    <3>3. CarriersOf(LibraryClaims(Evidence), Letter) = {SerialNumber[d]}
      <4>1. \A r \in records : r.locator = "SYSTEM" => r \in Evidence
        BY DEF Evidence
      <4>2. Evidence \in SUBSET records
        BY DEF Evidence
      <4> QED
        BY <4>1, <4>2, LetterCarrier DEF IInv
    <3>4. LibraryHome(Evidence, Letter) = SerialNumber[d]
      BY <3>3, ResolveEither DEF LibraryHome
    <3> QED
      BY <2>3, <3>1, <3>2, <3>4, FiledParts
  <2> QED
    BY <2>2, <2>4, <2>5
<1> QED
  BY <1>1, HonestRecords, PTL

\* What either entry point gathers is told by the records, and by the run's
\* sources in any case.
LEMMA GatheredEither ==
    ASSUME NEW rs, NEW now, NEW began, Honest(rs, now, began),
           NEW cs, cs = GatheredFrom(rs) \/ cs = LibraryClaims(rs)
    PROVE  /\ cs \in Seq(Claim)
           /\ \A t \in ToSet(cs) : ClaimTold(t, now, began)
           /\ \A t : ToldToRun(rs, t) => t \in ToSet(cs)
BY GatheredByRun, GatheredByLibrary, ToldSource, ToldToBoth

\* Only a stick that had the serial, or its disk, is taken for its carrier.
LEMMA SerialCarrier ==
    ASSUME NamesApart, NEW t, NEW now, NEW began, ClaimTold(t, now, began), AssertsCarrier(t),
           NEW e \in Devices, t.value.text \in SerialsOf(e)
    PROVE  \E g \in Devices : /\ t.value.text \in SerialsOf(g)
                              /\ t.device \in {SerialNumber[g], DiskNameOf[g]}
<1>1. CarrierTold(t) /\ t.value.text # t.device
  BY DEF AssertsCarrier, ClaimTold
<1>2. t.value.text # Letter
  BY DEF NamesApart
<1> QED
  BY <1>1, <1>2 DEF CarrierTold

\* The MountedDevices bridge moves the keys of a stick among themselves, and no
\* volume serial.
LEMMA BridgeKeepsStick ==
    ASSUME NamesApart, SticksApart, NEW rs, NEW now, NEW began, Honest(rs, now, began),
           NEW g \in Devices
    PROVE  /\ \A key \in KeysOf(g) : CanonicalKey(VolumesIn(rs), key) \in KeysOf(g)
           /\ \A s \in SerialsOf(g) : CanonicalKey(VolumesIn(rs), s) = s
<1>1. ASSUME NEW key \in KeysOf(g) PROVE CanonicalKey(VolumesIn(rs), key) \in KeysOf(g)
  <2>1. CASE CanonicalKey(VolumesIn(rs), key) = key
    BY <1>1, <2>1
  <2>2. ASSUME NEW d \in Devices, NEW e \in Devices, key \in {Letter, GuidOf[d], DiskNameOf[d]},
               SignatureOf[d] = SignatureOf[e], CanonicalKey(VolumesIn(rs), key) = GuidOf[e]
        PROVE  CanonicalKey(VolumesIn(rs), key) \in KeysOf(g)
    <3>1. key # Letter
      BY <1>1 DEF NamesApart
    <3>2. key \in KeysOf(d)
      BY <2>2, <3>1 DEF KeysOf
    <3>3. d = g
      BY <1>1, <3>2 DEF SticksApart
    <3>4. e = g
      BY <2>2, <3>3 DEF SticksApart
    <3> QED
      BY <2>2, <3>4 DEF KeysOf
  <2> QED
    BY <2>1, <2>2, VolumeMoves
<1>2. ASSUME NEW s \in SerialsOf(g) PROVE CanonicalKey(VolumesIn(rs), s) = s
  <2>1. \A d \in Devices : s \notin KeysOf(d)
    BY <1>2 DEF NamesApart
  <2>2. s # Letter
    BY <1>2 DEF NamesApart
  <2>3. \A d \in Devices : s \notin {Letter, GuidOf[d], DiskNameOf[d]}
    BY <2>1, <2>2 DEF KeysOf
  <2> QED
    BY <2>3, VolumeMoves
<1> QED
  BY <1>1, <1>2

\* The home of a volume serial, by run or by the library, is a key of g.
FiledUnder(rs, cs, s, g) ==
    LET home == Resolve(CarriersOf(cs, s), s)
    IN  home \in KeysOf(g) \/ CanonicalKey(VolumesIn(rs), home) \in KeysOf(g)

\* What is known only by a volume serial is filed under a stick when one key was
\* seen with that serial, and it is that stick's.
LEMMA SerialHome ==
    ASSUME NamesApart, SticksApart, NEW rs, NEW now, NEW began, Honest(rs, now, began),
           NEW cs, cs = GatheredFrom(rs) \/ cs = LibraryClaims(rs),
           NEW e \in Devices, NEW s \in SerialsOf(e), NEW g \in Devices, FiledUnder(rs, cs, s, g)
    PROVE  s \in SerialsOf(g) /\ \E x \in KeysOf(g) : CarriersOf(cs, s) = {x}
<1>1. PICK home : /\ home = Resolve(CarriersOf(cs, s), s)
                  /\ home \in KeysOf(g) \/ CanonicalKey(VolumesIn(rs), home) \in KeysOf(g)
  BY DEF FiledUnder
<1>2. s \notin KeysOf(g) /\ CanonicalKey(VolumesIn(rs), s) = s
  BY BridgeKeepsStick DEF NamesApart
<1>3. PICK D : D = CarriersOf(cs, s)
  OBVIOUS
<1>4. (\A d : D # {d}) => home = s
  BY <1>1, <1>3, ResolveEither
<1>5. \A d : D = {d} => home = d
  BY <1>1, <1>3, ResolveEither
<1>6. PICK x : D = {x}
  BY <1>1, <1>2, <1>4
<1>7. home = x
  BY <1>5, <1>6
<1>8. cs \in Seq(Claim) /\ \A t \in ToSet(cs) : ClaimTold(t, now, began)
  BY GatheredEither
<1>9. PICK t \in ToSet(cs) : AssertsCarrier(t) /\ t.value.text = s /\ t.device = x
  <2>1. x \in CarriersOf(cs, s)
    BY <1>3, <1>6
  <2>2. x \in CarriersOf(cs, s) <=>
            \E t \in ToSet(cs) : AssertsCarrier(t) /\ t.value.text = s /\ t.device = x
    BY <1>8, Carriers
  <2> QED
    BY ONLY <2>1, <2>2
<1>10. ClaimTold(t, now, began)
  BY <1>8
<1>11. PICK h \in Devices : s \in SerialsOf(h) /\ x \in {SerialNumber[h], DiskNameOf[h]}
  BY <1>9, <1>10, SerialCarrier
<1>12. x \in KeysOf(h)
  BY <1>11 DEF KeysOf
<1>13. CanonicalKey(VolumesIn(rs), x) \in KeysOf(h)
  BY <1>12, BridgeKeepsStick
<1>14. h = g
  BY <1>7, <1>12, <1>13, <1>1 DEF SticksApart
<1> QED
  BY <1>3, <1>6, <1>11, <1>12, <1>14

\* With the event log among the evidence, a stick that arrived with its first
\* serial is one of the carriers of that serial.
LEMMA ArrivalCarries ==
    ASSUME NamesApart, HostInv, NEW rs \in SUBSET records,
           \A r \in records : r.locator = "evtx" => r \in rs,
           NEW cs, cs = GatheredFrom(rs) \/ cs = LibraryClaims(rs),
           NEW e \in Devices, FirstSerialSeen(e)
    PROVE  SerialNumber[e] \in CarriersOf(cs, VolumeSerials[e][1])
<1>1. Honest(rs, clock, Began) /\ Honest(records, clock, Began)
  BY HonestEvidence
<1>2. PICK r \in records : /\ r.source = "PartitionDiag"
                           /\ r.serial_number = SerialNumber[e]
                           /\ r.fat_serial = VolumeSerials[e][1]
  BY DEF FirstSerialSeen
<1>3. IsArrival(r, clock, Began) /\ clock \in Nat
  BY <1>1, <1>2, SourceTells DEF Honest
<1>4. r \in rs
  BY <1>3, KindsTell
<1>5. SerialNumber[e] # Empty
  BY DEF NamesApart, KeysOf
<1> DEFINE c == ClaimOf(r.serial_number, "VolumeSerial", Text(r.fat_serial), r)
<1>6. c \in Told(r)
  BY <1>2, <1>3, <1>5, ArrivalTells
<1>7. SerialNumber[e] # VolumeSerials[e][1]
  BY SerialsTyped DEF NamesApart, KeysOf, SerialsOf
<1>8. AssertsCarrier(c) /\ c.value.text = VolumeSerials[e][1] /\ c.device = SerialNumber[e]
  BY <1>2, <1>7 DEF AssertsCarrier, ClaimOf, Text, IsText
<1> HIDE DEF c
<1>9. ToldToRun(rs, c)
  BY <1>2, <1>4, <1>6, RunSources DEF ToldToRun
<1>10. c \in ToSet(cs) /\ cs \in Seq(Claim)
  BY <1>1, <1>9, GatheredEither
<1> QED
  BY <1>8, <1>10, Carriers

\* So what is told of a serial that stick e once had is filed under another
\* stick only if it is not known from e's first format.
LEMMA OwnStick ==
    ASSUME NamesApart, SticksApart, HostInv, NEW rs \in SUBSET records,
           \A r \in records : r.locator = "evtx" => r \in rs,
           NEW cs, cs = GatheredFrom(rs) \/ cs = LibraryClaims(rs),
           NEW e \in Devices, NEW k \in DOMAIN VolumeSerials[e], k = 1 => FirstSerialSeen(e),
           NEW g \in Devices, NEW s, s = VolumeSerials[e][k], FiledUnder(rs, cs, s, g)
    PROVE  e = g
<1>1. Honest(rs, clock, Began)
  BY HonestEvidence
<1>2. s \in SerialsOf(e) /\ k \in Nat /\ k > 0
  BY SerialsTyped DEF SerialsOf
<1>3. s \in SerialsOf(g) /\ \E x \in KeysOf(g) : CarriersOf(cs, s) = {x}
  BY <1>1, <1>2, SerialHome
<1>4. SUFFICES ASSUME e # g PROVE FALSE
  OBVIOUS
<1>5. k = 1
  BY <1>2, <1>3, <1>4 DEF SticksApart
<1>6. SerialNumber[e] \in CarriersOf(cs, s)
  BY <1>5, ArrivalCarries
<1>7. SerialNumber[e] \in KeysOf(g)
  BY <1>3, <1>6
<1>8. SerialNumber[e] \in KeysOf(e)
  BY DEF KeysOf
<1> QED
  BY <1>4, <1>7, <1>8 DEF SticksApart

\* A file told of was opened, from a stick that then had the serial.
LEMMA FileTold ==
    ASSUME HostInv, NEW rs \in SUBSET records, NEW t, t.attribute = "AccessedFile",
           ToldToRun(rs, t) \/ ToldToLibrary(rs, t)
    PROVE  \E e \in Devices : \E k \in DOMAIN VolumeSerials[e] :
             /\ t.device = VolumeSerials[e][k] /\ t.value = Text(FileOn[e])
             /\ <<SerialNumber[e], FileOn[e]>> \in truth.opened
             /\ k = 1 => FirstSerialSeen(e)
<1>1. Honest(rs, clock, Began)
  BY HonestEvidence
<1>2. ClaimTold(t, clock, Began)
  BY <1>1, ToldSource
<1>3. PICK r \in rs : t \in Told(r) /\ t.source = r.source
  BY <1>1, ToldSource
<1>4. r.source \in {"Lnk", "JumpList"}
  BY <1>2, <1>3 DEF ClaimTold
<1>5. (IsLink(r) \/ IsJumpEntry(r, clock)) /\ clock \in Nat
  BY <1>1, <1>4, SourceTells DEF Honest
<1>6. t.device = r.volume_serial /\ t.value = Text(r.local_base_path)
  BY <1>3, <1>5, LinkTells, JumpTells
<1>7. LinkTrue(r)
  BY <1>4 DEF HostInv, LinksTrue
<1>8. PICK e \in Devices : \E k \in DOMAIN VolumeSerials[e] :
        /\ OpenedBy(r, e, VolumeSerials[e][k])
        /\ <<SerialNumber[e], FileOn[e]>> \in truth.opened
        /\ k = 1 => FirstSerialSeen(e)
  BY <1>7 DEF LinkTrue
<1>9. PICK k \in DOMAIN VolumeSerials[e] :
        /\ OpenedBy(r, e, VolumeSerials[e][k])
        /\ <<SerialNumber[e], FileOn[e]>> \in truth.opened
        /\ k = 1 => FirstSerialSeen(e)
  BY <1>8
<1>10. r.volume_serial = VolumeSerials[e][k] /\ r.local_base_path = FileOn[e]
  <2>1. CASE r = LinkTo(VolumeSerials[e][k], FileOn[e])
    BY <2>1 DEF LinkTo
  <2>2. ASSUME NEW at \in Nat, r = JumpEntry(VolumeSerials[e][k], FileOn[e], at)
        PROVE  r.volume_serial = VolumeSerials[e][k] /\ r.local_base_path = FileOn[e]
    BY <2>2 DEF JumpEntry
  <2> QED
    BY <1>9, <2>1, <2>2 DEF OpenedBy
<1> QED
  BY <1>6, <1>9, <1>10

(***************************************************************************)
(* With the event log among the evidence, a file is listed under a stick   *)
(* only if it was opened from it (reconcile.rs:7-11): a serial that two    *)
(* sticks arrived with has two carriers, so its files are filed under      *)
(* neither, and the bridge of MountedDevices moves a key only to another   *)
(* key of the same stick.                                                  *)
(***************************************************************************)
THEOREM FilesOnTheirDeviceAlways ==
    ASSUME NamesApart, SticksApart
    PROVE  Spec => []FilesOnTheirDevice
<1>1. IInv => FilesOnTheirDevice
  <2> SUFFICES ASSUME IInv, phase = "audited", "evtx" \in files,
                      NEW g \in Devices, NEW path \in FilesUnder(g)
               PROVE  <<SerialNumber[g], path>> \in truth.opened
    BY DEF FilesOnTheirDevice
  <2>1. /\ Honest(Evidence, clock, Began) /\ tz \in Int \cup {None}
        /\ ByRun(Evidence) \in Seq(Claim) /\ ByLibrary(Evidence) \in Seq(Claim)
        /\ histories = Correlated(ByRun(Evidence)) \/ histories = Correlated(ByLibrary(Evidence))
    BY Audited
  <2>2. /\ HostInv /\ Evidence \in SUBSET records
        /\ \A r \in records : r.locator = "evtx" => r \in Evidence
    BY DEF IInv, Evidence
  <2>3. PICK key \in KeysOf(g) : path \in TextValues(histories, key, "AccessedFile")
    BY DEF FilesUnder
  <2>4. PICK cs \in Seq(Claim) :
            /\ cs = ByRun(Evidence) \/ cs = ByLibrary(Evidence)
            /\ histories = Correlated(cs)
    BY <2>1
  <2>5. PICK c \in ToSet(cs) : /\ c.device = key /\ c.attribute = "AccessedFile"
                               /\ IsText(c.value) /\ c.value.text = path
    BY <2>3, <2>4, TextReported
  <2>6. CASE cs = ByRun(Evidence)
    <3>1. PICK t : /\ ToldToRun(Evidence, t)
                   /\ c = FiledAs(t, RunHome(Evidence, t.device), UtcValue(t, tz))
      BY <2>1, <2>5, <2>6, RunFiles
    <3>2. t.attribute = "AccessedFile" /\ key = RunHome(Evidence, t.device)
          /\ c.value = UtcValue(t, tz)
      BY <2>5, <3>1, FiledParts
    <3>3. PICK e \in Devices : \E k \in DOMAIN VolumeSerials[e] :
             /\ t.device = VolumeSerials[e][k] /\ t.value = Text(FileOn[e])
             /\ <<SerialNumber[e], FileOn[e]>> \in truth.opened
             /\ k = 1 => FirstSerialSeen(e)
      BY <2>2, <3>1, <3>2, FileTold
    <3>6. PICK k \in DOMAIN VolumeSerials[e] :
             t.device = VolumeSerials[e][k] /\ (k = 1 => FirstSerialSeen(e))
      BY <3>3
    <3>4. e = g
      BY <2>2, <2>3, <3>2, <3>6, OwnStick DEF RunHome, FiledUnder
    <3>5. path = FileOn[e]
      <4>1. t \in Claim
        BY <2>1, <3>1, ToldSource DEF ClaimTold
      <4>2. FileOn[e] \in Names
        BY HostNames
      <4>3. c.value = Text(FileOn[e])
        BY <2>1, <3>2, <3>3, <4>1, <4>2, UtcTyped, ValueTyped
      <4> QED
        BY <2>5, <4>2, <4>3, ValueTyped
    <3> QED
      BY <3>3, <3>4, <3>5
  <2>7. CASE cs = ByLibrary(Evidence)
    <3>1. PICK t : /\ ToldToLibrary(Evidence, t)
                   /\ c = FiledAs(t, LibraryHome(Evidence, t.device), t.value)
      BY <2>1, <2>5, <2>7, LibraryFiles
    <3>2. t.attribute = "AccessedFile" /\ key = LibraryHome(Evidence, t.device)
          /\ c.value = t.value
      BY <2>5, <3>1, FiledParts
    <3>3. PICK e \in Devices : \E k \in DOMAIN VolumeSerials[e] :
             /\ t.device = VolumeSerials[e][k] /\ t.value = Text(FileOn[e])
             /\ <<SerialNumber[e], FileOn[e]>> \in truth.opened
             /\ k = 1 => FirstSerialSeen(e)
      BY <2>2, <3>1, <3>2, FileTold
    <3>6. PICK k \in DOMAIN VolumeSerials[e] :
             t.device = VolumeSerials[e][k] /\ (k = 1 => FirstSerialSeen(e))
      BY <3>3
    <3>4. e = g
      BY <2>2, <2>3, <3>2, <3>6, OwnStick DEF LibraryHome, FiledUnder
    <3>5. path = FileOn[e]
      BY <2>5, <3>2, <3>3, HostNames, ValueTyped
    <3> QED
      BY <3>3, <3>4, <3>5
  <2> QED
    BY <2>4, <2>6, <2>7
<1> QED
  BY <1>1, HonestRecords, PTL

\* A time of a connection or removal, as told: stick e was there at that time, and
\* the time is told of a key of e or of a serial that e then had.
GivenOf(t, e, at) ==
    /\ t.value = Timestamp(at) /\ PresentAt(e, at) /\ at \in Int
    /\ ~ClockIsLocal(t.source)
    /\ \/ t.device \in KeysOf(e)
       \/ \E k \in DOMAIN VolumeSerials[e] :
            t.device = VolumeSerials[e][k] /\ (k = 1 => FirstSerialSeen(e))

\* Every such time is one when the stick it is told of was there.
LEMMA TimeGiven ==
    ASSUME HostInv, TimesTrue, NEW rs \in SUBSET records, NEW t,
           t.attribute \in {"LastConnected", "LastRemoved"},
           ToldToRun(rs, t) \/ ToldToLibrary(rs, t)
    PROVE  \E e \in Devices, at \in Int : GivenOf(t, e, at)
<1>1. Honest(rs, clock, Began)
  BY HonestEvidence
<1>2. PICK r \in rs : t \in Told(r) /\ t.source = r.source /\ r.source # "MountedVolume"
  BY <1>1, ToldSource
<1>3. TakenFrom(r, t.device, t.value)
  BY <1>1, <1>2, HonestTells DEF TellsRight, Dated
<1>4. TimeTrue(r) /\ r \in records
  BY <1>2 DEF TimesTrue
<1>5. ASSUME NEW e \in Devices, NEW at, PresentAt(e, at) PROVE at \in Int
  BY <1>5 DEF PresentAt, HostInv, HostTypes, Truths
<1>6. \A e \in Devices : SerialNumber[e] \in KeysOf(e) /\ GuidOf[e] \in KeysOf(e)
  BY DEF KeysOf
<1>7. ASSUME NEW e \in Devices, NEW at, PresentAt(e, at), t.value = Timestamp(at),
             t.device \in KeysOf(e), ~ClockIsLocal(t.source)
      PROVE  at \in Int /\ GivenOf(t, e, at)
  BY <1>5, <1>7 DEF GivenOf
<1>8. CASE r.source = "Usbstor" /\ t.device = r.serial
  <2>1. PICK e \in Devices :
            /\ r.serial = SerialNumber[e] /\ PresentAt(e, r.last_arrival)
            /\ r.last_removal # None => PresentAt(e, r.last_removal)
    BY <1>4, <1>8 DEF TimeTrue
  <2>2. PICK at \in {r.last_arrival, r.last_removal} \ {None} : t.value = Timestamp(at)
    BY <1>3, <1>8 DEF TakenFrom
  <2>3. PresentAt(e, at) /\ t.device \in KeysOf(e) /\ ~ClockIsLocal(t.source)
    BY <1>2, <1>6, <1>8, <2>1, <2>2 DEF ClockIsLocal
  <2> QED
    BY <1>7, <2>2, <2>3
<1>9. CASE r.source = "PartitionDiag"
  <2>1. PICK e \in Devices : r.serial_number = SerialNumber[e] /\ PresentAt(e, r.at)
    BY <1>4, <1>9 DEF TimeTrue
  <2>2. t.device = r.serial_number /\ t.value = Timestamp(r.at) /\ ~ClockIsLocal(t.source)
    BY <1>2, <1>3, <1>9 DEF TakenFrom, ClockIsLocal
  <2> QED
    BY <1>6, <1>7, <2>1, <2>2
<1>10. CASE r.source \in {"KernelPnp", "DriverFramework"}
  <2>1. PICK e \in Devices : r.instance = SerialNumber[e] /\ PresentAt(e, r.at)
    BY <1>4, <1>10 DEF TimeTrue
  <2>2. t.device = r.instance /\ t.value = Timestamp(r.at) /\ ~ClockIsLocal(t.source)
    BY <1>2, <1>3, <1>10 DEF TakenFrom, ClockIsLocal
  <2> QED
    BY <1>6, <1>7, <2>1, <2>2
<1>11. CASE r.source = "MountPoints2"
  <2>1. PICK e \in Devices : r.guid = GuidOf[e] /\ PresentAt(e, r.last_mounted)
    BY <1>4, <1>11 DEF TimeTrue
  <2>2. t.device = r.guid /\ t.value = Timestamp(r.last_mounted) /\ ~ClockIsLocal(t.source)
    BY <1>2, <1>3, <1>11 DEF TakenFrom, ClockIsLocal
  <2> QED
    BY <1>6, <1>7, <2>1, <2>2
<1>12. CASE r.source = "JumpList"
  <2>1. /\ t.device = r.volume_serial /\ t.value = Timestamp(r.last_access)
        /\ ~ClockIsLocal(t.source)
    BY <1>2, <1>3, <1>12 DEF TakenFrom, ClockIsLocal
  <2>2. PICK e \in Devices : \E k \in DOMAIN VolumeSerials[e] :
            OpenedBy(r, e, VolumeSerials[e][k]) /\ (k = 1 => FirstSerialSeen(e))
    BY <1>4, <1>12 DEF HostInv, LinksTrue, LinkTrue
  <2>3. PICK k \in DOMAIN VolumeSerials[e] :
            OpenedBy(r, e, VolumeSerials[e][k]) /\ (k = 1 => FirstSerialSeen(e))
    BY <2>2
  <2>4. r # LinkTo(VolumeSerials[e][k], FileOn[e])
    BY <1>12 DEF LinkTo
  <2>5. PICK at \in Nat :
            r = JumpEntry(VolumeSerials[e][k], FileOn[e], at) /\ PresentAt(e, at)
    BY <2>3, <2>4 DEF OpenedBy, PresentAt
  <2>6. r.last_access = at /\ r.volume_serial = VolumeSerials[e][k]
    BY <2>5 DEF JumpEntry
  <2> QED
    BY <2>1, <2>3, <2>5, <2>6 DEF GivenOf
<1> QED
  BY <1>3, <1>8, <1>9, <1>10, <1>11, <1>12 DEF TakenFrom

\* A time is filed under no other stick than the one that was there.
LEMMA TimeKept ==
    ASSUME NamesApart, SticksApart, HostInv, NEW rs \in SUBSET records,
           \A r \in records : r.locator = "evtx" => r \in rs,
           NEW cs, cs = GatheredFrom(rs) \/ cs = LibraryClaims(rs),
           NEW t, NEW e \in Devices, NEW at, GivenOf(t, e, at),
           NEW g \in Devices, FiledUnder(rs, cs, t.device, g)
    PROVE  e = g
<1>1. Honest(rs, clock, Began)
  BY HonestEvidence
<1>2. CASE t.device \in KeysOf(e)
  <2>1. PICK key \in KeysOf(e) : key = t.device
    BY <1>2
  <2>2. CarriersOf(cs, key) = {}
    BY <1>1, KeyUncarried
  <2>3. Resolve({}, key) = key
    BY DEF Resolve
  <2>4. key \in KeysOf(g) \/ CanonicalKey(VolumesIn(rs), key) \in KeysOf(g)
    BY <2>1, <2>2, <2>3 DEF FiledUnder
  <2>5. CanonicalKey(VolumesIn(rs), key) \in KeysOf(e)
    BY <1>1, BridgeKeepsStick
  <2> QED
    BY <2>4, <2>5 DEF SticksApart
<1>3. ASSUME NEW k \in DOMAIN VolumeSerials[e], t.device = VolumeSerials[e][k],
             k = 1 => FirstSerialSeen(e)
      PROVE  e = g
  <2>1. PICK s : s = t.device
    OBVIOUS
  <2>2. FiledUnder(rs, cs, s, g) /\ s = VolumeSerials[e][k]
    BY <1>3, <2>1
  <2> QED
    BY <1>3, <2>2, OwnStick
<1> QED
  BY <1>2, <1>3 DEF GivenOf

(***************************************************************************)
(* With the event log among the evidence, every connection or removal time *)
(* listed under a stick is one when that stick was there                   *)
(* (jumplist.rs:6-8, reconcile.rs:7-11): the access time of a jump list    *)
(* moves, as a file does, only to the one stick seen with its serial, and  *)
(* the other times are told of a key of their own stick, which no pass     *)
(* moves to another.                                                       *)
(***************************************************************************)
THEOREM TimesOnTheirDeviceAlways ==
    ASSUME NamesApart, SticksApart
    PROVE  Spec => []TimesOnTheirDevice
<1>1. IInv => TimesOnTheirDevice
  <2> SUFFICES ASSUME IInv, phase = "audited", "evtx" \in files,
                      NEW g \in Devices, NEW at \in TimesUnder(g)
               PROVE  <<SerialNumber[g], at>> \in truth.present
    BY DEF TimesOnTheirDevice
  <2>1. /\ Honest(Evidence, clock, Began) /\ tz \in Int \cup {None}
        /\ ByRun(Evidence) \in Seq(Claim) /\ ByLibrary(Evidence) \in Seq(Claim)
        /\ histories = Correlated(ByRun(Evidence)) \/ histories = Correlated(ByLibrary(Evidence))
    BY Audited
  <2>2. /\ HostInv /\ TimesTrue /\ Evidence \in SUBSET records
        /\ \A r \in records : r.locator = "evtx" => r \in Evidence
    BY DEF IInv, Evidence
  <2>3. PICK key \in KeysOf(g), attribute \in {"LastConnected", "LastRemoved"} :
            at \in TsValues(histories, key, attribute)
    BY DEF TimesUnder
  <2>4. PICK cs \in Seq(Claim) :
            /\ cs = ByRun(Evidence) \/ cs = ByLibrary(Evidence)
            /\ histories = Correlated(cs)
    BY <2>1
  <2>5. PICK c \in ToSet(cs) : /\ c.device = key /\ c.attribute = attribute
                               /\ ~IsText(c.value) /\ c.value.at = at
    BY <2>3, <2>4, TsReported
  <2>6. CASE cs = ByRun(Evidence)
    <3>1. PICK t : /\ ToldToRun(Evidence, t)
                   /\ c = FiledAs(t, RunHome(Evidence, t.device), UtcValue(t, tz))
      BY <2>1, <2>5, <2>6, RunFiles
    <3>2. t.attribute = attribute /\ key = RunHome(Evidence, t.device)
          /\ c.value = UtcValue(t, tz)
      BY <2>5, <3>1, FiledParts
    <3>3. PICK e \in Devices, then \in Int : GivenOf(t, e, then)
      BY <2>2, <3>1, <3>2, TimeGiven
    <3>4. FiledUnder(Evidence, GatheredFrom(Evidence), t.device, g)
      BY <2>3, <3>2 DEF RunHome, FiledUnder
    <3>5. e = g
      BY <2>2, <3>3, <3>4, TimeKept
    <3>6. c.value = Timestamp(then)
      BY <3>2, <3>3 DEF UtcValue, GivenOf
    <3> QED
      BY <2>5, <3>3, <3>5, <3>6, ValueTyped DEF GivenOf, PresentAt
  <2>7. CASE cs = ByLibrary(Evidence)
    <3>1. PICK t : /\ ToldToLibrary(Evidence, t)
                   /\ c = FiledAs(t, LibraryHome(Evidence, t.device), t.value)
      BY <2>1, <2>5, <2>7, LibraryFiles
    <3>2. t.attribute = attribute /\ key = LibraryHome(Evidence, t.device)
          /\ c.value = t.value
      BY <2>5, <3>1, FiledParts
    <3>3. PICK e \in Devices, then \in Int : GivenOf(t, e, then)
      BY <2>2, <3>1, <3>2, TimeGiven
    <3>4. FiledUnder(Evidence, LibraryClaims(Evidence), t.device, g)
      BY <2>3, <3>2 DEF LibraryHome, FiledUnder
    <3>5. e = g
      BY <2>2, <3>3, <3>4, TimeKept
    <3> QED
      BY <2>5, <3>2, <3>3, <3>5, ValueTyped DEF GivenOf, PresentAt
  <2> QED
    BY <2>4, <2>6, <2>7
<1> QED
  BY <1>1, HonestRecords, PTL
=============================================================================
