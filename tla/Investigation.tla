--------------------------- MODULE Investigation ---------------------------
(***************************************************************************)
(* An investigation end to end: the host lives, the examiner collects some *)
(* of its artifacts, and usb4n6 analyses them (run, src/bin/usb4n6.rs), or *)
(* a program that links the library does (correlate_sources, source.rs).   *)
(* Each pass is the whole-list operator of its own module; Reconcile,      *)
(* Canonicalize and Correlate show that the loops of the code compute it.  *)
(***************************************************************************)
EXTENDS Host, VolumeSerials, MountedVolumes, Report

CONSTANTS
    Collections,    \* sets of artifacts the examiner may collect
    EntryPoints,    \* which of "usb4n6", "correlate_sources" may be used
    TzChoices       \* what may be given as --tz-offset (None: not given)

\* An offset is a number of seconds, and the disk of a signature has one name,
\* in MountedDevices as in an image.
ASSUME InvestigationAssumption ==
    /\ TzChoices \subseteq Int \cup {None}
    /\ \A d \in Devices : SignatureOf[d] \in Signatures /\ DiskName(SignatureOf[d]) = DiskNameOf[d]

VARIABLES
    phase,      \* "live", then the pass of run that has just been made
    files,      \* the artifacts collected
    tz,         \* the --tz-offset given
    claims,     \* the claims, as the passes transform them
    histories,
    findings

toolVars == <<phase, files, tz, claims, histories, findings>>
vars == <<hostVars, toolVars>>

Evidence == {r \in records : r.locator \in files}

\* The sources in the order run asks them for their claims.
SourcesInRun ==
    <<"SetupApi", "Usbstor", "LinuxKernelLog", "Lnk", "JumpList", "PartitionDiag",
      "KernelPnp", "DriverFramework", "VolumeInfoCache", "MountPoints2", "EmdMgmt",
      "DeviceImage">>

ClaimsInOrder(sources, rs) ==
    FlattenSeq([i \in DOMAIN sources |->
        LET mine == AsSeq({r \in rs : r.source = sources[i]})
        IN  FlattenSeq([j \in DOMAIN mine |-> ClaimsOfRecord(mine[j])])])

GatheredFrom(rs) == ClaimsInOrder(SourcesInRun, rs)

\* Mutant: the offset is added, local time to local time.
NormalizedWrongWay(cs, offset) ==
    [i \in DOMAIN cs |->
        IF ClockIsLocal(cs[i].source) /\ ~IsText(cs[i].value)
        THEN [cs[i] EXCEPT !.value.at = @ + offset] ELSE cs[i]]

\* tz.rs: local wall-clock times become UTC, everything else stays.
Normalized(cs, offset) ==
    [i \in DOMAIN cs |->
        IF ClockIsLocal(cs[i].source) /\ ~IsText(cs[i].value)
        THEN [cs[i] EXCEPT !.value.at = @ - offset] ELSE cs[i]]

NormalizedIfGiven(cs, offset) == IF offset = None THEN cs ELSE Normalized(cs, offset)

VolumesIn(rs) == AsSeq({r \in rs : r.source = "MountedVolume"})

\* The whole analysis of a set of records, for what-if questions.
Analysed(rs) ==
    Correlated(Canonicalized(Rekeyed(NormalizedIfGiven(GatheredFrom(rs), tz)), VolumesIn(rs)))

ToolInit ==
    /\ phase = "live"
    /\ files = {} /\ tz = None
    /\ claims = <<>> /\ histories = <<>> /\ findings = {}

Init == HostInit /\ ToolInit

HostActs == phase = "live" /\ Live /\ UNCHANGED toolVars

\* The examiner collects artifacts and starts the tool on them.
Collect ==
    /\ phase = "live"
    /\ files' \in Collections
    /\ tz' \in TzChoices
    /\ phase' = "collected"
    /\ UNCHANGED <<hostVars, claims, histories, findings>>

Gather ==
    /\ "usb4n6" \in EntryPoints
    /\ phase = "collected"
    /\ claims' = GatheredFrom(Evidence)
    /\ phase' = "gathered"
    /\ UNCHANGED <<hostVars, files, tz, histories, findings>>

Normalize ==
    /\ phase = "gathered"
    /\ claims' = NormalizedIfGiven(claims, tz)
    /\ phase' = "normalized"
    /\ UNCHANGED <<hostVars, files, tz, histories, findings>>

ReconcileSerials ==
    /\ phase = "normalized"
    /\ claims' = Rekeyed(claims)
    /\ phase' = "reconciled"
    /\ UNCHANGED <<hostVars, files, tz, histories, findings>>

CanonicalizeVolumes ==
    /\ phase = "reconciled"
    /\ claims' = Canonicalized(claims, VolumesIn(Evidence))
    /\ phase' = "canonicalized"
    /\ UNCHANGED <<hostVars, files, tz, histories, findings>>

CorrelateClaims ==
    /\ phase = "canonicalized"
    /\ histories' = Correlated(claims)
    /\ phase' = "correlated"
    /\ UNCHANGED <<hostVars, files, tz, claims, findings>>

\* correlate_sources over every adapter there is, the one of shellbags included:
\* no clock is normalised and no MountedDevices bridge is crossed.
CorrelateSources ==
    /\ "correlate_sources" \in EntryPoints
    /\ phase = "collected"
    /\ claims' = Rekeyed(ClaimsInOrder(SourcesInRun \o <<"Shellbag">>, Evidence))
    /\ histories' = Correlated(claims')
    /\ phase' = "correlated"
    /\ UNCHANGED <<hostVars, files, tz, findings>>

AuditHistories ==
    /\ phase = "correlated"
    /\ findings' = Audit(histories)
    /\ phase' = "audited"
    /\ UNCHANGED <<hostVars, files, tz, claims, histories>>

Next ==
    \/ HostActs \/ Collect \/ Gather \/ Normalize \/ ReconcileSerials
    \/ CanonicalizeVolumes \/ CorrelateClaims \/ CorrelateSources \/ AuditHistories

Spec == Init /\ [][Next]_vars

-----------------------------------------------------------------------------
\* Types: in particular no absent field of a record becomes a claim.
TypeOK ==
    /\ phase \in {"live", "collected", "gathered", "normalized", "reconciled",
                  "canonicalized", "correlated", "audited"}
    /\ claims \in Seq(Claim)
    /\ \A i \in DOMAIN histories :
        /\ GroupOf(histories[i]) \in Group
        /\ histories[i].values \in Seq(ProvenancedValue) \ {<<>>}

Timed == {"FirstConnected", "LastConnected", "LastRemoved"}

KeysOf(d) == {SerialNumber[d], DiskNameOf[d], GuidOf[d]}
SerialsOf(d) == {VolumeSerials[d][k] : k \in DOMAIN VolumeSerials[d]}

\* The keys of sticks are not also volume serials or the drive letter, and a
\* serial number is not also a GUID or the name of a disk.
NamesApart ==
    \A d, e \in Devices :
        /\ (SerialsOf(d) \cup {Letter, Empty}) \cap KeysOf(e) = {}
        /\ Letter \notin SerialsOf(d)
        /\ SerialNumber[d] \notin {DiskNameOf[e], GuidOf[e]}

\* No two sticks have a key in common, and the serial a format gives a volume
\* is one no other volume has; the first serials may be those of clones.
SticksApart ==
    \A d, e \in Devices : d # e =>
        /\ KeysOf(d) \cap KeysOf(e) = {} /\ SignatureOf[d] # SignatureOf[e]
        /\ \A k \in DOMAIN VolumeSerials[d] : k > 1 => VolumeSerials[d][k] \notin SerialsOf(e)

(***************************************************************************)
(* "A conservative, false-positive-free indicator" (report.rs:218): on an  *)
(* untampered host no collection of artifacts, however partial, makes a    *)
(* first connection seem later than every last one.                        *)
(***************************************************************************)
NoFalseOrdering ==
    \A f \in findings : f.code # "USB-IMPOSSIBLE-ORDERING"

(***************************************************************************)
(* Told the host's offset, the tool never sees the local setupapi time and *)
(* the UTC registry time of the same first connection as a disagreement    *)
(* (tz.rs:5-6).                                                            *)
(***************************************************************************)
FirstConnectionAgrees ==
    \A f \in findings :
        f.code = "USB-TIMESTAMP-CONFLICT" => f.attribute # "FirstConnected"

(***************************************************************************)
(* "Independent sources disagree" (report.rs:46) is said of times only     *)
(* when they do; on an untampered host with known offset they never do.    *)
(***************************************************************************)
HonestTimesAgree ==
    \A f \in findings :
        f.code = "USB-TIMESTAMP-CONFLICT" => f.attribute \notin Timed

(***************************************************************************)
(* "The grade turns on tamper-independence" (docs/prd.md:108): whatever    *)
(* one container held, a corroborated value of a device is still reported  *)
(* for that device, and no other, by the rest of the evidence.  The        *)
(* MountedDevices entries are part of the SYSTEM hive and go with it.      *)
(***************************************************************************)
WrittenTo(r) ==
    Container(IF r.source = "MountedVolume" THEN "MountedDevices" ELSE r.source)

StandsWithout(entry, container) ==
    LET rest == Analysed({r \in Evidence : WrittenTo(r) # container})
    IN  ValuesOf(rest, entry.device, entry.attribute) = ReportedValues(entry.values)

CorroborationStands(attributes) ==
    phase = "audited" =>
        \A i \in DOMAIN histories : \A container \in ArtifactContainer :
            histories[i].consistency = "Corroborated" /\ histories[i].attribute \in attributes
                => StandsWithout(histories[i], container)

\* Of every attribute: a corroborated volume serial hangs on the event log.
CorroborationIndependent == CorroborationStands(Attribute)

FilesUnder(d) ==
    UNION {TextValues(histories, key, "AccessedFile") : key \in KeysOf(d)}

(***************************************************************************)
(* "The pass never guesses an attribution" (reconcile.rs:11), end to end:  *)
(* when the event log, which names every stick that arrived with a serial, *)
(* is among the evidence, a file is listed under a stick only if it was    *)
(* opened from it, even when another stick has the same volume serial.     *)
(***************************************************************************)
FilesOnTheirDevice ==
    phase = "audited" /\ "evtx" \in files =>
        \A d \in Devices : \A path \in FilesUnder(d) :
            <<SerialNumber[d], path>> \in truth.opened

TimesUnder(d) ==
    UNION {TsValues(histories, key, attribute) :
            key \in KeysOf(d), attribute \in {"LastConnected", "LastRemoved"}}

(***************************************************************************)
(* A jump list's last access "is evidence the volume was mounted at T"     *)
(* (jumplist.rs:6-8), and the passes carry it to the stick of that volume: *)
(* with the event log among the evidence, every connection or removal time *)
(* listed under a stick, by whatever key, is a time when that very stick   *)
(* was there, even when another stick has the same volume serial.          *)
(***************************************************************************)
TimesOnTheirDevice ==
    phase = "audited" /\ "evtx" \in files =>
        \A d \in Devices : \A at \in TimesUnder(d) : <<SerialNumber[d], at>> \in truth.present

(***************************************************************************)
(* "When exactly one physical device reports a volume serial V, every      *)
(* claim keyed by the pseudo-identity V is re-keyed to that device"        *)
(* (reconcile.rs:7-9): a file opened from the only stick that ever carried *)
(* the serial is listed under it, if any artifact ties serial to stick.    *)
(***************************************************************************)
OneStickAttributed ==
    phase = "audited" =>
        \A d \in Devices : \A r \in Evidence :
            /\ r.source = "Lnk"
            /\ \A pair \in truth.carried : pair[2] = r.volume_serial => pair[1] = SerialNumber[d]
            /\ \E e \in Evidence :
                e.source \in {"PartitionDiag", "DeviceImage"} /\ e.fat_serial = r.volume_serial
            => r.local_base_path \in FilesUnder(d)

(***************************************************************************)
(* "Key == value marks a pseudo-device, not a carrier assertion"           *)
(* (shellbag.rs:66): the claims a shellbag makes about its own letter do   *)
(* not stand in the way of the join, so with the SYSTEM hive in evidence   *)
(* and one stick only ever mounted, every folder lands on that stick,      *)
(* under whatever key its letter was reported.                             *)
(***************************************************************************)
FolderAttributed ==
    phase = "audited" /\ "SYSTEM" \in files =>
        \A d \in Devices :
            {pair[1] : pair \in truth.carried} = {SerialNumber[d]} =>
                \A i \in DOMAIN histories :
                    histories[i].attribute = "BrowsedFolder" =>
                        histories[i].device = SerialNumber[d]

SerialsLabelled(name) == {pair[2] : pair \in {p \in truth.labelled : p[1] = name}}

(***************************************************************************)
(* A reformat that kept the label is always found in the SOFTWARE hive     *)
(* (report.rs:93-98), whatever other evidence re-keys the cached volumes   *)
(* to one device, to several or to none.                                   *)
(***************************************************************************)
ReformatFound ==
    phase = "audited" /\ "SOFTWARE" \in files =>
        \A name \in Labels :
            Cardinality(SerialsLabelled(name)) >= 2 =>
                \E f \in findings :
                    /\ f.code = "USB-VOLUME-REFORMATTED"
                    /\ f.label = name
                    /\ SerialsLabelled(name) \subseteq f.serials

(***************************************************************************)
(* "Flag a volume whose label appears with two or more distinct volume     *)
(* serials" (report.rs:93): a flagged label was really seen with each of   *)
(* the serials listed.                                                     *)
(***************************************************************************)
ReformattedIsReal ==
    \A f \in findings :
        f.code = "USB-VOLUME-REFORMATTED" => f.serials \subseteq SerialsLabelled(f.label)
=============================================================================
