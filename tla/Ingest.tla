------------------------------- MODULE Ingest -------------------------------
(***************************************************************************)
(* main and ingest (src/bin/usb4n6.rs): the arguments are parsed, then     *)
(* each file is read, recognised by its content and handed to the readers  *)
(* of its kind.  Two kinds are opened again by path after they have been   *)
(* read, and meanwhile the file may go away (evidence on a stick, a share  *)
(* or a live host).  Last the rendering is written to stdout, which        *)
(* whoever reads it may close.                                             *)
(***************************************************************************)
EXTENDS EventLog, MacCaptures

CONSTANTS
    Paths,          \* paths of files
    FileAt,         \* path -> the file
    ArgLists,       \* the command lines
    Fragile         \* the paths that may go away while the tool runs

HiveOrigins == {"registry", "volume_labels", "mounted_volumes", "user_mounts", "emd_volumes"}
LogOrigins == {"partition_diag", "kernel_pnp", "driver_framework"}
WholeOrigins ==
    {"jumplists", "lnk", "mac_log", "mac_usb", "apple_devices", "device_images", "setupapi"}

\* The fields of Ingested.
Origin == HiveOrigins \cup LogOrigins \cup WholeOrigins \cup {"linux"}

(***************************************************************************)
(* A file: whether it can be read, the content markers found in it, what   *)
(* it really is, whether its reader can make sense of it, and what the     *)
(* reader of each origin finds in it (event logs and macOS captures: the   *)
(* raw records).                                                           *)
(***************************************************************************)
Marker ==
    {"compound", "link", "hive", "unified_log", "profiler", "plist", "e01", "boot", "evtx"}
Kind == Marker \cup {"syslog", "setupapi"}

\* A sequence of whatever is in it.
IsList(list) == list \in Seq(ToSet(list))

\* Arguments, of which those that are no option are paths.
IsCommandLine(list) ==
    /\ IsList(list)
    /\ \A i \in DOMAIN list : list[i].name = "path" => list[i].value \in Paths

ASSUME IngestAssumption ==
    /\ None \notin Kind \cup {"evtx pnp", "evtx umdf"}
    /\ Fragile \subseteq Paths
    /\ \A list \in ArgLists : IsCommandLine(list)
    /\ \A path \in Paths :
        /\ FileAt[path].kind \in Kind
        /\ FileAt[path].markers \subseteq Marker \cup {"usb_found"}
        /\ FileAt[path].readable \in BOOLEAN /\ FileAt[path].intact \in BOOLEAN
        /\ \A o \in Origin : IsList(FileAt[path].holds[o])
        /\ ToSet(FileAt[path].holds["mac_usb"]) \subseteq TreeNodes

VARIABLES
    args,               \* the command line
    pc,                 \* "args", "ingest", "write", "exit"; "done" is success,
                        \* "failed" a file given up on, "aborted" a write
    mode, tz, year,     \* what the options say
    paths,              \* the files, in the order given
    next,               \* index of the file being ingested
    sniffed,            \* the reader chosen for it, None before it is read
    gone,               \* paths that went away
    ingested,           \* origin -> records (groups of one file flattened)
    reported,           \* paths named on stderr
    output              \* how much of the rendering is on stdout, and whether
                        \* stdout is broken

inputVars == <<args, mode, tz, year, paths, next, sniffed, gone, ingested, reported>>
vars == <<inputVars, pc, output>>

ModeOrder ==
    <<"pdf", "docx", "report", "table", "timeline", "files", "export-mbr">>

Reader == Kind \cup {"evtx pnp", "evtx umdf"}

\* Types: a mode is chosen, whatever the flags; the files are those given.
TypeOK ==
    /\ IsCommandLine(args)
    /\ pc \in {"args", "ingest", "write", "exit", "done", "failed", "aborted"}
    /\ output \in [shown : {"nothing", "part", "all"}, broken : BOOLEAN]
    /\ mode \in ToSet(ModeOrder) \cup {"jsonl"}
    /\ paths \in Seq(Paths)
    /\ next \in 1..(Len(paths) + 1)
    /\ sniffed \in Reader \cup {None}
    /\ gone \subseteq Fragile
    /\ DOMAIN ingested = Origin
    /\ reported \subseteq Paths

Init ==
    /\ args \in ArgLists
    /\ pc = "args"
    /\ mode = "jsonl" /\ tz = None /\ year = None
    /\ paths = <<>> /\ next = 1 /\ sniffed = None
    /\ gone = {}
    /\ ingested = [o \in Origin |-> <<>>]
    /\ reported = {}
    /\ output = [shown |-> "nothing", broken |-> FALSE]

-----------------------------------------------------------------------------
\* main

\* The places of an option on the command line.
Mentions(name) == {i \in DOMAIN args : args[i].name = name}

\* find_map: the first value that parses; one that does not is passed over.
FirstParsed(name) ==
    LET parsed == {i \in Mentions(name) : args[i].value # None}
    IN  IF parsed = {} THEN None ELSE args[Earliest(parsed)].value

\* Mutant: no default.
ChosenModeOrNone ==
    LET asked == {k \in DOMAIN ModeOrder : Mentions(ModeOrder[k]) # {}}
    IN  IF asked = {} THEN None ELSE ModeOrder[Earliest(asked)]

\* The first flag of the order wins, whatever the order of the arguments.
ChosenMode ==
    LET asked == {k \in DOMAIN ModeOrder : Mentions(ModeOrder[k]) # {}}
    IN  IF asked = {} THEN "jsonl" ELSE ModeOrder[Earliest(asked)]

\* What is no option, in the order given.
GivenPaths ==
    LET given == Kept(args, Mentions("path"))
    IN  [k \in DOMAIN given |-> given[k].value]

ShowVersion ==
    /\ pc = "args" /\ Mentions("version") # {}
    /\ pc' = "done"
    /\ UNCHANGED <<args, mode, tz, year, paths, next, sniffed, gone, ingested, reported>>

ShowUsage ==
    /\ pc = "args" /\ Mentions("version") = {} /\ Mentions("path") = {}
    /\ pc' = "failed"
    /\ UNCHANGED <<args, mode, tz, year, paths, next, sniffed, gone, ingested, reported>>

ParseArgs ==
    /\ pc = "args" /\ Mentions("version") = {} /\ Mentions("path") # {}
    /\ mode' = ChosenMode
    /\ tz' = FirstParsed("tz-offset")
    /\ year' = FirstParsed("year")
    /\ paths' = GivenPaths
    /\ pc' = "ingest"
    /\ UNCHANGED <<args, next, sniffed, gone, ingested, reported>>

-----------------------------------------------------------------------------
\* ingest: one file

Path == paths[next]
File == FileAt[Path]
There == File.readable /\ Path \notin gone

SniffOrder ==
    <<"compound", "link", "hive", "unified_log", "profiler", "plist", "e01", "boot", "evtx">>

\* Mutant: a boot signature is looked for before the E01 one.
SniffBootFirst(markers) ==
    LET seen == {k \in DOMAIN SniffOrder : SniffOrder[k] \in markers}
    IN  IF "boot" \in markers THEN "boot"
        ELSE IF seen # {} THEN SniffOrder[Earliest(seen)]
        ELSE IF "usb_found" \in markers THEN "syslog" ELSE "setupapi"

\* The first marker of the chain decides; what has none is text.
Sniff(markers) ==
    LET seen == {k \in DOMAIN SniffOrder : SniffOrder[k] \in markers}
    IN  IF seen # {} THEN SniffOrder[Earliest(seen)]
        ELSE IF "usb_found" \in markers THEN "syslog" ELSE "setupapi"

CannotRead ==
    /\ pc = "ingest" /\ next <= Len(paths) /\ sniffed = None
    /\ ~ There
    /\ pc' = "failed"
    /\ reported' = reported \cup {Path}
    /\ UNCHANGED <<args, mode, tz, year, paths, next, sniffed, gone, ingested>>

ReadFile ==
    /\ pc = "ingest" /\ next <= Len(paths) /\ sniffed = None
    /\ There
    /\ sniffed' = Sniff(File.markers)
    /\ UNCHANGED <<args, pc, mode, tz, year, paths, next, gone, ingested, reported>>

\* What the reader of each origin finds in a file.
Decoded ==
    [path \in Paths |-> [o \in Origin |->
        LET raw == FileAt[path].holds[o]
        IN  CASE o = "kernel_pnp" -> KernelPnpEvents(raw)
              [] o = "driver_framework" -> DriverFrameworkEvents(raw)
              [] o = "mac_log" -> UnifiedLogEvents(raw)
              [] o = "mac_usb" -> SystemProfilerDevices(raw)
              [] o = "apple_devices" -> IPodDevices(raw)
              [] OTHER -> raw]]

\* The same of the k-th file: each record is told apart by the place of its file
\* and its own place in it.
Found(k, o) ==
    LET records == Decoded[paths[k]][o]
    IN  [i \in DOMAIN records |-> [file |-> k, nr |-> i, record |-> records[i]]]

Extended(origins) ==
    [o \in Origin |-> ingested[o] \o IF o \in origins THEN Found(next, o) ELSE <<>>]

\* Mutant: the records of an earlier file are replaced.
Replaced(origins) ==
    [o \in Origin |-> IF o \in origins THEN Found(next, o) ELSE ingested[o]]

\* Mutant: a file that is skipped is tried again.
SameFile == next' = next /\ sniffed' = None

NextFile == next' = next + 1 /\ sniffed' = None

\* A reader that returns None or an error: a message, and the next file.
Skip ==
    /\ reported' = reported \cup {Path}
    /\ NextFile
    /\ UNCHANGED <<args, pc, mode, tz, year, paths, gone, ingested>>

Take(origins) ==
    /\ ingested' = Extended(origins)
    /\ NextFile
    /\ UNCHANGED <<args, pc, mode, tz, year, paths, gone, reported>>

\* Readers of the bytes already in memory.
IngestJumpList ==
    sniffed = "compound" /\ IF File.intact THEN Take({"jumplists"}) ELSE Skip

IngestLink ==
    sniffed = "link" /\ IF File.intact THEN Take({"lnk"}) ELSE Skip

\* Mutant: a damaged hive ends the run.
IngestHiveOrFail ==
    /\ sniffed = "hive"
    /\ IF File.intact THEN Take(HiveOrigins)
       ELSE /\ pc' = "failed" /\ sniffed' = None /\ reported' = reported \cup {Path}
            /\ UNCHANGED <<args, mode, tz, year, paths, next, gone, ingested>>

\* All five readers of hives; each finds what this hive has of it.
IngestHive ==
    sniffed = "hive" /\ IF File.intact THEN Take(HiveOrigins) ELSE Skip

\* A capture that yields nothing counts as damaged.
IngestCapture(kind, origin) ==
    /\ sniffed = kind
    /\ IF File.intact /\ Found(next, origin) # <<>> THEN Take({origin}) ELSE Skip

IngestUnifiedLog == IngestCapture("unified_log", "mac_log")
IngestProfiler == IngestCapture("profiler", "mac_usb")
IngestPlist == IngestCapture("plist", "apple_devices")

IngestImage ==
    sniffed = "boot" /\ IF File.intact THEN Take({"device_images"}) ELSE Skip

\* An E01 is opened again, by path.
IngestE01 ==
    sniffed = "e01" /\ IF File.intact /\ There THEN Take({"device_images"}) ELSE Skip

\* Mutant: the first of the three readers is silent too.
IngestPartitionDiagSilently ==
    /\ sniffed = "evtx"
    /\ ingested' = IF File.intact /\ There THEN Extended({"partition_diag"}) ELSE ingested
    /\ sniffed' = "evtx pnp"
    /\ UNCHANGED <<args, pc, mode, tz, year, paths, next, gone, reported>>

\* An event log is opened three times by path: only the first failure is said.
IngestPartitionDiag ==
    /\ sniffed = "evtx"
    /\ IF File.intact /\ There
       THEN ingested' = Extended({"partition_diag"}) /\ UNCHANGED reported
       ELSE reported' = reported \cup {Path} /\ UNCHANGED ingested
    /\ sniffed' = "evtx pnp"
    /\ UNCHANGED <<args, pc, mode, tz, year, paths, next, gone>>

IngestKernelPnp ==
    /\ sniffed = "evtx pnp"
    /\ ingested' = IF File.intact /\ There THEN Extended({"kernel_pnp"}) ELSE ingested
    /\ sniffed' = "evtx umdf"
    /\ UNCHANGED <<args, pc, mode, tz, year, paths, next, gone, reported>>

IngestDriverFramework ==
    /\ sniffed = "evtx umdf"
    /\ ingested' = IF File.intact /\ There THEN Extended({"driver_framework"}) ELSE ingested
    /\ NextFile
    /\ UNCHANGED <<args, pc, mode, tz, year, paths, gone, reported>>

\* Mutant: a syslog without a year is ingested all the same.
NoYearGoOn ==
    sniffed = "syslog" /\ year = None /\ Take({"linux"})

\* A syslog has no years: without one given, nothing at all is analysed.
NoYear ==
    /\ sniffed = "syslog" /\ year = None
    /\ pc' = "failed"
    /\ sniffed' = None
    /\ reported' = reported \cup {Path}
    /\ UNCHANGED <<args, mode, tz, year, paths, next, gone, ingested>>

IngestSyslog ==
    /\ sniffed = "syslog" /\ year # None
    /\ ingested' = [ingested EXCEPT !["linux"] = @ \o
            [i \in DOMAIN Found(next, "linux") |->
                [file |-> next, nr |-> i, year |-> year,
                 record |-> Found(next, "linux")[i].record]]]
    /\ NextFile
    /\ UNCHANGED <<args, pc, mode, tz, year, paths, gone, reported>>

IngestSetupApi == sniffed = "setupapi" /\ Take({"setupapi"})

IngestEnd ==
    /\ pc = "ingest" /\ next > Len(paths)
    /\ pc' = "write"
    /\ UNCHANGED <<args, mode, tz, year, paths, next, sniffed, gone, ingested, reported>>

\* The environment: a file of the command line goes away.
Vanish ==
    /\ pc = "ingest"
    /\ \E path \in (Fragile \cap ToSet(paths)) \ gone : gone' = gone \cup {path}
    /\ UNCHANGED <<args, pc, mode, tz, year, paths, next, sniffed, ingested, reported>>

-----------------------------------------------------------------------------
\* run, after the audit: the rendering goes to stdout

IsBinary == mode \in {"pdf", "docx"}

\* The rendering of no history is the empty text, but for the report.
MayBeEmpty == mode \notin {"pdf", "docx", "report"}

\* print!, or write_all of a whole artifact: each ends with a newline, so that
\* nothing stays in the line buffer.  An empty text is not written at all.
WriteAll ==
    /\ pc = "write"
    /\ ~ output.broken \/ MayBeEmpty
    /\ output' = [output EXCEPT !.shown = "all"]
    /\ pc' = "done"
    /\ UNCHANGED inputVars

\* Mutant: the result of write_binary is not looked at.
WriteUnchecked ==
    /\ pc = "write" /\ output.broken
    /\ output' \in {[output EXCEPT !.shown = s] : s \in {"nothing", "part"}}
    /\ pc' = IF IsBinary THEN "done" ELSE "aborted"
    /\ UNCHANGED inputVars

\* write_binary reports and returns false; print! panics.
WriteFails ==
    /\ pc = "write" /\ output.broken
    /\ output' \in {[output EXCEPT !.shown = s] : s \in {"nothing", "part"}}
    /\ pc' = "aborted"
    /\ UNCHANGED inputVars

\* A DOCX ends with no newline: what follows the last byte that looks like one
\* stays in the buffer, when it is short enough to fit, until the exit.
WriteDocx ==
    /\ pc = "write" /\ mode = "docx" /\ ~ output.broken
    /\ output' = [output EXCEPT !.shown = "part"]
    /\ pc' = "exit"
    /\ UNCHANGED inputVars

\* The flush at the exit: the runtime ignores its failure.
FlushAtExit ==
    /\ pc = "exit"
    /\ output' = IF output.broken THEN output ELSE [output EXCEPT !.shown = "all"]
    /\ pc' = "done"
    /\ UNCHANGED inputVars

\* The environment: the reader of stdout goes away, or its disk is full.
BreakOutput ==
    /\ pc \in {"write", "exit"} /\ ~ output.broken
    /\ output' = [output EXCEPT !.broken = TRUE]
    /\ UNCHANGED <<inputVars, pc>>

Ingesting ==
    \/ ShowVersion \/ ShowUsage \/ ParseArgs
    \/ CannotRead \/ ReadFile
    \/ IngestJumpList \/ IngestLink \/ IngestHive
    \/ IngestUnifiedLog \/ IngestProfiler \/ IngestPlist \/ IngestE01 \/ IngestImage
    \/ IngestPartitionDiag \/ IngestKernelPnp \/ IngestDriverFramework
    \/ NoYear \/ IngestSyslog \/ IngestSetupApi
    \/ IngestEnd

Tool ==
    \/ Ingesting /\ UNCHANGED output
    \/ WriteAll \/ WriteFails \/ WriteDocx \/ FlushAtExit

Environment == (Vanish /\ UNCHANGED output) \/ BreakOutput

Next == Tool \/ Environment

\* The tool is one thread and keeps running.
Spec == Init /\ [][Next]_vars /\ WF_vars(Tool)

SumOf(lengths) == FoldFunction(LAMBDA a, b : a + b, 0, lengths)

\* record_count adds up every field but mounted_volumes.
RecordCount == SumOf([o \in Origin \ {"mounted_volumes"} |-> Len(ingested[o])])
-----------------------------------------------------------------------------
OriginsOf(kind) ==
    CASE kind = "compound" -> {"jumplists"}
      [] kind = "link" -> {"lnk"}
      [] kind = "hive" -> HiveOrigins
      [] kind = "unified_log" -> {"mac_log"}
      [] kind = "profiler" -> {"mac_usb"}
      [] kind = "plist" -> {"apple_devices"}
      [] kind \in {"e01", "boot"} -> {"device_images"}
      [] kind = "evtx" -> LogOrigins
      [] kind = "syslog" -> {"linux"}
      [] kind = "setupapi" -> {"setupapi"}

\* What the tool knows of a file it could not read as what it is.
Damaged(path) == FileAt[path].kind \in Marker /\ ~ FileAt[path].intact

Place(r) == <<r.file, r.nr>>
Contents(records) == {<<r.file, r.nr, r.record>> : r \in records}

\* What a file of a kind has for origin o.
Genuine(kind, k, o) ==
    IF (kind \in Marker => FileAt[paths[k]].intact) /\ o \in OriginsOf(kind)
    THEN Contents(ToSet(Found(k, o))) ELSE {}

InFileOrder(records) ==
    \A i, j \in DOMAIN records : i < j => Before(Place(records[i]), Place(records[j]))

FromFile(o, k) == {r \in ToSet(ingested[o]) : r.file = k}

(***************************************************************************)
(* "Read and classify every input file by content, routing it to the       *)
(* matching reader" (usb4n6.rs:262): a file that also carries the marker   *)
(* of a vaguer kind (an image inside an E01, a link or hive with the boot  *)
(* signature by accident, a profiler capture whose text mentions a plist   *)
(* tag) is still read as what it is, and whatever files surround it, each  *)
(* origin holds what the files of its kind hold, once, in the order they   *)
(* were given.                                                             *)
(***************************************************************************)
EveryFileReadAsItself ==
    pc = "done" => \A o \in Origin :
        /\ InFileOrder(ingested[o])
        /\ \A r \in ToSet(ingested[o]) : r.file \in DOMAIN paths
        /\ \A k \in DOMAIN paths : paths[k] \notin gone =>
                Contents(FromFile(o, k)) = Genuine(FileAt[paths[k]].kind, k, o)

\* The readers that open an event log again, after the first has.
LateOrigins == {"kernel_pnp", "driver_framework"}

(***************************************************************************)
(* Nothing is dropped without a word (usb4n6.rs:277-347, the skipping      *)
(* messages): a file that stderr does not name was sound and has left all  *)
(* it holds with its readers, even when it went away between two of the    *)
(* reads.  Two readers are left out, see NothingHalfRead.                  *)
(***************************************************************************)
DamageReported ==
    pc = "done" => \A k \in DOMAIN paths : paths[k] \notin reported =>
        /\ ~ Damaged(paths[k])
        /\ \A o \in Origin \ LateOrigins :
                Contents(FromFile(o, k)) = Genuine(FileAt[paths[k]].kind, k, o)

(***************************************************************************)
(* The same of the two that open an event log again: "all run on any       *)
(* .evtx" (usb4n6.rs:339).  They say nothing when they cannot              *)
(* (usb4n6.rs:132-134, 147-149), so that this does not hold of a log that  *)
(* goes away after the first reader has read it.                           *)
(***************************************************************************)
NothingHalfRead ==
    pc = "done" => \A k \in DOMAIN paths, o \in LateOrigins : paths[k] \notin reported =>
        Contents(FromFile(o, k)) = Genuine(FileAt[paths[k]].kind, k, o)

(***************************************************************************)
(* "None (after reporting) on a fatal error: an unreadable file, or a      *)
(* Linux syslog with no --year" (usb4n6.rs:263): nothing else makes the    *)
(* tool give up what it has already ingested, and neither is passed over.  *)
(***************************************************************************)
Fatal(path) ==
    \/ ~ FileAt[path].readable \/ path \in gone
    \/ FileAt[path].kind = "syslog" /\ year = None

FatalOnlyAsDocumented ==
    /\ pc = "failed" /\ paths # <<>> =>
        \E path \in ToSet(paths) : Fatal(path) /\ path \in reported
    /\ pc = "done" => \A path \in ToSet(paths) \ gone : ~ Fatal(path)

(***************************************************************************)
(* "Its year-less timestamps would otherwise be silently wrong"            *)
(* (usb4n6.rs:264): every syslog record ingested carries a year that the   *)
(* examiner gave, one and the same for all syslogs.                        *)
(***************************************************************************)
YearNeverGuessed ==
    \A i, j \in DOMAIN ingested["linux"] :
        LET record == ingested["linux"][i]
        IN  /\ "year" \in DOMAIN record
            /\ \E k \in DOMAIN args : args[k].name = "year" /\ args[k].value = record.year
            /\ record.year = ingested["linux"][j].year

(***************************************************************************)
(* A file witnesses what happened to USB devices and nothing else.  An     *)
(* event log: not the host's own hubs, not the power operations between    *)
(* arrival and removal (driver_framework.rs:18, kernel_pnp.rs:36-38), and  *)
(* no arrival is taken for a removal.  A macOS capture: every device below *)
(* the "buses and hubs [that] are walked through" (macos_usb.rs:32), every *)
(* enumeration at the moment it happened in UTC (macos_unified_log.rs:26), *)
(* every device of the plist at its last connection (apple_ipod.rs:23).    *)
(* What a raw record means and what a capture saw the code cannot see.     *)
(***************************************************************************)
Meant(path, o, meanings) == {raw \in ToSet(FileAt[path].holds[o]) : raw.meaning \in meanings}

WitnessesOf(path, o) == {r \in ToSet(ingested[o]) : paths[r.file] = path}

LogWitnessesReal ==
    \A path \in ToSet(paths) \ gone :
        FileAt[path].kind = "evtx" /\ FileAt[path].intact =>
            /\ {r.record.at : r \in WitnessesOf(path, "kernel_pnp")}
                = {raw.time : raw \in Meant(path, "kernel_pnp", {"configured"})}
            /\ {<<r.record.at, r.record.disconnect>> :
                    r \in WitnessesOf(path, "driver_framework")}
                = {<<raw.time, raw.meaning = "removed">> :
                    raw \in Meant(path, "driver_framework", {"arrived", "removed"})}

Sighting(o, dev) ==
    <<dev.stick, CASE o = "mac_log" -> dev.when
                   [] o = "mac_usb" -> None
                   [] o = "apple_devices" -> dev.last_connected>>

CaptureWitnessesReal ==
    \A path \in ToSet(paths) \ gone, o \in {"mac_log", "mac_usb", "apple_devices"} :
        FileAt[path].intact /\ o \in OriginsOf(FileAt[path].kind) =>
            {Sighting(o, r.record) : r \in WitnessesOf(path, o)} = FileAt[path].saw

WitnessesReal == pc = "done" => LogWitnessesReal /\ CaptureWitnessesReal

-----------------------------------------------------------------------------
(***************************************************************************)
(* What a raw record means, by what stands in it: as the two logs are      *)
(* documented (kernel_pnp.rs:4-11, driver_framework.rs:4-19), and what a   *)
(* capture that saw a device says of it.                                   *)
(***************************************************************************)
OfUsbDevice(instance) == instance # None /\ instance.enumerator \in {"USB", "USBSTOR"}

PnpMeaning(raw) ==
    IF /\ raw.provider = "Kernel-PnP" /\ raw.event_id \in {400, 410, 430}
       /\ OfUsbDevice(raw.instance) /\ raw.time # None
    THEN "configured" ELSE "nothing"

\* The instances that a record names.
Instances(raw) == {ChildInstance(child) : child \in ToSet(raw.children)} \ {None}

UmdfMeaning(raw) ==
    IF /\ raw.provider = "DriverFrameworks" /\ raw.event_id \in {2003, 2102}
       /\ raw.time # None /\ \E instance \in Instances(raw) : OfUsbDevice(instance)
    THEN IF raw.event_id = 2003 THEN "arrived" ELSE "removed"
    ELSE "nothing"

\* Every record means what it says; no record is of two devices.
LogIsTrue(file) ==
    /\ \A raw \in ToSet(file.holds["kernel_pnp"]) : raw.meaning = PnpMeaning(raw)
    /\ \A raw \in ToSet(file.holds["driver_framework"]) :
        /\ raw.meaning = UmdfMeaning(raw)
        /\ IsList(raw.children) /\ \A i, j \in Instances(raw) : i = j

\* A line is of a stick just when it says "enumerated", with ids and a name.
LineIsTrue(line) ==
    line.stick # None <=>
        line.message # None /\ None \notin {line.message.vid, line.message.pid, line.message.name}

SawInLog(lines) ==
    {<<line.stick, line.timestamp.local - line.timestamp.offset>> :
        line \in {l \in ToSet(lines) : l.stick # None /\ l.timestamp # None}}

\* The nodes of the trees: those in every set of nodes that has the trees and,
\* with a node, what is right below it.
Below(trees) ==
    {node \in TreeNodes : \A S \in SUBSET TreeNodes :
        trees \subseteq S /\ (\A n \in S : ToSet(n.items) \subseteq S) => node \in S}

SawInTrees(trees) ==
    {<<node.stick, None>> :
        node \in {n \in Below(ToSet(trees)) : n.has_product_id \/ n.has_serial_num}}

\* No device was connected before 1970.
SawInPlist(entries) ==
    {<<entry.stick, entry.connected>> : entry \in {e \in ToSet(entries) : e.is_dictionary}}

EntryIsTrue(entry) == entry.connected # None => entry.connected >= 0

FilesAreTrue ==
    \A path \in Paths :
        LET file == FileAt[path]
        IN  /\ file.kind = "evtx" => LogIsTrue(file)
            /\ file.kind = "unified_log" /\ file.intact =>
                /\ \A line \in ToSet(file.holds["mac_log"]) : LineIsTrue(line)
                /\ file.saw = SawInLog(file.holds["mac_log"])
            /\ file.kind = "profiler" /\ file.intact =>
                file.saw = SawInTrees(file.holds["mac_usb"])
            /\ file.kind = "plist" /\ file.intact =>
                /\ \A entry \in ToSet(file.holds["apple_devices"]) : EntryIsTrue(entry)
                /\ file.saw = SawInPlist(file.holds["apple_devices"])

-----------------------------------------------------------------------------
Keys(claims) == {claim.device : claim \in ToSet(claims)}

KeysOf(o, r) ==
    IF o = "mac_usb" THEN Keys(MacUsbClaims(r.record, paths[r.file]))
    ELSE Keys(AppleIPodClaims(r.record, paths[r.file]))

(***************************************************************************)
(* "Key by the device serial when present (the cross-source identity)"     *)
(* (apple_ipod.rs:96, macos_usb.rs:100): what the plist and the profiler   *)
(* claim of devices that report a serial falls under one key for one       *)
(* device and under different keys for different ones, though they may be  *)
(* of one model and are decoded by different rules.                        *)
(***************************************************************************)
SerialIsTheKey ==
    pc = "done" => \A o1, o2 \in {"mac_usb", "apple_devices"} :
        \A r1 \in ToSet(ingested[o1]), r2 \in ToSet(ingested[o2]) :
            r1.record.serial # None /\ r2.record.serial # None =>
                \A key1 \in KeysOf(o1, r1), key2 \in KeysOf(o2, r2) :
                    key1 = key2 <=> r1.record.stick = r2.record.stick

\* The captures at hand: a serial is one device's, and each device has one.
Witnessed(o) == UNION {ToSet(Decoded[path][o]) : path \in Paths}

SerialsTellSticks ==
    \A o1, o2 \in {"mac_usb", "apple_devices"} :
        \A dev1 \in Witnessed(o1), dev2 \in Witnessed(o2) :
            dev1.serial # None /\ dev2.serial # None =>
                (dev1.serial = dev2.serial <=> dev1.stick = dev2.stick)

(***************************************************************************)
(* The tool comes to an end, whatever files go away: a file that is        *)
(* skipped is left behind.                                                 *)
(***************************************************************************)
Finishes == <>(pc \in {"done", "failed", "aborted"})

(***************************************************************************)
(* "Returns false (and reports) on I/O error" (usb4n6.rs:202): a run that  *)
(* exits with success has put the whole rendering on stdout, whatever      *)
(* became of whoever reads it, and one that does not has not.  A DOCX is   *)
(* left out, see WrittenWhole.                                             *)
(***************************************************************************)
SuccessIsComplete ==
    mode # "docx" /\ paths # <<>> =>
        /\ pc = "done" => output.shown = "all"
        /\ pc \in {"failed", "aborted"} => output.shown # "all"

(***************************************************************************)
(* The same of a DOCX too: the end of one may be lost at the exit.         *)
(***************************************************************************)
WrittenWhole == pc = "done" /\ paths # <<>> => output.shown = "all"

-----------------------------------------------------------------------------
\* The markers of every readable file tell what it is.
Recognised ==
    \A path \in Paths : FileAt[path].readable =>
        Sniff(FileAt[path].markers) = FileAt[path].kind

\* A file that the tool has left behind.
Handled(path) ==
    /\ FileAt[path].readable
    /\ Recognised =>
        /\ FileAt[path].kind = "syslog" => year # None
        /\ Damaged(path) => path \in reported

\* The file being read: of the three readers of an event log the first has
\* said that it cannot be read.
Reading ==
    sniffed # None =>
        /\ pc = "ingest" /\ next <= Len(paths) /\ File.readable
        /\ IF sniffed \in {"evtx pnp", "evtx umdf"}
           THEN Sniff(File.markers) = "evtx" /\ (File.intact \/ Path \in reported)
           ELSE sniffed = Sniff(File.markers)

\* How far the tool has come.
Progress ==
    /\ pc = "args" => paths = <<>> /\ sniffed = None /\ year = None
    /\ pc \in {"write", "exit", "done", "aborted"} /\ paths # <<>> => next = Len(paths) + 1
    /\ \A k \in 1..(next - 1) : Handled(paths[k])
    /\ pc = "failed" /\ paths # <<>> /\ Recognised =>
        \E path \in ToSet(paths) : Fatal(path) /\ path \in reported

\* Every syslog record carries the one year, and that was given.
YearKept ==
    /\ year # None => \E k \in DOMAIN args : args[k].name = "year" /\ args[k].value = year
    /\ IsList(ingested["linux"])
    /\ \A i \in DOMAIN ingested["linux"] :
        LET record == ingested["linux"][i]
        IN  "year" \in DOMAIN record /\ record.year = year /\ year # None

\* How far the rendering has come.
Written ==
    /\ pc \in {"args", "ingest", "write", "failed"} => output.shown = "nothing"
    /\ pc = "exit" => mode = "docx"
    /\ pc = "done" /\ mode # "docx" /\ paths # <<>> => output.shown = "all"
    /\ pc = "aborted" => output.shown # "all"

\* How far everything has come: the files left behind were readable, and named
\* when they could not be made sense of; the tool stands at the next one, or has
\* given up on a file that allows it (usb4n6.rs:41-84, 265-364).
Stage == TypeOK /\ Reading /\ Progress /\ YearKept /\ Written

\* How many files the reader of origin o has been given: of the three readers of
\* an event log some have already read the file at hand.
Reached(o) ==
    IF \/ o = "partition_diag" /\ sniffed \in {"evtx pnp", "evtx umdf"}
       \/ o = "kernel_pnp" /\ sniffed = "evtx umdf"
    THEN next ELSE next - 1

\* Whether the reader of origin o could still be given what a file holds, or would
\* have said so.
Accounted(o, path) == path \notin gone \/ (o \notin LateOrigins /\ path \notin reported)

\* What has been ingested of one origin, file by file.
FiledUpTo(o, n) ==
    /\ IsList(ingested[o]) /\ InFileOrder(ingested[o])
    /\ \A r \in ToSet(ingested[o]) :
            r.file \in 1..n /\ Contents({r}) \subseteq Contents(ToSet(Found(r.file, o)))
    /\ \A k \in 1..n : Accounted(o, paths[k]) =>
            Contents(FromFile(o, k)) = Genuine(Sniff(FileAt[paths[k]].markers), k, o)

Filed == \A o \in Origin : FiledUpTo(o, Reached(o))

(***************************************************************************)
(* What every step of main and ingest keeps up (the inductive invariant of *)
(* the proofs): how far the tool has come, and that each origin holds what *)
(* its reader found in the files up to there, in their order.              *)
(***************************************************************************)
IInv == Stage /\ Filed

(***************************************************************************)
(* "Total source records read, across every origin" (usb4n6.rs:238).       *)
(***************************************************************************)
CountsEveryOrigin ==
    pc = "done" => RecordCount = SumOf([o \in Origin |-> Len(ingested[o])])
=============================================================================
