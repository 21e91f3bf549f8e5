# usb-forensic: TLA+ models, checks and proofs

usb-forensic (`usb4n6`) reconstructs the history of USB devices from the artifacts
of a host: registry hives, event logs, text logs, shell links, disk images. Each
reader's records become *claims* (device, attribute, value, provenance); a fixed
sequence of passes re-keys the claims so that those of one device share a key,
groups and grades them, and raises findings. Nothing runs concurrently and nothing
is persisted. What is hard is that every pass rewrites the keys that the next one
reads, that evidence arrives in any order and in part, and that the output makes
statements ("corroborated", "conflict", "impossible ordering") about a world the
program never sees. The models therefore cover the passes as they run, one loop
iteration a step, and the whole pipeline behind a model of the examined host.

## 1. Inventory

| Part | Source | State | Operations | Model |
|---|---|---|---|---|
| Domain model | `model.rs`, `lib.rs` | none | `container`, `clock_is_local` | `Claims` |
| Source adapters | `sources/*.rs` | none | `claims()`: records to claims | `Adapters`, `MacCaptures`, `UnifiedLog` |
| Event-log decoders | `sources/kernel_pnp.rs`, `driver_framework.rs` | none | `kernel_pnp_events`, `driver_framework_events` | `EventLog` |
| macOS decoders | `sources/macos_*.rs`, `apple_ipod.rs` | none | `parse_unified_log`, `parse_system_profiler`, `parse_ipod_plist` | `MacCaptures` |
| Unified-log merge | `sources/macos_unified_log.rs:100-136` | map by VID/PID, output | merge loop, emit loop | `UnifiedLog` |
| Device-image decoder | `sources/device_image.rs` | sector buffer, fold over partitions | `analyse_device_image`, `read_region`, `claims` | `DeviceImage`, claims in `Adapters` |
| Clock normalisation | `tz.rs` | the claim list, in place | `normalize_local_clocks` | `Investigation!Normalized` |
| Serial reconciliation | `reconcile.rs:1-60` | `carriers`, output | two loops | `VolumeSerials`, `Attribution`, `Reconcile` |
| MountedDevices bridge | `reconcile.rs:62-114` | `names`, `canonical`, `remap`, output | three loops | `MountedVolumes`, `Bridging`, `Canonicalize` |
| Correlation | `correlate.rs` | `grouped`, histories | push loop, grade loop | `Grading`, `Correlate` |
| Audit | `report.rs` | label map | per-device rules, cross-device rule | `Report` |
| CLI, input | `bin/usb4n6.rs:41-200, 262-364` | `Ingested`, the file being read | argument parsing, `ingest` | `Ingest` |
| CLI, analysis | `bin/usb4n6.rs:366-420` | the claim list | `run` | `Investigation` |
| CLI, output | `bin/usb4n6.rs:202-212, 422-457` | standard output and its buffer | `write_binary`, `print!` | `Ingest` |
| Library entry | `source.rs` | none | `correlate_sources` | `Investigation!CorrelateSources` |
| Timeline, tables | `timeline.rs`, `render.rs` | none | `super_timeline`, `render_table`, `render_accessed_files` | `Views` (content, not layout) |
| Calendar | `render.rs:8-30` | none | `format_epoch`, `civil_from_days` | `Calendar` |
| Report | `render.rs:98-171` | none | `render_report` | `ReportText` |
| Binary documents | `pdf.rs`, `docx.rs` | offsets noted while writing | `render_pdf`, `render_docx`, `zip_stored` | `Pdf`, `Docx` |
| Examined host | outside the repository | sticks, artifacts | plug, unplug, open, browse, format, image | `Host` (external) |

All interaction is by value: `ingest` fills `Ingested`, the adapters turn it into
one claim list, and `run` threads that list through `normalize_local_clocks`,
`reconcile_volume_serials`, `canonicalize_mounted_volumes`, `correlate` and
`audit`, in that order (`bin/usb4n6.rs:396-419`).

What makes each part correct:

- *Serial reconciliation*: a claim moves only to the one device reported as the
  carrier of its key; whatever the order of the list; claims of one key move
  together; one pass is enough.
- *Bridge*: claims move only to a GUID of a partition with the claim's old name;
  all names of a partition end at one key; the order of the hives is irrelevant
  unless they contradict each other.
- *Correlation*: nothing is lost, doubled or misfiled; the grade describes the
  evidence; the output does not depend on the order of the input.
- *Audit*: a finding about an untampered host is not raised by clocks, by partial
  evidence or by ordinary use.
- *Input*: a file is read as what it is, whatever surrounds it; what a file loses
  by damage or by going away is reported; only an unreadable file or a syslog
  without a year ends the run; a reader finds the USB devices in its file and
  nothing else.
- *Device image*: the exported sector is the medium's; the strongest verdict on
  encryption and the first short serial win, in whatever order partitions come.
- *Unified log*: first and last enumeration are the extremes, not the list's ends.
- *Views*: what the examiner reads is all of the evidence, in an order that does
  not depend on how it was gathered.
- *Calendar*: every second has one date and time of day, and they mean it.
- *Documents*: from the bytes alone a reader of the format gets back every line of
  the report, whatever characters the evidence contains.
- *Output*: an examiner who sees success has the whole rendering.
- *Pipeline*: a file is listed under the stick it was opened from, a time under a
  stick that was there at that time; a reformat is found.

The hazards, with the line where each bites and the properties that would catch
it, are listed in `PROJECT.json`; those without a property say why.

## 2. Modules

A string of the program is a member of `Names`: the code compares strings and
never looks inside them, apart from formatting at the edges (the adapters), which
is taken as done in the records. Device keys and text values come from the same
set on purpose, since reconciliation compares one with the other. `Option::None`
is `None`; an absent map entry is `{}`, `<<>>` or `None`, as the comment at each
variable says. A `Claim` carries source and locator directly instead of a nested
provenance record.

- `Claims`: vocabulary and its one assumption (`None` is not a string).
- `Lists`: `ListedBy`, the members of a set in the order of their ranks; `InTurn`,
  places of a list from first to last; `Earliest`, the first of some places; and
  `Kept`, the elements at some places. They say what a sort or a filter leaves by
  what stands at each place; the provers know nothing of `SortSeq` and
  `SelectSeq`, so a module that is proved about uses these.
- `VolumeSerials`: the rule of `reconcile_volume_serials` as operators on a list.
  `AssertsCarrier` is the `let ... else` and the `if` of lines 33-38, `CarriersUpTo`
  the map after `n` iterations, `Resolve` the exactly-one test, `Rekeyed` the result.
- `Attribution`: the promise, in one step `AttributeAll`.
- `Reconcile`: the code. `ScanCarrier`/`ScanOther` are an iteration of the first
  loop (with and without the insert), `RekeyToCarrier`/`RekeyKeep` one of the
  second, `ScanEnd`/`RekeyEnd` the ends of the loops. `Abstract == INSTANCE
  Attribution` shows the output only when the loops are done.
- `DevicesAreNotIdentities` (in `Reconcile`) is the hypothesis of `Settled`: no
  device that reports a serial or letter is itself reported as one. The adapters
  key devices by instance serials, disk signatures and labels in angle brackets.
- `MountedVolumes`, `Bridging`, `Canonicalize`: the same three layers for
  `canonicalize_mounted_volumes`. `Bridging` is deliberately weaker than the
  operators: it allows any GUID recorded for a partition with the old name, so
  the overwrites of the two maps are the implementation's choice. The
  `BTreeMap` loop takes the least pending partition (`BridgePartition`).
- `Grading`: the derived orders of the enums, `Grade`, and `Correlated`, the result
  of `correlate` in one expression. `Arrangements` and `InOrder` say of a sort what
  it guarantees: the same values, in order; `IsReportOf` says the same of a whole
  report.
- `Correlate`: the push loop and the loop that consumes the sorted map, whose
  `sort` is an arrangement that is `InOrder`. The nested map is one function from
  (device, attribute); a `DeviceHistory` is the run of consecutive entries of one
  device.
- `Report`: `audit`, one operator a rule; findings are a set of records.
- `Views`: the super-timeline, the grid, the accessed-files list and the report
  tables as operators on the histories of `Correlate`.
- `Calendar`: `format_epoch` on integers, and beside it what a date means
  (`Denotes`), counted from January with the lengths of the months, independently
  of the code's eras that begin in March.
- `ReportText`: `render_report` as a sequence of tokens: characters that some
  reader treats specially, newlines, numbers, and runs of other characters. How a
  name is spelled in tokens is a CONSTANT. `TablesSay` reads the tables back.
- `Pdf`: `render_pdf`; the offset of a token is the number of tokens before it.
  `Kids`, `StreamOf` and `RowsShown` are a reader of the format: from the end of
  the file to the xref table, the page tree, the streams, and the strings in them.
- `Docx`: `render_docx`; a header field is one token, a character outside ASCII is
  three. `RecordRight`, `DataAt`, `Paragraphs` are its reader.
- `Adapters`: one operator per `claims()`, on decoded records.
- `EventLog`: which raw records of an `.evtx` become events.
- `MacCaptures`: the three macOS decoders and the claims of plist and profiler.
- `UnifiedLog`: `MacUnifiedLogSource::claims`; `MergeNew`/`MergeAgain` are an
  iteration of the first loop (id absent from or present in the map), `EmitDevice`
  one of the second, which takes the ids in order.
- `DeviceImage`: `analyse_device_image` and, before it, `read_region`, with one
  action for each thing a `Read` may do (`ReadSome`, `ReadError`, `ReadEnd`);
  `RecordPartition`/`SkipUnused` are the closure `record`.
- `Ingest`: `main` up to `run` and the loop of `ingest`: one action for reading and
  sniffing a file, one for each branch of the chain, three for an event log, which
  is opened three times by path. A file is a set of content markers, its true
  kind, whether it is intact, and what it holds. Then the output stage of `run`:
  `WriteAll`, `WriteFails`, and for a DOCX, which ends with no newline, `WriteDocx`
  and `FlushAtExit`. The environment makes a file go away (`Vanish`) or standard
  output fail (`BreakOutput`) at any step.
- `Reconcile_proofs`, `Canonicalize_proofs`, `Correlate_proofs`, `Ingest_proofs`,
  `DeviceImage_proofs`, `UnifiedLog_proofs`, `Investigation_proofs`: lemmas and
  theorems about the module they are named after (section 4). `Foundations_proofs`
  holds the lemmas that several of them need, and the theorem about `Calendar`.
- `Host`: external. Sticks with several successive volume serials are plugged in,
  removed, formatted, imaged, files are opened from them and folders browsed; each
  action updates the artifacts Windows would update, honestly. `setupapi` is
  written once, in local time; the registry keeps one entry per stick; event logs
  grow; caches of letters and mounts are overwritten. Opening a file leaves a link
  and a jump-list entry with its time, which may be the second of the event before:
  the only time the tool finds under a volume serial and moves to a stick. `truth`
  records what really happened, when each stick was there included, and is read by
  properties only.
- `Investigation`: composes `Host`, the adapters, the passes and the audit. The
  host lives, then `Collect` picks any collection of artifacts and a `--tz-offset`,
  then one action per line of `run`. Passes use the one-step operators; that the
  loops compute these is what `Reconcile`, `Canonicalize` and `Correlate` show.
  `CorrelateSources` is the library's other way through: every adapter, shellbags
  included, the serial reconciliation, correlation; no normalisation, no bridge.

Operators that a comment calls *Mutant* are plausible wrong versions of the
definition that follows them. No specification uses them: they document what
each property would catch.

A record sometimes carries a field the code cannot see (`stick`, `meaning`,
`truth`): which device or event it really is of. Only properties read it.

## 3. Runs

`CHECK_DEADLOCK FALSE` everywhere, because each machine ends: the functions return
and the tool exits.

| Run | What it explores | Shows |
|---|---|---|
| `reconcile` | every list of at most 4 of 9 claims: two devices, a serial, a letter, pseudo-devices | `IInv`, the refinement, `NeverGuesses`, `KeysMoveTogether`, `Settled` |
| `canonicalize` | every list of at most 3 volumes on two disks, two offsets, two GUIDs | `IInv`, the refinement, `SameVolumeSameKey`, `VolumeOrderIrrelevant` |
| `correlate` | every list of at most 4 of 10 claims over sources sharing and not sharing containers, with special characters in a path, a locator and a key | `IInv`, `GradeSound`, `GradesOnlyRise`, `EvidenceConserved`; the views and documents made of the histories: `NothingWithheld`, `OutputReproducible`, `PdfReadsBack`, `DocxReadsBack` |
| `clocks` | one stick, host at UTC+2, offset given, 5 events and files opened in the second of one, all sub-collections of 7 artifacts | `NoFalseOrdering`, `FirstConnectionAgrees` |
| `attribution` | two sticks that start as clones, 5 events and files opened in the second of one, 7 artifacts collected folder by folder (the system's two hives; the user's hive, links and jump lists; event log; image), through `usb4n6` and through the library | `FilesOnTheirDevice`, `TimesOnTheirDevice`, `ReformatFound`, `FolderAttributed` |
| `device_image` | every disk of at most 3 of 9 kinds of partition, MBR and GPT, media that end before, inside or at the end of the sector; every split, short end and failure of the reads | `IInv`, `SectorIsTheMedium`, `MostDefiniteSurfaced`, `FirstSerialKept`, `VerdictOnlyHardens` |
| `unified_log` | every capture of at most 4 enumerations of three sticks, two of one model, at three times | `IInv`, `SpanReported`, `OneClaimEach` |
| `ingest` | every command line of at most 3 of 16 files with two sets of options, at most 2 with a third; an event log and an E01 may go away, and standard output fail, at any step | `IInv`, `EveryFileReadAsItself`, `DamageReported`, `FatalOnlyAsDocumented`, `YearNeverGuessed`, `WitnessesReal`, `SerialIsTheKey`, `SuccessIsComplete`, `Finishes` |

Fairness. Only `ingest` checks a liveness property, `Finishes`, under
`WF_vars(Tool)`: the program is one thread that keeps running, every read of a
file and every write returns or fails, and nothing obliges a file to go away or
stdout to break. The other runs check safety and need no fairness.

The type invariant of a module is the first conjunct of its `IInv`, the inductive
invariant that section 4 proves; the runs check it as an invariant like any other.

Why the bounds are enough to matter. Four claims contain a pseudo-device's claim,
its carrier's, a second carrier's and a bystander's, in every order, with
duplicates. Three volumes give a partition a letter, a GUID and a second GUID, or
two partitions on one disk. Five events are two complete connections of a stick,
or a connection with a format, an opened file and an image; with files opened in
the second of another event they let two sticks be plugged in one after the other
and one of them be formatted and used. Otherwise the clock ticks once an event, so
an offset of two is larger than some intervals and smaller than others. Three
partitions put a weak verdict before, after and between stronger ones, and a long
serial, an unused partition and a short serial in every order. Four enumerations
hold an id merged twice, out of order, with another id between. Three files are a
damaged or fatal one with a good one on each side; the same file may be given
twice; sixteen files have every kind and every marker that two kinds share. In
the profiler capture a stick hangs below a dock below a hub; in the unified log
one line is written west and one east of UTC. The report of four claims about two
devices has about thirty lines, so with `LinesPerPage = 9` (the code: 60) the PDF
has several pages, the last one shorter. The two times are the last second of a
29 February and the one after it. `Crc32` is any function of the data here: a
reader computes the same one, and its bits are not modelled.

`Settled` is stated under `DevicesAreNotIdentities`, which every list of the run
meets. `FilesOnTheirDevice` and `TimesOnTheirDevice`
ask that the event log be collected: without it, a clone that left no other trace
cannot be told apart by anyone. `VolumeOrderIrrelevant` excludes hives that give a
partition two GUIDs, where the last one read wins.

### Disagreements between documentation and code

Four of them are runs expected to end in a violation, with the quoted line in
`PROJECT.json`:

- `image_volume`: on a disk with several partitions its image is attributed to the
  last partition that has a GUID; the serial it reports is that of the first.
- `ordering_no_tz`: the impossible-ordering finding is documented as free of false
  positives; without `--tz-offset` it fires on an untampered host east of UTC.
- `corroboration`: a cached volume is joined to a device on the word of the event
  log, then counted as independent support of that word. What is withheld there
  with the SYSTEM hive includes its MountedDevices entries. Times are no better
  off: an arrival in the event log and a jump list's access in the same second are
  graded corroborated, and without the event log the stick has no time at all (TLC:
  the same configuration with `CorroborationStands(Timed)`, event log and jump list
  collected, fails after two events).
- `one_stick`: event log and image name one stick by two keys; the serial becomes
  ambiguous and the files opened from it lose their attribution.

Eight more documented statements are written down as definitions and do not hold;
no run checks them:

- `Correlate!SingleSourceIsOneSource`: `SingleSource` is documented as "exactly one
  source" (`lib.rs:91`); it means one container, whose sources may contradict
  each other.
- `Investigation!HonestTimesAgree`: "independent sources disagree" (`report.rs:46`);
  event-log adapters give one "most recent" connection per event, so a stick
  plugged in twice is reported as sources in conflict.
- `Investigation!ReformattedIsReal`: "a volume whose label appears with two or more
  distinct volume serials" (`report.rs:93`); labels and serials of a device are
  paired crosswise, so a label that only ever had one serial is reported with two.
- `UnifiedLog!SpanPerDevice`: "first/last-connected times per device"
  (`macos_unified_log.rs:11`); the key is the model, so two sticks of one model get
  one span.
- `Ingest!CountsEveryOrigin`: "total source records read, across every origin"
  (`usb4n6.rs:238`); the mounted volumes are not counted.
- `Ingest!NothingHalfRead`: "all run on any `.evtx`" (`usb4n6.rs:339`), of the three
  readers of an event log; each opens the log again by its path, and the second and
  third say nothing when they cannot (`usb4n6.rs:132-134, 147-149`). A sound log
  that goes away after the first has read it is analysed by halves without a word
  (TLC: `MCIngest`, one file). `DamageReported` is the same of all other readers.
- `Ingest!WrittenWhole`: `SuccessIsComplete` of a DOCX too; the tail of one stays in
  the line buffer of stdout and is flushed at the exit, where a failure is ignored.
- `ReportText!ValuesStayInCells`: "so a value cannot break a Markdown table cell"
  (`render.rs:98`); `cell` escapes the bar only, and a line end in a file name or a
  locator ends the row in the middle of the cell (TLC: `MCCorrelate` with a line end
  in the spelling of the path).

## 4. Proofs

### `Reconcile_proofs`

For every set of strings, every set of claim lists of any length, and no bound:

- `LoopInvariant`, `TypeCorrect`: `Spec => []IInv`, `Spec => []TypeOK`;
- `NeverGuessesAlways`, `KeysMoveTogetherAlways`, `SettledAlways`;
- `RefinesAttribution`: `Spec => Abstract!Spec`.

`NeverGuesses` is not inductive: it speaks of the finished output. `IInv` adds what
the loops maintain: the map equals `CarriersUpTo` of the scanned prefix
(`CarriersMatch`), and each output claim equals the rule applied to the *whole*
input (`OutMatches`). The first loop keeps the former because one more claim adds
exactly its own device (`CarriersStep`, `CarriersNone`); the second needs the
former at full length. The safety properties then follow from what `Rekeyed` is
(`AllCopiedIsRekeyed`, `ResolveCases`), and the refinement from `RekeyEnd` being
the only step that makes output visible, at which point it is `Rekeyed(claims)`
(`DoneIsRekeyed`). Assumptions: `ClaimsAssumption` and `ReconcileAssumption`
(inputs are lists of claims).

`Settled` (a second pass changes nothing) needs more than the loops: re-keying must
not change who carries what. Under `DevicesAreNotIdentities` a claim that reports
an identity stays where it is (`ReportsStay`), so no identity gains or loses a
carrier (`CarriersStay`), and a re-keyed claim sits under a device that is no
identity and moves no further.

### `Canonicalize_proofs`

For claim lists and volume lists of any length:

- `BridgeInvariant`, `TypeCorrect`: `Spec => []IInv`, `Spec => []TypeOK`;
- `SameVolumeSameKeyAlways`, `VolumeOrderIrrelevantAlways`;
- `RefinesBridging`: `Spec => Abstract!Spec`.

The three loops hand one another maps that overwrite, so `IInv` says what is in a
map as an order does: a canonical entry is the GUID of the *last* entry read that
has one (`LastRead`), a remap entry that of the *last* partition passed
(`LastPassed`), the partitions passed come before those left (`InOrder`), and the
output is `Canonicalized` of the whole input, as far as copied. Entries read are a
set of positions, so that one more entry is one more element (`EntriesStep`). For
the order of the volumes: when no partition has two GUIDs, the last one is the
only one, and what is left of the rule speaks of sets (`RuleIgnoresOrder`).

### `Correlate_proofs`

For claim lists of any length over any strings and locators:

- `CorrelateInvariant`: `Spec => []IInv`;
- `EvidenceConservedAlways`, `GradeSoundAlways`;
- `GradesOnlyRiseAlways`, an action property;
- `OutputReproducibleAlways`: neither the order of the claims nor that of the
  histories is seen in the histories or the timeline;
- `NothingWithheldAlways`: the timeline, the list of accessed files, the report
  tables and the grid show every claim as often as it was handed over, under its
  device and the grade of its group;
- `PdfReadsBackAlways`: whatever characters the names in the report have, and
  however many lines go to a page, a reader of the PDF gets back its lines, each
  whole and in order.

`EvidenceConserved` compares multisets at the end. `IInv` says of every group at
every step that its evidence is in the map, or else in exactly one history entry,
each claim as often as it has been read (`EvidenceKept`, `HoldsUpTo`): a push adds
one to one count on both sides (`PushHolds`), a sort keeps the counts
(`ArrangementHolds`). `ReportInOrder` makes the entry unique. What a grade says of
the values shown with it is a fact about `Grade` alone (`GradeIsSound`: with two
containers and one value, removing any container leaves that value), and so is that
no further value takes corroboration or conflict back (`ReportGrows`,
`AnotherValue`).

For `OutputReproducible` the loops and the one-step `Correlated` are both shown to
meet `IsReportOf` (`LoopsReport`, `CorrelatedIsReport`), which speaks of counts and
of order, not of places. Two lists in strict order with the same elements, each as
often, are one list (`SortedUnique`), so only one report meets it (`ReportUnique`).
The claims and the claims reversed have the same counts; hence the same report.

For `NothingWithheld` each view is counted element by element. An event of the
timeline stands for one claim (`ClaimOfEvent`), and both are as many
(`EventCounts`), so the timeline is the sorted events of the timed claims
(`TimelineOfClaims`). The histories name a device once because their order never
returns to one (`DevicesListed`). What only one of several lists has is as often in
their concatenation as in that list (`FlattenCounts`): the accesses of a device are
those of its one entry for them (`AccessesOf`), the rows with the attribute of an
entry are those of the entry (`RowsOfDevice`). The grid shows values without their
provenance, so for it the values of an entry are matched with the claims of its
group one to one (`EvidencePlaced`, `ValuesCounted`).

`PdfReadsBack` is first proved of every list of texts (`FileReadsBack`), then the
report is shown to be one (`ReportTokens`, `LinesTexts`): that needs only that a
spelling is a sequence of strings (`SpellingAssumption`), and that `audit` has
finitely many findings (`AuditNoted`). A concatenation is described by where each
of its parts begins (`Laid` in `Foundations_proofs`), which is the same idea as the
xref table. From the inside out:

- *A string.* `pdf_escape` replaces three characters one after the other; together
  they put one backslash before each of the three (`EscapePieces`, which fails if
  the backslash is not the first). Within a run of backslashes every other one
  escapes (`EscapingAlternates`), so the escaping ones are those that were put in.
- *A page.* The parentheses that are not escaped are the two around each row, so
  a reader counting them sees depth 0 and 1 in turn (`RowsApart`, `RowReads`) and
  takes each row for one string (`PageReads`, `PageReadsBack`).
- *The file.* The k-th entry of the xref table is the length of what is before the
  k-th object (`PrefixLength`, `FileHolds`); the words a reader looks for are the
  first of their kind in an object (`FirstIn`, `WordFound`), so it gets from the
  root to the pages to the streams (`FileRead`), and the length of a stream, not a
  word in it, ends it (`StreamFound`).
- *The report.* The pages are consecutive and all lines are on them (`PagesLaid`),
  also when there is none and when the last is full.

### `Ingest_proofs`

For any files, command lines of any length, and any times at which files go away
or stdout fails:

- `IngestInvariant`: `Spec => []IInv`;
- `YearNeverGuessedAlways`, `SuccessIsCompleteAlways`;
- `DamageReportedAlways`, `FatalOnlyAsDocumentedAlways`,
  `EveryFileReadAsItselfAlways`, in the form `Spec => [](Recognised => ...)`;
- `SerialIsTheKeyAlways`, under `SerialsTellSticks`;
- `WitnessesRealAlways`, in the same form, under `FilesAreTrue`.

`Recognised` says that the content markers of a readable file lead the chain of
tests to its kind. No program can report damage in a file it takes for another
kind, so the hypothesis is needed; the files of the run meet it (TLC checks the
properties without it), among them files that carry several markers.
`SerialsTellSticks` says that a serial in a macOS capture is one device's: Apple's
serials are unique, and the code has nothing else to join two captures by. It is a
condition on the constants, and the run evaluates it on its files.

`FilesAreTrue` is the same kind of condition for `WitnessesReal`. What a raw
record is about (`meaning`, `stick`, `saw`) is a constant of the model, and the
hypothesis ties it to the fields that the two logs are documented with
(`kernel_pnp.rs:4-11`, `driver_framework.rs:4-19`) and to the nodes of a profiler's
trees; it says nothing of the order of filters, early returns and defaults that the
decoders have. `Below` gives the nodes of a tree as the least set with its roots
that is closed under children, and `Walk` goes through them by recursion. A tree
as a `serde_json` value has no node above itself, which `TreeAssumption` says by a
node without items in it in every set of nodes. `WalkRight` shows from it, on a
lowest node where the recursion would go wrong, that `Walk` satisfies its equation,
and `WalkedMembers`, `WalkFinds` that it returns the matching nodes below the root
and no other.

`IInv` has two halves. `Stage` is the control: of every file left behind, that it
was readable, and was named if it was damaged (`Progress`, `Handled`); of the file
being read, between the three opens of an event log, that the first has spoken for
the others (`Reading`); of the syslog records, one by one, where their year comes
from (`YearKept`); and what each exit state says of stdout (`Written`). `Filed` is
the data: what each list of `Ingested` holds, file by file, up to the file its
reader was last given, which inside an event log differs from reader to reader
(`Reached`). A file that stays readable has left in each list just what a reader
of its sniffed kind finds in it (`Genuine`), and so has one that went away without
being named on stderr, in every list but those of the two silent readers
(`Accounted`); any other no more than that. From the former follows
`EveryFileReadAsItself`, from the latter `DamageReported`. `Kept` of one more file
is an append (lemmas on `Kept`), so each action adds its file to the readers it
calls and leaves the others where they are.

### `Foundations_proofs`

`EveryEpochRendered`: for *every* integer of seconds, `format_epoch` gives a date
that exists in the Gregorian calendar and a time of day, and they denote that
second. The code's division by 1460, 36524 and 146096 is shown right within an era
by bounding the quotients (`YearOfEraRight`), the months by cases (`MonthRight`),
and 400 years repeat the calendar (`EraRepeats`). The proof is over the integers;
the code's `i64` holds every intermediate value of any `i64` time.

The shared lemmas: least and greatest members of sets of numbers; `Before` is a
strict order of ranks; `ListedBy` gives each member one place, in order; a sorted
list is determined by its counts; the members of `FlattenSeq` and `AsSeq`. The last
two are recursive functions of the community modules, and a smallest
counterexample (`WFMin`, which takes a set and no operator) stands in for the
induction that cannot be cited.

### `Investigation_proofs`

For every set of sticks, every history of the host, however long, every collection
of its artifacts and both entry points where the property has them:

- `HonestRecords`: `Spec => []IInv`;
- `NoFalseOrderingAlways`, `FirstConnectionAgreesAlways`, for `usb4n6` told the
  host's offset (`EntryPoints = {"usb4n6"}`, `TzChoices = {HostOffset}`, `NamesApart`);
- `ReformatFoundAlways` (`Empty \notin Labels`: a volume without a label has none to
  keep);
- `FolderAttributedAlways` (`NamesApart`);
- `FilesOnTheirDeviceAlways`, `TimesOnTheirDeviceAlways` (`NamesApart`,
  `SticksApart`).

The offset is a real hypothesis: without it the first fails, which is the run
`ordering_no_tz`. `NamesApart` says that a volume serial, a drive letter and the
empty string are not the instance serial, disk name or GUID of a stick, strings
which Windows writes in different forms. `SticksApart` says that two sticks have
different keys and that a format draws a fresh serial, which is what makes a
volume serial evidence at all; the first serials may be shared, as by clones. Both
are named conditions on the constants, which the runs evaluate
(`SticksAssumption`).

`IInv` says of the host what each kind of record may be after an honest history
(`HostInv`: a registry entry's first install is no later than its arrival, nothing
about a stick is older than its registry entry, a link's serial is the one its
stick had), that every time a record gives for a stick is one when it was there
(`TimesTrue`), and of the tool that a finished analysis is what its passes make of
the evidence (`ToolInv`). The rest of the argument is about one analysis. What a
record tells is a set (`Told`); the gathered list has the told claims and no other;
normalisation moves a local time by the offset; reconciliation and bridge re-key a
claim as a function of its key alone, and change nothing else of it, so the claims
of a stick, which may end up under several keys, are followed place by place. For
the ordering: each key is one stick's, a stick's earliest first time is its
registry entry or its setup entry minus the offset, and no last time is older. A
jump list's time may come to a stick that has been there for longer than its other
records say; it gets there only on the word of an arrival, which is itself a last
connection (`ArrivalFiled`, `LastFiled`). For
a volume serial: with the event log in evidence its carriers are the sticks it was
seen with, so a claim moves only where one stick has it (`SerialHome`), and the
bridge moves a key only to another key of the stick (`BridgeKeepsStick`). A time
under a stick is thus told of that stick, which `TimesTrue` speaks of, or of a
serial with which the stick was seen (`TimeGiven`); it is filed under that stick or
under none (`TimeKept`), and no pass changes a UTC time.

### `DeviceImage_proofs`

For every sector length, every medium, every list of partitions and every way the
reads are split, cut short or fail:

- `ImageInvariant`: `Spec => []IInv`;
- `SectorIsTheMediumAlways`, `MostDefiniteSurfacedAlways`, `FirstSerialKeptAlways`;
- `VerdictOnlyHardensAlways`, an action property.

What a fold computes is not provable by induction over the list here, so `IInv`
says what its value *is* rather than how it came about: `IsMostDefinite` (the kind
of some partition passed, none passed is more definite, none before it as
definite) and `IsFirstSerial`. One more partition keeps each (`DefiniteStep`,
`SerialStep`, `SkipStep`). For the buffer, `IInv` says it is the prefix of the
medium read so far, padded with zeros; each read extends the prefix by what it
returned.

### `UnifiedLog_proofs`

For captures of any length over any ids and times:

- `LogInvariant`: `Spec => []IInv`;
- `SpanReportedAlways`, `OneClaimEachAlways`.

`IInv` says that an entry of the map holds the extremes of the events of its id
among those merged (`SpanOfFirst`, `SpanWidened`, `SpanUntouched` for one event
more), and that the output is made of the claims of ids no longer in the map
(`AppendedClaims`), so that an id is either still to come or claimed once.

Apart from the hypotheses named above, the assumptions of all of them are those
named in the modules; every run evaluates them on its instance.

Writing the proofs corrected one definition: `Ingest!Genuine`, what a text file
yields, was tied to the file being intact, although the text readers read whatever
lines they can; the lemma for a damaged text file was false.

Only model-checked:

- `DocxReadsBack`: from the document a reader gets back the tables, cell by cell,
  and from each cell the claim; that is so only of names without line ends, since
  `cell` escapes the bar and nothing else (section 3, `ValuesStayInCells`), and a
  proof has to assume them and follow the text through lines, rows, XML and ZIP;
- `Finishes`: liveness is out of the prover's reach.

## 5. Plan

Done: serial reconciliation and bridge (modelled, refined, proved); correlation
and the reproducibility of its output (modelled, proved); ingestion with its output
stage (modelled, checked, safety proved); the device-image decoder and the
unified-log merge (modelled, proved); all adapters; audit; the pipeline and the
library entry (modelled, safety proved); the views and the calendar (proved), the
report and both binary documents.

What would come next:

1. Images of two GPT disks, which share the key `disk-00000000`, beside the
   `canonicalize` run; a drive letter reassigned between two browsed folders; hosts
   with empty or zero identities; the target path of a link against its documented
   order.
2. `tz.rs` on 64-bit integers: the overflow of the offset subtraction.
3. `Ingest` refined to an order-free specification of what a set of files yields.

## 6. Not modelled

Byte-level parsing (the reader crates, JSON and plist field access, signatures of
files; here also belongs that an offset of five bytes with a character outside
ASCII among them is cut inside that character, and panics, at
`macos_unified_log.rs:79`), the padding of the grid, page geometry and fonts, the
bits of `crc32`, the hex dump of `--export-mbr`, severity and wording of findings,
serialization to JSONL, and the fields no claim is made from (vendor, product,
manufacturer). They are either outside this repository or formatting no property
is about. The readers' *results* are modelled: a record either is decoded or is
not there. An event that a reader crate decodes wrongly is out of scope.
