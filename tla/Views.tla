------------------------------- MODULE Views -------------------------------
(***************************************************************************)
(* What is shown of the histories: the super-timeline (src/timeline.rs),   *)
(* the grid, the list of accessed files and the tables of the report       *)
(* (src/render.rs), without the wording around the rows.                   *)
(***************************************************************************)
EXTENDS Correlate

\* The devices of the histories, each once, in report order.
DevicesOf(hs) ==
    LET heads == InTurn({i \in DOMAIN hs : i = 1 \/ hs[i - 1].device # hs[i].device})
    IN  [i \in DOMAIN heads |-> hs[heads[i]].device]

TimelineEvent(entry, pv) ==
    [when |-> pv.value.at, device |-> entry.device, attribute |-> entry.attribute,
     source |-> pv.source, locator |-> pv.locator]

\* The derived order of TimelineEvent: the time first, then every other field.
EventRank(e) ==
    <<e.when, Rank(NameOrder, e.device), Rank(AttributeOrder, e.attribute),
      Rank(SourceOrder, e.source), Rank(LocatorOrder, e.locator)>>

\* The loops of super_timeline: the timestamps of every attribute.
TimedPlaces(hs) ==
    UNION {{<<i, j>> : j \in {k \in DOMAIN hs[i].values : ~ IsText(hs[i].values[k].value)}} :
        i \in DOMAIN hs}

EventAt(hs, place) == TimelineEvent(hs[place[1]], hs[place[1]].values[place[2]])

\* The sort: equal events stay as they came.
SuperTimeline(hs) ==
    LET order == ListedBy([place \in TimedPlaces(hs) |-> EventRank(EventAt(hs, place)) \o place])
    IN  [k \in DOMAIN order |-> EventAt(hs, order[k])]

Accesses(hs, device) ==
    FlattenSeq([i \in DOMAIN hs |->
        IF hs[i].device = device /\ hs[i].attribute = "AccessedFile" THEN hs[i].values ELSE <<>>])

\* render_accessed_files: a device with no file accesses is omitted.
AccessedFiles(hs) ==
    LET devices == DevicesOf(hs)
        touched == InTurn({i \in DOMAIN devices : Accesses(hs, devices[i]) # <<>>})
    IN  [k \in DOMAIN touched |->
            [device |-> devices[touched[k]], files |-> Accesses(hs, devices[touched[k]])]]

Row(entry, pv) ==
    [attribute |-> entry.attribute, consistency |-> entry.consistency, value |-> pv.value,
     source |-> pv.source, locator |-> pv.locator]

\* Mutant: one row an attribute.
RowsOfFirst(entry) == <<Row(entry, Head(entry.values))>>

RowsOf(entry) == [j \in DOMAIN entry.values |-> Row(entry, entry.values[j])]

\* The rows of one device: the entries of the others have none.
RowsFor(hs, device) ==
    FlattenSeq([k \in DOMAIN hs |-> IF hs[k].device = device THEN RowsOf(hs[k]) ELSE <<>>])

\* The device tables of render_report.
ReportTables(hs) ==
    LET devices == DevicesOf(hs)
    IN  [i \in DOMAIN devices |-> [device |-> devices[i], rows |-> RowsFor(hs, devices[i])]]

\* render_table: one line an attribute, its values side by side.
GridLine(entry) ==
    [attribute |-> entry.attribute, consistency |-> entry.consistency,
     values |-> [j \in DOMAIN entry.values |-> entry.values[j].value]]

LinesFor(hs, device) ==
    LET own == InTurn({k \in DOMAIN hs : hs[k].device = device})
    IN  [n \in DOMAIN own |-> GridLine(hs[own[n]])]

Grid(hs) ==
    LET devices == DevicesOf(hs)
    IN  [i \in DOMAIN devices |-> [device |-> devices[i], lines |-> LinesFor(hs, devices[i])]]

-----------------------------------------------------------------------------
CountIn(list, x) == Cardinality({i \in DOMAIN list : list[i] = x})

(***************************************************************************)
(* "Every timestamped value across all devices, in chronological order"    *)
(* (timeline.rs:33): the timeline has each timed claim as often as it was  *)
(* handed to the tool, under the device it ended up with, and no other.    *)
(***************************************************************************)
TimelineFaithful ==
    pc = "done" =>
        LET timeline == SuperTimeline(histories)
            timed == {i \in DOMAIN claims : ~ IsText(claims[i].value)}
            event == [i \in timed |-> TimelineEvent(claims[i], claims[i])]
        IN  /\ Len(timeline) = Cardinality(timed)
            /\ \A i \in timed : CountIn(timeline, event[i]) = CountIn(event, event[i])
            /\ \A i, j \in DOMAIN timeline : i < j => timeline[i].when <= timeline[j].when

(***************************************************************************)
(* "Ties broken deterministically" (timeline.rs:34): the timeline does not *)
(* depend on the order of the histories, or of the values within them, as  *)
(* when they come from several hosts or were re-read from JSONL.           *)
(***************************************************************************)
TimelineReproducible ==
    pc = "done" =>
        LET backwards == Reverse([i \in DOMAIN histories |->
                             [histories[i] EXCEPT !.values = Reverse(@)]])
        IN  SuperTimeline(backwards) = SuperTimeline(histories)

(***************************************************************************)
(* "For every device with recovered file accesses, the files opened from   *)
(* it, each with its source locator" (render.rs:66-69): no access is left  *)
(* out or listed under another device, and no device is listed twice.      *)
(***************************************************************************)
EveryAccessListed ==
    pc = "done" =>
        LET list == AccessedFiles(histories)
            accesses == {c \in ToSet(claims) : c.attribute = "AccessedFile"}
        IN  /\ {list[i].device : i \in DOMAIN list} = {c.device : c \in accesses}
            /\ \A i, j \in DOMAIN list : list[i].device = list[j].device => i = j
            /\ \A i \in DOMAIN list : \A c \in accesses :
                c.device = list[i].device =>
                    CountIn(list[i].files, Provenanced(c)) = CountIn(claims, c)

(***************************************************************************)
(* "Every reported value retains its source and locator" (render.rs:119):  *)
(* the tables show each claim, however many agree or disagree with it, and *)
(* the rows of one attribute show the values that its grade speaks of.     *)
(***************************************************************************)
EveryValueReported ==
    pc = "done" =>
        LET tables == ReportTables(histories)
        IN  \A c \in ToSet(claims) : \E i \in DOMAIN tables :
            /\ tables[i].device = c.device
            /\ LET rows == tables[i].rows
                   own == {j \in DOMAIN rows : rows[j].attribute = c.attribute}
               IN  /\ Cardinality({j \in own : Provenanced(rows[j]) = Provenanced(c)})
                        = CountIn(claims, c)
                   /\ \A j \in own : rows[j].consistency = Grade(Restrict(rows, own))

(***************************************************************************)
(* The grid ("datetimes formatted, consistency labelled", render.rs:1-3)   *)
(* has each value of each claim on the line of its attribute, under the    *)
(* grade of the claims that have that attribute.                           *)
(***************************************************************************)
EveryValueInGrid ==
    pc = "done" =>
        \A c \in ToSet(claims) : \E table \in ToSet(Grid(histories)) :
            /\ table.device = c.device
            /\ \E line \in ToSet(table.lines) :
                LET group == {i \in DOMAIN claims : GroupOf(claims[i]) = GroupOf(c)}
                IN  /\ line.attribute = c.attribute
                    /\ line.consistency = Grade(Restrict(claims, group))
                    /\ CountIn(line.values, c.value)
                         = Cardinality({i \in group : claims[i].value = c.value})

(***************************************************************************)
(* What the examiner reads is all of the evidence, in each of the views:   *)
(* none withholds a claim.                                                 *)
(***************************************************************************)
NothingWithheld ==
    TimelineFaithful /\ EveryAccessListed /\ EveryValueReported /\ EveryValueInGrid

(***************************************************************************)
(* The same evidence gives the same output (correlate.rs:44 and            *)
(* timeline.rs:34): neither the order of the claims nor that of the        *)
(* histories is seen in it.                                                *)
(***************************************************************************)
OutputReproducible == Reproducible /\ TimelineReproducible
=============================================================================
