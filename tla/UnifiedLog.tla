----------------------------- MODULE UnifiedLog -----------------------------
(***************************************************************************)
(* MacUnifiedLogSource::claims (src/sources/macos_unified_log.rs): the     *)
(* enumerations of a log capture are merged into the first and the last    *)
(* connection of each device, a device being a vendor and product id.      *)
(***************************************************************************)
EXTENDS Claims, Sequences

CONSTANTS
    Ids,            \* vendor/product ids, in their order: numbers
    UsbName,        \* id -> the device key "usb-VVVV-PPPP"
    Locator,        \* of the capture
    Sticks,         \* the devices that were enumerated; the code cannot see them
    Captures        \* the lists of enumerations a capture may hold

Enumeration == [id : Ids, name : Names, when : Int, stick : Sticks]

ASSUME UnifiedLogAssumption ==
    /\ Ids \subseteq Nat
    /\ UsbName \in [Ids -> Names]
    /\ \A a, b \in Ids : UsbName[a] = UsbName[b] => a = b
    /\ Locator \in Locators
    /\ Captures \subseteq Seq(Enumeration)

VARIABLES
    events,     \* the capture
    pc,         \* "merge" (first loop), "emit" (second loop), "done"
    next,       \* index of the event to merge
    by_device,  \* id -> [first, last, name], or [none |-> TRUE]: no map entry
    out         \* the claims so far

vars == <<events, pc, next, by_device, out>>

NoEntry == [none |-> TRUE]

MapEntry == [first : Int, last : Int, name : Names]

Pending == {id \in Ids : by_device[id] # NoEntry}

MacClaim(id, attribute, value) ==
    [device |-> UsbName[id], attribute |-> attribute, value |-> value,
     source |-> "MacosUnifiedLog", locator |-> Locator]

\* Types: no absent entry is ever merged into or emitted.
TypeOK ==
    /\ events \in Captures
    /\ pc \in {"merge", "emit", "done"}
    /\ next \in 1..(Len(events) + 1)
    /\ by_device \in [Ids -> MapEntry \cup {NoEntry}]
    /\ out \in Seq(Claim)

Init ==
    /\ events \in Captures
    /\ pc = "merge"
    /\ next = 1
    /\ by_device = [id \in Ids |-> NoEntry]
    /\ out = <<>>

This == events[next]

\* The first enumeration of an id: or_insert.
MergeNew ==
    /\ pc = "merge" /\ next <= Len(events)
    /\ by_device[This.id] = NoEntry
    /\ by_device' = [by_device EXCEPT ![This.id] =
                        [first |-> This.when, last |-> This.when, name |-> This.name]]
    /\ next' = next + 1
    /\ UNCHANGED <<events, pc, out>>

\* Mutant: the log is taken to be in chronological order.
MergeInOrder ==
    /\ pc = "merge" /\ next <= Len(events)
    /\ by_device[This.id] # NoEntry
    /\ by_device' = [by_device EXCEPT ![This.id] = [@ EXCEPT !.last = This.when]]
    /\ next' = next + 1
    /\ UNCHANGED <<events, pc, out>>

Merged(entry, when) ==
    [first |-> IF when < entry.first THEN when ELSE entry.first,
     last |-> IF when > entry.last THEN when ELSE entry.last,
     name |-> entry.name]

\* A later one: min and max of the times; the name stays.
MergeAgain ==
    /\ pc = "merge" /\ next <= Len(events)
    /\ by_device[This.id] # NoEntry
    /\ by_device' = [by_device EXCEPT ![This.id] = Merged(@, This.when)]
    /\ next' = next + 1
    /\ UNCHANGED <<events, pc, out>>

MergeEnd ==
    /\ pc = "merge" /\ next > Len(events)
    /\ pc' = "emit"
    /\ UNCHANGED <<events, next, by_device, out>>

EntryClaims(id, entry) ==
    <<MacClaim(id, "FirstConnected", Timestamp(entry.first)),
      MacClaim(id, "LastConnected", Timestamp(entry.last))>>
    \o IF entry.name # Empty THEN <<MacClaim(id, "VolumeName", Text(entry.name))>> ELSE <<>>

\* Mutant: the map is read and not consumed.
EmitAndKeep ==
    /\ pc = "emit"
    /\ \E id \in Pending :
        /\ \A other \in Pending : id <= other
        /\ out' = out \o EntryClaims(id, by_device[id])
    /\ UNCHANGED <<events, pc, next, by_device>>

\* The second loop consumes the map in the order of its keys.
EmitDevice ==
    /\ pc = "emit"
    /\ \E id \in Pending :
        /\ \A other \in Pending : id <= other
        /\ out' = out \o EntryClaims(id, by_device[id])
        /\ by_device' = [by_device EXCEPT ![id] = NoEntry]
    /\ UNCHANGED <<events, pc, next>>

EmitEnd ==
    /\ pc = "emit" /\ Pending = {}
    /\ pc' = "done"
    /\ UNCHANGED <<events, next, by_device, out>>

Next == MergeNew \/ MergeAgain \/ MergeEnd \/ EmitDevice \/ EmitEnd

Spec == Init /\ [][Next]_vars

-----------------------------------------------------------------------------
\* The enumerations of an id among the first n - 1 events.
Seen(id, n) == {j \in 1..Len(events) : j < n /\ events[j].id = id}

IsFirst(at, id, n) ==
    /\ \E j \in Seen(id, n) : events[j].when = at
    /\ \A j \in Seen(id, n) : at <= events[j].when

IsLast(at, id, n) ==
    /\ \E j \in Seen(id, n) : events[j].when = at
    /\ \A j \in Seen(id, n) : events[j].when <= at

Everything == Len(events) + 1

\* A claim gives its id the first or last time of all its enumerations.
ClaimTrue(claim) ==
    \E id \in Ids :
        /\ claim.device = UsbName[id]
        /\ claim.attribute = "FirstConnected" => IsFirst(claim.value.at, id, Everything)
        /\ claim.attribute = "LastConnected" => IsLast(claim.value.at, id, Everything)

Claimed(id, attribute) ==
    \E i \in DOMAIN out : out[i].device = UsbName[id] /\ out[i].attribute = attribute

(***************************************************************************)
(* What the loops maintain: while merging, the map holds the span of the   *)
(* events passed; while emitting, an id is in the map, or in the claims,   *)
(* or was never enumerated.                                                *)
(***************************************************************************)
IInv ==
    /\ TypeOK
    /\ pc = "merge" =>
        /\ out = <<>>
        /\ \A id \in Ids : by_device[id] = NoEntry => Seen(id, next) = {}
    /\ pc # "merge" => next = Everything
    /\ \A id \in Pending :
        /\ IsFirst(by_device[id].first, id, next)
        /\ IsLast(by_device[id].last, id, next)
        /\ \A i \in DOMAIN out : out[i].device # UsbName[id]
    /\ pc # "merge" => \A id \in Ids :
        by_device[id] = NoEntry =>
            \/ Seen(id, Everything) = {}
            \/ Claimed(id, "FirstConnected") /\ Claimed(id, "LastConnected")
    /\ pc = "done" => Pending = {}
    /\ \A i \in DOMAIN out : ClaimTrue(out[i])

(***************************************************************************)
(* "Its first and last connect time" (macos_unified_log.rs:107): every id  *)
(* of the capture gets both, and they are those of all its enumerations,   *)
(* wherever in the capture they stand.                                     *)
(***************************************************************************)
SpanReported ==
    pc = "done" =>
        /\ \A i \in DOMAIN out : ClaimTrue(out[i])
        /\ \A id \in Ids : Seen(id, Everything) # {} =>
            Claimed(id, "FirstConnected") /\ Claimed(id, "LastConnected")

(***************************************************************************)
(* One capture never disagrees with itself: no device gets two values of   *)
(* one attribute.                                                          *)
(***************************************************************************)
OneClaimEach ==
    \A i, j \in DOMAIN out :
        out[i].device = out[j].device /\ out[i].attribute = out[j].attribute => i = j

TimesOf(stick) ==
    {events[j].when : j \in {k \in DOMAIN events : events[k].stick = stick}}

(***************************************************************************)
(* "This reader parses those events into first/last-connected times per    *)
(* device" (macos_unified_log.rs:11): some key of the output has the first *)
(* and the last time of each device.                                       *)
(***************************************************************************)
SpanPerDevice ==
    pc = "done" =>
        \A stick \in Sticks : TimesOf(stick) # {} =>
            \E i, j \in DOMAIN out :
                /\ out[i].device = out[j].device
                /\ out[i].attribute = "FirstConnected" /\ out[j].attribute = "LastConnected"
                /\ out[i].value.at \in TimesOf(stick) /\ out[j].value.at \in TimesOf(stick)
                /\ \A at \in TimesOf(stick) : out[i].value.at <= at /\ at <= out[j].value.at
=============================================================================
