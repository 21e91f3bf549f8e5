------------------------- MODULE UnifiedLog_proofs -------------------------
(***************************************************************************)
(* For captures of any length and any set of ids: the claims give every    *)
(* enumerated id exactly the first and the last of its times.              *)
(***************************************************************************)
EXTENDS UnifiedLog, TLAPS

-----------------------------------------------------------------------------
LEMMA CaptureType ==
    ASSUME events \in Captures
    PROVE  /\ Len(events) \in Nat
           /\ \A j \in 1..Len(events) :
                events[j].id \in Ids /\ events[j].when \in Int /\ events[j].name \in Names
<1>1. events \in Seq(Enumeration)
  BY UnifiedLogAssumption
<1>2. Len(events) \in Nat /\ \A j \in 1..Len(events) : events[j] \in Enumeration
  BY <1>1
<1> QED BY <1>2 DEF Enumeration

\* Passing an event shows it under its own id and under no other.
LEMMA SeenStep ==
    ASSUME NEW n \in 1..Len(events), Len(events) \in Nat, NEW id
    PROVE  Seen(id, n + 1) = Seen(id, n) \cup (IF events[n].id = id THEN {n} ELSE {})
<1>1. \A j \in 1..Len(events) : j < n + 1 <=> j < n \/ j = n
  OBVIOUS
<1> QED BY <1>1 DEF Seen

LEMMA SeenBelow ==
    ASSUME NEW id, NEW n, NEW j \in Seen(id, n)
    PROVE  j \in 1..Len(events)
BY DEF Seen

\* A map entry is not the absent one.
LEMMA EntryPresent ==
    ASSUME NEW first, NEW last, NEW name
    PROVE  [first |-> first, last |-> last, name |-> name] # NoEntry
BY DEF NoEntry

\* The claims of one map entry: the two times, and perhaps a name.
LEMMA EntryClaimsAre ==
    ASSUME NEW id \in Ids, NEW entry \in MapEntry
    PROVE  LET ec == EntryClaims(id, entry) IN
           /\ ec \in Seq(Claim)
           /\ Len(ec) \in 2..3
           /\ ec[1] = MacClaim(id, "FirstConnected", Timestamp(entry.first))
           /\ ec[2] = MacClaim(id, "LastConnected", Timestamp(entry.last))
           /\ Len(ec) = 3 => ec[3] = MacClaim(id, "VolumeName", Text(entry.name))
<1> DEFINE times == <<MacClaim(id, "FirstConnected", Timestamp(entry.first)),
                      MacClaim(id, "LastConnected", Timestamp(entry.last))>>
           label == MacClaim(id, "VolumeName", Text(entry.name))
<1>1. /\ UsbName[id] \in Names /\ Locator \in Locators
      /\ entry.first \in Int /\ entry.last \in Int /\ entry.name \in Names
  BY UnifiedLogAssumption DEF MapEntry
<1>2. MacClaim(id, "FirstConnected", Timestamp(entry.first)) \in Claim
  BY <1>1 DEF MacClaim, Claim, Value, Timestamp, Attribute, SourceKind
<1>3. MacClaim(id, "LastConnected", Timestamp(entry.last)) \in Claim
  BY <1>1 DEF MacClaim, Claim, Value, Timestamp, Attribute, SourceKind
<1>4. label \in Claim
  BY <1>1 DEF MacClaim, Claim, Value, Text, Attribute, SourceKind
<1> HIDE DEF label
<1>5. times \in Seq(Claim) /\ Len(times) = 2
  BY <1>2, <1>3
<1>6. CASE entry.name # Empty
  <2>1. EntryClaims(id, entry) = times \o <<label>>
    BY <1>6 DEF EntryClaims, label
  <2> QED BY <1>4, <1>5, <2>1 DEF label
<1>7. CASE entry.name = Empty
  <2>1. EntryClaims(id, entry) = times \o << >>
    BY <1>7 DEF EntryClaims
  <2> QED BY <1>5, <2>1
<1> QED BY <1>6, <1>7
-----------------------------------------------------------------------------
\* A first event is its own span.
LEMMA SpanOfFirst ==
    ASSUME events \in Captures, NEW n \in 1..Len(events),
           NEW id, events[n].id = id, Seen(id, n) = {}
    PROVE  IsFirst(events[n].when, id, n + 1) /\ IsLast(events[n].when, id, n + 1)
<1>1. Seen(id, n + 1) = {n}
  BY CaptureType, SeenStep
<1>2. events[n].when \in Int
  BY CaptureType
<1> QED BY <1>1, <1>2 DEF IsFirst, IsLast

\* A later event widens the span of its id.
LEMMA SpanWidened ==
    ASSUME events \in Captures, NEW n \in 1..Len(events), NEW id, events[n].id = id,
           NEW entry \in MapEntry, IsFirst(entry.first, id, n), IsLast(entry.last, id, n)
    PROVE  /\ IsFirst(Merged(entry, events[n].when).first, id, n + 1)
           /\ IsLast(Merged(entry, events[n].when).last, id, n + 1)
<1>1. Seen(id, n + 1) = Seen(id, n) \cup {n}
  BY CaptureType, SeenStep
<1>2. /\ events[n].when \in Int /\ entry.first \in Int /\ entry.last \in Int
      /\ \A j \in Seen(id, n) : events[j].when \in Int
  BY CaptureType, SeenBelow DEF MapEntry
<1>3. IsFirst(Merged(entry, events[n].when).first, id, n + 1)
  BY <1>1, <1>2 DEF IsFirst, Merged
<1>4. IsLast(Merged(entry, events[n].when).last, id, n + 1)
  BY <1>1, <1>2 DEF IsLast, Merged
<1> QED BY <1>3, <1>4

\* The events of other ids leave the span of an id alone.
LEMMA SpanUntouched ==
    ASSUME events \in Captures, NEW n \in 1..Len(events), NEW id, events[n].id # id
    PROVE  Seen(id, n + 1) = Seen(id, n)
BY CaptureType, SeenStep

LEMMA NothingSeenAtFirst == \A id : Seen(id, 1) = {}
<1>1. \A j \in 1..Len(events) : ~ (j < 1)
  OBVIOUS
<1> QED BY <1>1 DEF Seen

\* The capture stays the same, so what was seen of it may be read on either
\* side of a step.
LEMMA SameCapture ==
    ASSUME events' = events
    PROVE  /\ \A id, n : Seen(id, n)' = Seen(id, n)
           /\ \A at, id, n : IsFirst(at, id, n)' <=> IsFirst(at, id, n)
           /\ \A at, id, n : IsLast(at, id, n)' <=> IsLast(at, id, n)
           /\ Everything' = Everything
           /\ \A claim : ClaimTrue(claim)' <=> ClaimTrue(claim)
BY DEF Seen, IsFirst, IsLast, Everything, ClaimTrue

-----------------------------------------------------------------------------
\* What holds of every claim of the list stays so when true claims follow it.
LEMMA AppendedClaims ==
    ASSUME NEW before \in Seq(Claim), NEW id \in Ids, NEW entry \in MapEntry
    PROVE  LET after == before \o EntryClaims(id, entry) IN
           /\ after \in Seq(Claim)
           /\ Len(after) >= Len(before) + 2
           /\ \A i \in 1..Len(before) : i \in DOMAIN after /\ after[i] = before[i]
           /\ Len(before) + 1 \in DOMAIN after /\ Len(before) + 2 \in DOMAIN after
           /\ after[Len(before) + 1] = MacClaim(id, "FirstConnected", Timestamp(entry.first))
           /\ after[Len(before) + 2] = MacClaim(id, "LastConnected", Timestamp(entry.last))
           /\ \A i \in DOMAIN after :
                \/ i \in 1..Len(before)
                \/ i = Len(before) + 1
                \/ i = Len(before) + 2
                \/ i = Len(before) + 3 /\ after[i] = MacClaim(id, "VolumeName", Text(entry.name))
<1> DEFINE ec == EntryClaims(id, entry)
<1>1. /\ ec \in Seq(Claim) /\ Len(ec) \in 2..3
      /\ ec[1] = MacClaim(id, "FirstConnected", Timestamp(entry.first))
      /\ ec[2] = MacClaim(id, "LastConnected", Timestamp(entry.last))
      /\ Len(ec) = 3 => ec[3] = MacClaim(id, "VolumeName", Text(entry.name))
  BY EntryClaimsAre
<1> HIDE DEF ec
<1>2. /\ before \o ec \in Seq(Claim)
      /\ Len(before \o ec) = Len(before) + Len(ec)
      /\ DOMAIN (before \o ec) = 1..(Len(before) + Len(ec))
      /\ Len(before) \in Nat
      /\ \A i \in 1..Len(before) : (before \o ec)[i] = before[i]
      /\ \A i \in 1..Len(ec) : (before \o ec)[Len(before) + i] = ec[i]
  BY <1>1
<1>3. /\ (before \o ec)[Len(before) + 1] = ec[1]
      /\ (before \o ec)[Len(before) + 2] = ec[2]
      /\ Len(ec) = 3 => (before \o ec)[Len(before) + 3] = ec[3]
  BY <1>1, <1>2
<1>4. \A i \in 1..(Len(before) + Len(ec)) :
          \/ i \in 1..Len(before)
          \/ i = Len(before) + 1
          \/ i = Len(before) + 2
          \/ i = Len(before) + 3 /\ Len(ec) = 3
  BY <1>1, <1>2
<1>5. \A i \in DOMAIN (before \o ec) :
          \/ i \in 1..Len(before)
          \/ i = Len(before) + 1
          \/ i = Len(before) + 2
          \/ i = Len(before) + 3 /\ (before \o ec)[i] = MacClaim(id, "VolumeName", Text(entry.name))
  BY <1>1, <1>2, <1>3, <1>4
<1>6. /\ Len(before \o ec) >= Len(before) + 2
      /\ Len(before) + 1 \in DOMAIN (before \o ec) /\ Len(before) + 2 \in DOMAIN (before \o ec)
      /\ \A i \in 1..Len(before) : i \in DOMAIN (before \o ec)
  BY <1>1, <1>2
<1> QED BY <1>1, <1>2, <1>3, <1>5, <1>6 DEF ec

\* The start: an empty map and nothing seen.
LEMMA InitIInv == Init => IInv
<1> SUFFICES ASSUME Init PROVE IInv
  OBVIOUS
<1>1. Len(events) \in Nat
  BY CaptureType DEF Init
<1>2. TypeOK
  BY <1>1 DEF Init, TypeOK
<1>3. Pending = {} /\ DOMAIN out = {}
  BY DEF Init, Pending
<1> QED BY <1>2, <1>3, NothingSeenAtFirst DEF Init, IInv

\* The first loop: the map describes one more event.
LEMMA MergeIInv ==
    ASSUME IInv, MergeNew \/ MergeAgain
    PROVE  IInv'
<1> DEFINE n == next
           id == This.id
           new == by_device'[id]
<1>1. /\ pc = "merge" /\ pc' = pc /\ next' = n + 1 /\ out = <<>> /\ out' = out /\ events' = events
      /\ events \in Captures /\ n \in 1..Len(events) /\ Len(events) \in Nat
      /\ id \in Ids /\ events[n].id = id /\ This.when = events[n].when
      /\ This.when \in Int /\ This.name \in Names
      /\ by_device \in [Ids -> MapEntry \cup {NoEntry}]
  BY CaptureType DEF IInv, TypeOK, MergeNew, MergeAgain, This
<1>2. /\ by_device' = [by_device EXCEPT ![id] = new]
      /\ new \in MapEntry /\ new # NoEntry
      /\ IsFirst(new.first, id, n + 1) /\ IsLast(new.last, id, n + 1)
  <2>1. CASE MergeNew
    <3>1. new = [first |-> This.when, last |-> This.when, name |-> This.name]
      BY <1>1, <2>1 DEF MergeNew
    <3>2. Seen(id, n) = {}
      BY <1>1, <2>1 DEF MergeNew, IInv
    <3>3. IsFirst(This.when, id, n + 1) /\ IsLast(This.when, id, n + 1)
      BY <1>1, <3>2, SpanOfFirst
    <3> QED BY <1>1, <2>1, <3>1, <3>3, EntryPresent DEF MergeNew, MapEntry
  <2>2. CASE MergeAgain
    <3>1. /\ by_device[id] \in MapEntry /\ id \in Pending
          /\ IsFirst(by_device[id].first, id, n) /\ IsLast(by_device[id].last, id, n)
      BY <1>1, <2>2 DEF MergeAgain, IInv, Pending
    <3>2. new = Merged(by_device[id], This.when)
      BY <1>1, <2>2 DEF MergeAgain
    <3>3. IsFirst(new.first, id, n + 1) /\ IsLast(new.last, id, n + 1)
      BY <1>1, <3>1, <3>2, SpanWidened
    <3>4. new \in MapEntry /\ new # NoEntry
      BY <1>1, <3>1, <3>2, EntryPresent DEF Merged, MapEntry
    <3> QED BY <1>1, <2>2, <3>2, <3>3, <3>4 DEF MergeAgain
  <2> QED BY <2>1, <2>2
<1> HIDE DEF new
<1>3. TypeOK'
  BY <1>1, <1>2 DEF IInv, TypeOK
<1>4. \A other \in Ids \ {id} :
          by_device'[other] = by_device[other] /\ Seen(other, n + 1) = Seen(other, n)
  BY <1>1, <1>2, SpanUntouched
<1>5. \A other \in Ids : by_device'[other] = NoEntry => Seen(other, n + 1) = {}
  BY <1>1, <1>2, <1>4 DEF IInv
<1>6. \A other \in Pending' :
          IsFirst(by_device'[other].first, other, n + 1) /\ IsLast(by_device'[other].last, other, n + 1)
  <2> SUFFICES ASSUME NEW other \in Pending'
               PROVE  /\ IsFirst(by_device'[other].first, other, n + 1)
                      /\ IsLast(by_device'[other].last, other, n + 1)
    OBVIOUS
  <2>1. CASE other = id
    BY <1>1, <1>2, <2>1
  <2>2. CASE other # id
    <3>1. other \in Pending /\ other \in Ids \ {id}
      BY <1>4, <2>2 DEF Pending
    <3> QED BY <1>4, <3>1 DEF IInv, IsFirst, IsLast
  <2> QED BY <2>1, <2>2
<1> QED BY <1>1, <1>3, <1>5, <1>6, SameCapture DEF IInv

\* The second loop: an entry leaves the map and becomes claims.
LEMMA EmitIInv ==
    ASSUME IInv, EmitDevice
    PROVE  IInv'
<1>1. PICK id \in Pending :
          /\ out' = out \o EntryClaims(id, by_device[id])
          /\ by_device' = [by_device EXCEPT ![id] = NoEntry]
  BY DEF EmitDevice
<1> DEFINE entry == by_device[id]
           L == Len(out)
<1>2. /\ pc = "emit" /\ pc' = pc /\ next' = next /\ next = Everything /\ events' = events
      /\ events \in Captures /\ out \in Seq(Claim) /\ L \in Nat /\ DOMAIN out = 1..L
      /\ id \in Ids /\ entry \in MapEntry
      /\ by_device \in [Ids -> MapEntry \cup {NoEntry}]
  BY DEF EmitDevice, IInv, TypeOK, Pending
<1>3. /\ out' \in Seq(Claim)
      /\ \A i \in 1..L : i \in DOMAIN out' /\ out'[i] = out[i]
      /\ L + 1 \in DOMAIN out' /\ L + 2 \in DOMAIN out'
      /\ out'[L + 1] = MacClaim(id, "FirstConnected", Timestamp(entry.first))
      /\ out'[L + 2] = MacClaim(id, "LastConnected", Timestamp(entry.last))
      /\ \A i \in DOMAIN out' :
            \/ i \in 1..L
            \/ i = L + 1
            \/ i = L + 2
            \/ i = L + 3 /\ out'[i] = MacClaim(id, "VolumeName", Text(entry.name))
  BY <1>1, <1>2, AppendedClaims
<1>4. /\ Pending' = Pending \ {id}
      /\ \A other \in Ids \ {id} : by_device'[other] = by_device[other]
  BY <1>1, <1>2 DEF Pending
<1>5. TypeOK'
  BY <1>1, <1>2, <1>3 DEF IInv, TypeOK
<1>6. \A i \in DOMAIN out' :
          \/ i \in DOMAIN out /\ out'[i] = out[i]
          \/ out'[i].device = UsbName[id]
  BY <1>2, <1>3 DEF MacClaim
<1>7. \A other \in Pending' :
          /\ IsFirst(by_device'[other].first, other, next)
          /\ IsLast(by_device'[other].last, other, next)
          /\ \A i \in DOMAIN out' : out'[i].device # UsbName[other]
  <2> SUFFICES ASSUME NEW other \in Pending'
               PROVE  /\ IsFirst(by_device'[other].first, other, next)
                      /\ IsLast(by_device'[other].last, other, next)
                      /\ \A i \in DOMAIN out' : out'[i].device # UsbName[other]
    OBVIOUS
  <2>1. other \in Pending /\ other # id /\ other \in Ids /\ by_device'[other] = by_device[other]
    BY <1>4 DEF Pending
  <2>2. UsbName[id] # UsbName[other]
    BY <1>2, <2>1, UnifiedLogAssumption
  <2> QED BY <1>6, <2>1, <2>2 DEF IInv
<1>8. \A other \in Ids :
          by_device'[other] = NoEntry =>
              \/ Seen(other, Everything) = {}
              \/ Claimed(other, "FirstConnected")' /\ Claimed(other, "LastConnected")'
  <2> SUFFICES ASSUME NEW other \in Ids, by_device'[other] = NoEntry
               PROVE  \/ Seen(other, Everything) = {}
                      \/ Claimed(other, "FirstConnected")' /\ Claimed(other, "LastConnected")'
    OBVIOUS
  <2>1. CASE other = id
    BY <1>3, <2>1 DEF Claimed, MacClaim
  <2>2. CASE other # id
    <3>1. by_device[other] = NoEntry
      BY <1>4, <2>2
    <3>2. \/ Seen(other, Everything) = {}
          \/ Claimed(other, "FirstConnected") /\ Claimed(other, "LastConnected")
      BY <1>2, <3>1 DEF IInv
    <3> QED BY <1>2, <1>3, <3>2 DEF Claimed
  <2> QED BY <2>1, <2>2
<1>9. \A i \in DOMAIN out' : ClaimTrue(out'[i])
  <2> SUFFICES ASSUME NEW i \in DOMAIN out' PROVE ClaimTrue(out'[i])
    OBVIOUS
  <2>1. IsFirst(entry.first, id, Everything) /\ IsLast(entry.last, id, Everything)
    BY <1>2 DEF IInv
  <2>2. CASE i \in 1..L
    BY <1>2, <1>3, <2>2 DEF IInv
  <2>3. CASE i = L + 1
    BY <1>2, <1>3, <2>1, <2>3 DEF ClaimTrue, MacClaim, Timestamp
  <2>4. CASE i = L + 2
    BY <1>2, <1>3, <2>1, <2>4 DEF ClaimTrue, MacClaim, Timestamp
  <2>5. CASE out'[i] = MacClaim(id, "VolumeName", Text(entry.name))
    BY <1>2, <2>5 DEF ClaimTrue, MacClaim
  <2> QED BY <1>3, <2>2, <2>3, <2>4, <2>5
<1> QED BY <1>2, <1>5, <1>7, <1>8, <1>9, SameCapture DEF IInv

LEMMA NextIInv == IInv /\ [Next]_vars => IInv'
<1> SUFFICES ASSUME IInv, [Next]_vars PROVE IInv'
  OBVIOUS
<1>1. CASE MergeNew \/ MergeAgain
  BY <1>1, MergeIInv
<1>2. CASE MergeEnd
  <2>1. next = Everything /\ next' = next /\ events' = events /\ by_device' = by_device /\ out' = out
    BY <1>2, CaptureType DEF MergeEnd, IInv, TypeOK, Everything
  <2>2. Pending' = Pending /\ TypeOK'
    BY <1>2, <2>1 DEF Pending, MergeEnd, IInv, TypeOK
  <2> QED BY <1>2, <2>1, <2>2, SameCapture DEF MergeEnd, IInv, Claimed
<1>3. CASE EmitDevice
  BY <1>3, EmitIInv
<1>4. CASE EmitEnd
  <2>1. Pending' = Pending /\ TypeOK'
    BY <1>4 DEF Pending, EmitEnd, IInv, TypeOK
  <2> QED BY <1>4, <2>1, SameCapture DEF EmitEnd, IInv, Claimed
<1>5. CASE UNCHANGED vars
  <2>1. Pending' = Pending /\ TypeOK'
    BY <1>5 DEF Pending, vars, IInv, TypeOK
  <2> QED BY <1>5, <2>1, SameCapture DEF vars, IInv, Claimed
<1> QED BY <1>1, <1>2, <1>3, <1>4, <1>5 DEF Next

-----------------------------------------------------------------------------
(***************************************************************************)
(* The invariant of the two loops of claims (macos_unified_log.rs:105-134).*)
(***************************************************************************)
THEOREM LogInvariant == Spec => []IInv
BY InitIInv, NextIInv, PTL DEF Spec

(***************************************************************************)
(* Every enumerated id is reported with the first and the last of its      *)
(* times (macos_unified_log.rs:106-107).                                   *)
(***************************************************************************)
THEOREM SpanReportedAlways == Spec => []SpanReported
<1>1. IInv => SpanReported
  BY DEF IInv, SpanReported, Pending
<1> QED BY <1>1, LogInvariant, PTL

(***************************************************************************)
(* One capture never gives a device two values of one attribute            *)
(* (macos_unified_log.rs:117-134).                                         *)
(***************************************************************************)
THEOREM OneClaimEachAlways == Spec => []OneClaimEach
<1>1. Init => OneClaimEach
  BY DEF Init, OneClaimEach
<1>2. IInv /\ OneClaimEach /\ [Next]_vars => OneClaimEach'
  <2> SUFFICES ASSUME IInv, OneClaimEach, [Next]_vars PROVE OneClaimEach'
    OBVIOUS
  <2>1. CASE EmitDevice
    <3>1. PICK id \in Pending : out' = out \o EntryClaims(id, by_device[id])
      BY <2>1 DEF EmitDevice
    <3> DEFINE L == Len(out)
    <3>2. /\ id \in Ids /\ by_device[id] \in MapEntry
          /\ out \in Seq(Claim) /\ L \in Nat /\ DOMAIN out = 1..L
      BY DEF IInv, TypeOK, Pending
    <3>3. /\ \A i \in 1..L : out'[i] = out[i]
          /\ out'[L + 1] = MacClaim(id, "FirstConnected", Timestamp(by_device[id].first))
          /\ out'[L + 2] = MacClaim(id, "LastConnected", Timestamp(by_device[id].last))
          /\ \A i \in DOMAIN out' :
                \/ i \in 1..L
                \/ i = L + 1
                \/ i = L + 2
                \/ i = L + 3 /\ out'[i] = MacClaim(id, "VolumeName", Text(by_device[id].name))
      BY <3>1, <3>2, AppendedClaims
    <3>4. \A i \in 1..L : out'[i].device # UsbName[id]
      BY <3>2, <3>3 DEF IInv
    <3>5. \A i \in DOMAIN out' :
              \/ i \in 1..L
              \/ i = L + 1 /\ out'[i].device = UsbName[id] /\ out'[i].attribute = "FirstConnected"
              \/ i = L + 2 /\ out'[i].device = UsbName[id] /\ out'[i].attribute = "LastConnected"
              \/ i = L + 3 /\ out'[i].device = UsbName[id] /\ out'[i].attribute = "VolumeName"
      BY <3>3 DEF MacClaim
    <3> QED BY <3>2, <3>3, <3>4, <3>5 DEF OneClaimEach
  <2>2. CASE ~ EmitDevice
    BY <2>2 DEF Next, vars, MergeNew, MergeAgain, MergeEnd, EmitEnd, OneClaimEach
  <2> QED BY <2>1, <2>2
<1> QED BY <1>1, <1>2, LogInvariant, PTL DEF Spec
=============================================================================
