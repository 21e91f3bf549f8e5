------------------------ MODULE Canonicalize_proofs ------------------------
(***************************************************************************)
(* The MountedDevices bridge, for volume and claim lists of every length:  *)
(* the three loops preserve the inductive invariant, which gives the       *)
(* properties the runs check and the refinement of Bridging.               *)
(***************************************************************************)
EXTENDS Canonicalize, WellFoundedInduction, TLAPS

\* The arguments of a call.
LEMMA InputTypes ==
    ASSUME TypeOK
    PROVE  /\ input.claims \in Seq(Claim) /\ Len(input.claims) \in Nat
           /\ input.volumes \in Seq(MountedVolume) /\ Len(input.volumes) \in Nat
           /\ \A i \in 1..Len(input.claims) : input.claims[i] \in Claim
           /\ \A i \in 1..Len(input.volumes) : input.volumes[i] \in MountedVolume
<1>1. input \in [claims : Seq(Claim), volumes : Seq(MountedVolume)]
  BY CanonicalizeAssumption DEF TypeOK
<1> QED
  BY <1>1

\* An entry names one of the partitions, under strings, and has itself a GUID
\* that is one of these names, or none.
LEMMA VolumeTypes ==
    ASSUME NEW v \in MountedVolume
    PROVE  /\ PartitionOf(v) \in Partitions
           /\ IdentifiersOf(v) \in SUBSET Names
           /\ v.guid \in Names \cup {None}
           /\ v.guid # None => v.guid \in IdentifiersOf(v)
<1>1. /\ v.signature \in Signatures /\ v.offset \in Offsets
      /\ v.letter \in Names \cup {None} /\ v.guid \in Names \cup {None}
  BY DEF MountedVolume
<1> QED
  BY <1>1, MountedVolumesAssumption DEF PartitionOf, Partitions, IdentifiersOf

\* One more entry adds its names and its GUID to its own partition.
LEMMA EntriesStep ==
    ASSUME NEW vs, NEW n \in Nat, NEW p
    PROVE  /\ PartitionOf(vs[n + 1]) # p =>
                  /\ EntriesUpTo(vs, n + 1, p) = EntriesUpTo(vs, n, p)
                  /\ GuidEntriesUpTo(vs, n + 1, p) = GuidEntriesUpTo(vs, n, p)
                  /\ MembersUpTo(vs, n + 1, p) = MembersUpTo(vs, n, p)
           /\ PartitionOf(vs[n + 1]) = p =>
                  /\ MembersUpTo(vs, n + 1, p) = MembersUpTo(vs, n, p) \cup IdentifiersOf(vs[n + 1])
                  /\ vs[n + 1].guid = None =>
                         GuidEntriesUpTo(vs, n + 1, p) = GuidEntriesUpTo(vs, n, p)
                  /\ vs[n + 1].guid # None =>
                         GuidEntriesUpTo(vs, n + 1, p) = GuidEntriesUpTo(vs, n, p) \cup {n + 1}
<1>1. 1..(n + 1) = (1..n) \cup {n + 1}
  OBVIOUS
<1>2. PartitionOf(vs[n + 1]) # p => EntriesUpTo(vs, n + 1, p) = EntriesUpTo(vs, n, p)
  BY <1>1 DEF EntriesUpTo
<1>3. PartitionOf(vs[n + 1]) = p =>
          EntriesUpTo(vs, n + 1, p) = EntriesUpTo(vs, n, p) \cup {n + 1}
  BY <1>1 DEF EntriesUpTo
<1> QED
  BY <1>2, <1>3 DEF GuidEntriesUpTo, MembersUpTo

\* Before the first entry there is nothing.
LEMMA EntriesNone ==
    ASSUME NEW vs, NEW p
    PROVE  GuidEntriesUpTo(vs, 0, p) = {} /\ MembersUpTo(vs, 0, p) = {}
<1>1. EntriesUpTo(vs, 0, p) = {}
  BY DEF EntriesUpTo
<1> QED
  BY <1>1 DEF GuidEntriesUpTo, MembersUpTo

\* Entries are positions of the slice.
LEMMA EntriesArePositions ==
    ASSUME NEW vs, NEW n \in Nat, NEW p
    PROVE  /\ GuidEntriesUpTo(vs, n, p) \in SUBSET EntriesUpTo(vs, n, p)
           /\ EntriesUpTo(vs, n, p) \in SUBSET (1..n)
BY DEF GuidEntriesUpTo, EntriesUpTo

\* The names of partitions are strings.
LEMMA MembersAreNames ==
    ASSUME NEW vs \in Seq(MountedVolume), NEW n \in 0..Len(vs), NEW p
    PROVE  MembersUpTo(vs, n, p) \in SUBSET Names
<1>1. \A i \in 1..n : vs[i] \in MountedVolume
  OBVIOUS
<1>2. \A i \in EntriesUpTo(vs, n, p) : IdentifiersOf(vs[i]) \in SUBSET Names
  BY <1>1, VolumeTypes DEF EntriesUpTo
<1> QED
  BY <1>2 DEF MembersUpTo

\* The order of the partitions has no ties and no two directions.
LEMMA OrderAsymmetric ==
    ASSUME NEW p \in Partitions, NEW q \in Partitions, PartitionBefore(p, q)
    PROVE  ~ PartitionBefore(q, p) /\ p # q
<1>1. p[1] \in Nat /\ p[2] \in Nat /\ q[1] \in Nat /\ q[2] \in Nat
  BY MountedVolumesAssumption DEF Partitions
<1> QED
  BY <1>1 DEF PartitionBefore

\* Only one partition of a set can be the last.
LEMMA LastIsUnique ==
    ASSUME NEW S \in SUBSET Partitions, NEW p \in S, \A q \in S \ {p} : PartitionBefore(q, p)
    PROVE  (CHOOSE x \in S : \A q \in S \ {x} : PartitionBefore(q, x)) = p
<1>1. ASSUME NEW x \in S, \A q \in S \ {x} : PartitionBefore(q, x)
      PROVE  x = p
  <2>1. SUFFICES ASSUME x # p PROVE FALSE
    OBVIOUS
  <2>2. PartitionBefore(p, x) /\ PartitionBefore(x, p)
    BY <1>1, <2>1
  <2> QED
    BY <2>2, OrderAsymmetric
<1> QED
  BY <1>1

\* Only one position can be the last.
LEMMA GreatestIsUnique ==
    ASSUME NEW S \in SUBSET Nat, NEW i \in S, \A j \in S : j <= i
    PROVE  (CHOOSE x \in S : \A j \in S : j <= x) = i
<1>1. ASSUME NEW x \in S, \A j \in S : j <= x
      PROVE  x = i
  BY <1>1
<1> QED
  BY <1>1

\* The relational form of the last GUID gives the rule's operator.
LEMMA CanonicalIsLast ==
    ASSUME NEW vs, NEW n \in Nat, NEW p, NEW guid,
           LET withGuid == GuidEntriesUpTo(vs, n, p)
           IN  \/ withGuid = {} /\ guid = None
               \/ \E i \in withGuid : (\A j \in withGuid : j <= i) /\ guid = vs[i].guid
    PROVE  guid = CanonicalUpTo(vs, n, p)
<1> DEFINE withGuid == GuidEntriesUpTo(vs, n, p)
<1>1. withGuid \in SUBSET Nat
  BY EntriesArePositions
<1>2. CASE withGuid = {} /\ guid = None
  BY <1>2 DEF CanonicalUpTo
<1>3. CASE \E i \in withGuid : (\A j \in withGuid : j <= i) /\ guid = vs[i].guid
  <2>1. PICK i \in withGuid : (\A j \in withGuid : j <= i) /\ guid = vs[i].guid
    BY <1>3
  <2> HIDE DEF withGuid
  <2>2. (CHOOSE x \in withGuid : \A j \in withGuid : j <= x) = i
    BY <1>1, <2>1, GreatestIsUnique
  <2>3. guid = IF withGuid = {} THEN None
               ELSE vs[CHOOSE x \in withGuid : \A j \in withGuid : j <= x].guid
    BY <2>1, <2>2
  <2> QED
    BY <2>3 DEF CanonicalUpTo, withGuid
<1> QED
  BY <1>2, <1>3

\* After the first loop the map holds the canonical keys of the rule.
LEMMA CanonicalMatches ==
    ASSUME IInv, pc # "name", NEW p \in Partitions
    PROVE  /\ canonical[p] = CanonicalAt(input.volumes, p)
           /\ canonical[p] = None => GuidEntriesUpTo(input.volumes, Len(input.volumes), p) = {}
           /\ canonical[p] # None =>
                \E i \in EntriesAt(input.volumes, p) : canonical[p] = input.volumes[i].guid
<1>1. Read = Len(input.volumes) /\ Len(input.volumes) \in Nat
  BY InputTypes DEF Read, IInv
<1>2. LastRead(p, canonical[p])
  BY DEF IInv, GroupsMatch
<1>3. canonical[p] = CanonicalAt(input.volumes, p)
  BY <1>1, <1>2, CanonicalIsLast DEF LastRead, CanonicalAt
<1>4. \A i \in GuidEntriesUpTo(input.volumes, Len(input.volumes), p) :
        i \in EntriesAt(input.volumes, p) /\ input.volumes[i].guid # None
  BY DEF GuidEntriesUpTo, EntriesAt
<1> QED
  BY <1>1, <1>2, <1>3, <1>4 DEF LastRead

\* Once every partition is passed, the remap table is the rule.
LEMMA RemapIsRule ==
    ASSUME IInv, pc \in {"rekey", "done"}, NEW x \in Names
    PROVE  /\ CanonicalKey(input.volumes, x) = IF remap[x] = None THEN x ELSE remap[x]
           /\ remap[x] = None => BridgesOf(input.volumes, x) = {}
           /\ remap[x] # None =>
                \E p \in BridgesOf(input.volumes, x) :
                    remap[x] = CanonicalAt(input.volumes, p)
<1> DEFINE vs == input.volumes
           bridged == {p \in Passed : x \in MembersAt(vs, p) /\ canonical[p] # None}
<1>1. /\ vs \in Seq(MountedVolume) /\ Len(vs) \in Nat
      /\ \A i \in 1..Len(vs) : vs[i] \in MountedVolume
      /\ Read = Len(vs) /\ pc # "name"
  BY InputTypes DEF Read, IInv
<1>2. \A p \in Partitions : names[p] = {}
  BY DEF IInv, InOrder, Named
<1>3. BridgesOf(vs, x) = bridged
  <2>1. ASSUME NEW p \in BridgesOf(vs, x) PROVE p \in bridged
    <3>1. /\ p \in Partitions /\ x \in MembersAt(vs, p) /\ CanonicalAt(vs, p) # None
      BY <1>1, VolumeTypes DEF BridgesOf
    <3>2. names[p] # MembersUpTo(vs, Read, p)
      BY <1>1, <1>2, <3>1 DEF MembersAt
    <3> QED
      BY <1>1, <3>1, <3>2, CanonicalMatches DEF Passed
  <2>2. ASSUME NEW p \in bridged PROVE p \in BridgesOf(vs, x)
    <3>1. p \in Partitions /\ x \in MembersAt(vs, p) /\ CanonicalAt(vs, p) # None
      BY <1>1, CanonicalMatches DEF Passed
    <3>2. PICK i \in EntriesAt(vs, p) : TRUE
      BY <3>1 DEF MembersAt, MembersUpTo, EntriesAt
    <3>3. i \in 1..Len(vs) /\ PartitionOf(vs[i]) = p
      BY <3>2 DEF EntriesAt, EntriesUpTo
    <3> QED
      BY <3>1, <3>3 DEF BridgesOf
  <2> QED
    BY <2>1, <2>2
<1>4. bridged \in SUBSET Partitions
  BY DEF Passed
<1>5. LastPassed(x, remap[x])
  BY DEF IInv, RemapMatches
<1>6. CASE bridged = {} /\ remap[x] = None
  BY <1>3, <1>6 DEF CanonicalKey
<1>7. CASE \E p \in bridged :
              (\A q \in bridged \ {p} : PartitionBefore(q, p)) /\ remap[x] = canonical[p]
  <2>1. PICK p \in bridged :
              (\A q \in bridged \ {p} : PartitionBefore(q, p)) /\ remap[x] = canonical[p]
    BY <1>7
  <2>2. canonical[p] = CanonicalAt(vs, p) /\ canonical[p] # None
    BY <1>1, <2>1, CanonicalMatches DEF Passed
  <2> HIDE DEF bridged
  <2>3. (CHOOSE y \in bridged : \A q \in bridged \ {y} : PartitionBefore(q, y)) = p
    BY <1>4, <2>1, LastIsUnique
  <2>4. CanonicalKey(vs, x) = CanonicalAt(vs, p)
    BY <1>3, <2>1, <2>3 DEF CanonicalKey
  <2> QED
    BY <1>3, <2>1, <2>2, <2>4
<1> QED
  BY <1>5, <1>6, <1>7 DEF LastPassed

-----------------------------------------------------------------------------
\* The initial states satisfy the inductive invariant.
LEMMA InitIInv == Init => IInv
<1> SUFFICES ASSUME Init PROVE IInv
  OBVIOUS
<1>1. TypeOK
  BY DEF Init, TypeOK
<1>2. Read = 0 /\ Len(input.volumes) \in Nat /\ pc = "name"
  BY <1>1, InputTypes DEF Init, Read
<1>3. ASSUME NEW p \in Partitions
      PROVE  LastRead(p, canonical[p]) /\ p \notin Passed
  BY <1>2, EntriesNone DEF Init, LastRead, Passed
<1>4. Passed = {}
  BY <1>3 DEF Passed
<1>5. GroupsMatch /\ InOrder
  BY <1>2, <1>3, <1>4 DEF Init, GroupsMatch, InOrder
<1>6. RemapMatches
  BY <1>4 DEF Init, RemapMatches, LastPassed
<1>7. OutMatches
  BY DEF Init, OutMatches
<1> QED
  BY <1>1, <1>5, <1>6, <1>7 DEF IInv

\* An iteration of the first loop preserves it.
LEMMA NameVolumeIInv == IInv /\ NameVolume => IInv'
<1> SUFFICES ASSUME IInv, NameVolume PROVE IInv'
  OBVIOUS
<1> DEFINE vs == input.volumes
           n == next - 1
<1>1. /\ vs \in Seq(MountedVolume) /\ Len(vs) \in Nat
      /\ n \in Nat /\ next = n + 1 /\ n + 1 <= Len(vs)
      /\ Volume = vs[n + 1] /\ Volume \in MountedVolume
      /\ input' = input /\ pc = "name" /\ pc' = "name"
      /\ Read = n /\ Read' = n + 1
  BY InputTypes DEF IInv, TypeOK, NameVolume, Volume, Read
<1>2. /\ PartitionOf(Volume) \in Partitions
      /\ IdentifiersOf(Volume) \in SUBSET Names
      /\ Volume.guid \in Names \cup {None}
  BY <1>1, VolumeTypes
<1>3. TypeOK'
  BY <1>1, <1>2 DEF IInv, TypeOK, NameVolume
<1>4. ASSUME NEW p \in Partitions
      PROVE  names'[p] = MembersUpTo(vs, n + 1, p) /\ LastRead(p, canonical[p])
  <2>1. names[p] = MembersUpTo(vs, n, p) /\ LastRead(p, canonical[p])
    BY <1>1 DEF IInv, GroupsMatch, Passed
  <2>2. names'[p] = IF p = PartitionOf(Volume) THEN names[p] \cup IdentifiersOf(Volume)
                    ELSE names[p]
    BY <1>2 DEF NameVolume, IInv, TypeOK
  <2>3. /\ PartitionOf(vs[n + 1]) # p => MembersUpTo(vs, n + 1, p) = MembersUpTo(vs, n, p)
        /\ PartitionOf(vs[n + 1]) = p =>
              MembersUpTo(vs, n + 1, p) = MembersUpTo(vs, n, p) \cup IdentifiersOf(vs[n + 1])
    BY <1>1, EntriesStep
  <2> HIDE DEF vs, n
  <2> QED
    BY <1>1, <2>1, <2>2, <2>3
<1>5. ASSUME NEW p \in Partitions
      PROVE  LET withGuid == GuidEntriesUpTo(vs, n + 1, p)
             IN  \/ withGuid = {} /\ canonical'[p] = None
                 \/ \E i \in withGuid :
                       (\A j \in withGuid : j <= i) /\ canonical'[p] = vs[i].guid
  <2> DEFINE before == GuidEntriesUpTo(vs, n, p)
             after == GuidEntriesUpTo(vs, n + 1, p)
  <2>1. \/ before = {} /\ canonical[p] = None
        \/ \E i \in before : (\A j \in before : j <= i) /\ canonical[p] = vs[i].guid
    BY <1>1, <1>4 DEF LastRead
  <2>2. CASE p = PartitionOf(Volume) /\ Volume.guid # None
    <3>1. canonical'[p] = vs[n + 1].guid
      BY <1>1, <1>2, <2>2 DEF NameVolume, IInv, TypeOK
    <3>2. after = before \cup {n + 1}
      BY <1>1, <2>2, EntriesStep
    <3>3. before \in SUBSET (1..n)
      BY <1>1, EntriesArePositions
    <3>4. \A j \in after : j <= n + 1
      <4> HIDE DEF before, after
      <4> QED
        BY <1>1, <3>2, <3>3
    <3> QED
      BY <3>1, <3>2, <3>4
  <2>3. CASE ~ (p = PartitionOf(Volume) /\ Volume.guid # None)
    <3>1. canonical'[p] = canonical[p]
      BY <1>2, <2>3 DEF NameVolume, IInv, TypeOK
    <3>2. after = before
      BY <1>1, <2>3, EntriesStep
    <3> QED
      BY <2>1, <3>1, <3>2
  <2> QED
    BY <2>2, <2>3
<1>6. Passed = {} /\ Passed' = {}
  BY <1>1, <1>4 DEF IInv, GroupsMatch, Passed
<1>7. GroupsMatch'
  <2>1. ASSUME NEW p \in Partitions PROVE LastRead(p, canonical[p])'
    BY <1>1, <1>5 DEF LastRead
  <2>2. pc' = "name" => next' - 1 <= Len(input'.volumes)
    BY <1>1 DEF NameVolume
  <2> QED
    BY <1>6, <2>1, <2>2 DEF GroupsMatch
<1>8. InOrder'
  BY <1>1, <1>6 DEF InOrder
<1>9. RemapMatches'
  BY <1>1, <1>6 DEF IInv, NameVolume, RemapMatches, LastPassed
<1>10. OutMatches'
  BY <1>1 DEF IInv, NameVolume, OutMatches
<1> QED
  BY <1>3, <1>7, <1>8, <1>9, <1>10 DEF IInv

\* An iteration of the second loop preserves it.
LEMMA BridgePartitionIInv == IInv /\ BridgePartition => IInv'
<1> SUFFICES ASSUME IInv, BridgePartition PROVE IInv'
  OBVIOUS
<1> DEFINE vs == input.volumes
<1>1. PICK p \in Named :
        /\ \A q \in Named \ {p} : PartitionBefore(p, q)
        /\ remap' = IF canonical[p] = None THEN remap
                    ELSE [x \in Names |-> IF x \in names[p] THEN canonical[p] ELSE remap[x]]
        /\ names' = [names EXCEPT ![p] = {}]
  BY DEF BridgePartition
<1>2. /\ pc = "bridge" /\ pc' = "bridge" /\ input' = input /\ next' = next
      /\ canonical' = canonical /\ out' = out
      /\ Read = Len(vs) /\ Read' = Read
  BY DEF BridgePartition, Read
<1>3. p \in Partitions /\ names[p] # {} /\ names[p] = MembersUpTo(vs, Read, p) /\ p \notin Passed
  BY <1>1 DEF Named, Passed, IInv, GroupsMatch
<1>4. names' = [q \in Partitions |-> IF q = p THEN {} ELSE names[q]]
  BY <1>1, <1>3 DEF IInv, TypeOK
<1>5. Passed' = Passed \cup {p} /\ Named' = Named \ {p}
  BY <1>2, <1>3, <1>4 DEF Passed, Named
<1>6. TypeOK'
  BY <1>1, <1>2, <1>3 DEF IInv, TypeOK
<1>7. GroupsMatch'
  BY <1>2, <1>4, <1>5 DEF IInv, GroupsMatch, LastRead
<1>8. InOrder'
  BY <1>1, <1>2, <1>5 DEF IInv, InOrder
<1>9. RemapMatches'
  <2> SUFFICES ASSUME NEW x \in Names PROVE LastPassed(x, remap[x])'
    BY DEF RemapMatches
  <2> DEFINE bridged == {q \in Passed : x \in MembersAt(vs, q) /\ canonical[q] # None}
             after == {q \in Passed' : x \in MembersAt(vs, q) /\ canonical[q] # None}
  <2>1. \/ bridged = {} /\ remap[x] = None
        \/ \E q \in bridged :
              (\A r \in bridged \ {q} : PartitionBefore(r, q)) /\ remap[x] = canonical[q]
    BY DEF IInv, RemapMatches, LastPassed
  <2>2. /\ x \in names[p] /\ canonical[p] # None => after = bridged \cup {p}
        /\ ~ (x \in names[p] /\ canonical[p] # None) => after = bridged
    BY <1>2, <1>3, <1>5 DEF MembersAt
  <2>3. \/ after = {} /\ remap'[x] = None
        \/ \E q \in after :
              (\A r \in after \ {q} : PartitionBefore(r, q)) /\ remap'[x] = canonical[q]
    <3>1. CASE x \in names[p] /\ canonical[p] # None
      <4>1. \A r \in bridged : PartitionBefore(r, p)
        BY <1>1 DEF IInv, InOrder
      <4>2. remap'[x] = canonical[p]
        BY <1>1, <3>1
      <4> QED
        BY <2>2, <3>1, <4>1, <4>2
    <3>2. CASE ~ (x \in names[p] /\ canonical[p] # None)
      <4>1. remap'[x] = remap[x]
        BY <1>1, <3>2 DEF IInv, TypeOK
      <4> QED
        BY <2>1, <2>2, <3>2, <4>1
    <3> QED
      BY <3>1, <3>2
  <2> QED
    BY <1>2, <2>3 DEF LastPassed
<1>10. OutMatches'
  BY <1>2 DEF IInv, OutMatches
<1> QED
  BY <1>6, <1>7, <1>8, <1>9, <1>10 DEF IInv

\* An iteration of the third loop preserves it.
LEMMA RekeyClaimIInv == IInv /\ RekeyClaim => IInv'
<1> SUFFICES ASSUME IInv, RekeyClaim PROVE IInv'
  OBVIOUS
<1>1. /\ input.claims \in Seq(Claim) /\ Len(input.claims) \in Nat
      /\ next \in 1..Len(input.claims) /\ Current \in Claim
      /\ Current = input.claims[next] /\ Current.device \in Names
  BY InputTypes DEF IInv, TypeOK, RekeyClaim, Current, Claim
<1>2. /\ pc = "rekey" /\ pc' = "rekey" /\ input' = input /\ next' = next + 1
      /\ names' = names /\ canonical' = canonical /\ remap' = remap
  BY DEF RekeyClaim
<1>3. /\ CanonicalKey(input.volumes, Current.device) =
             IF remap[Current.device] = None THEN Current.device ELSE remap[Current.device]
      /\ remap[Current.device] \in Names \cup {None}
  BY <1>1, <1>2, RemapIsRule DEF IInv, TypeOK
<1>4. /\ out' = Append(out, Canonicalized(input.claims, input.volumes)[next])
      /\ Canonicalized(input.claims, input.volumes)[next] \in Claim
  <2>1. Canonicalized(input.claims, input.volumes)[next] =
            [Current EXCEPT !.device = CanonicalKey(input.volumes, Current.device)]
    BY <1>1 DEF Canonicalized
  <2>2. [Current EXCEPT !.device = Current.device] = Current
    BY <1>1 DEF Claim
  <2>3. \A key \in Names : [Current EXCEPT !.device = key] \in Claim
    BY <1>1 DEF Claim
  <2>4. out' = Append(out, IF remap[Current.device] = None THEN Current
                           ELSE [Current EXCEPT !.device = remap[Current.device]])
    BY DEF RekeyClaim
  <2>5. CASE remap[Current.device] = None
    BY <1>1, <1>3, <2>1, <2>2, <2>4, <2>5
  <2>6. CASE remap[Current.device] # None
    <3>1. Canonicalized(input.claims, input.volumes)[next] =
              [Current EXCEPT !.device = remap[Current.device]]
      BY <1>3, <2>1, <2>6
    <3>2. remap[Current.device] \in Names
      BY <1>3, <2>6
    <3> QED
      BY <2>3, <2>4, <2>6, <3>1, <3>2
  <2> QED
    BY <2>5, <2>6
<1>5. TypeOK'
  BY <1>1, <1>2, <1>4 DEF IInv, TypeOK
<1>6. GroupsMatch' /\ InOrder' /\ RemapMatches'
  <2>1. Read' = Read /\ Passed' = Passed /\ Named' = Named
    BY <1>2 DEF Read, Passed, Named
  <2> QED
    BY <1>2, <2>1 DEF IInv, GroupsMatch, LastRead, InOrder, RemapMatches, LastPassed
<1>7. OutMatches'
  <2>1. out \in Seq(Claim) /\ Len(out) = next - 1
    BY <1>2 DEF IInv, TypeOK, OutMatches
  <2>2. Len(out') = next' - 1 /\ next' - 1 <= Len(input.claims)
    BY <1>1, <1>2, <1>4, <2>1
  <2>3. ASSUME NEW i \in 1..Len(out')
        PROVE  out'[i] = Canonicalized(input.claims, input.volumes)[i]
    <3>1. \A j \in 1..Len(out) : out[j] = Canonicalized(input.claims, input.volumes)[j]
      BY DEF IInv, OutMatches
    <3>2. Len(out') = Len(out) + 1 /\ Len(out) \in Nat /\ next = Len(out) + 1
      BY <1>1, <1>2, <2>1, <2>2
    <3>3. CASE i = next
      BY <1>4, <2>1, <3>2, <3>3
    <3>4. CASE i \in 1..Len(out)
      BY <1>4, <2>1, <3>1, <3>4
    <3> QED
      BY <3>2, <3>3, <3>4
  <2> QED
    BY <1>2, <2>2, <2>3 DEF OutMatches
<1> QED
  BY <1>5, <1>6, <1>7 DEF IInv

\* Every step preserves the inductive invariant.
LEMMA NextIInv == IInv /\ [Next]_vars => IInv'
<1> SUFFICES ASSUME IInv, [Next]_vars PROVE IInv'
  OBVIOUS
<1>t. /\ Len(input.volumes) \in Nat /\ Len(input.claims) \in Nat /\ next \in Nat
  BY InputTypes DEF IInv, TypeOK
<1>1. CASE NameEnd
  <2>1. /\ pc = "name" /\ pc' = "bridge" /\ input' = input /\ next' = next
        /\ names' = names /\ canonical' = canonical /\ remap' = remap /\ out' = out
        /\ Read = Len(input.volumes) /\ Read' = Read
    BY <1>1, <1>t DEF NameEnd, Read, IInv, GroupsMatch
  <2>2. Passed = {} /\ Passed' = {}
    BY <2>1 DEF Passed, IInv, GroupsMatch
  <2> QED
    BY <2>1, <2>2 DEF IInv, TypeOK, GroupsMatch, LastRead, InOrder, RemapMatches, LastPassed, OutMatches
<1>2. CASE BridgeEnd \/ RekeyEnd \/ UNCHANGED vars
  <2>1. /\ input' = input /\ names' = names /\ canonical' = canonical /\ remap' = remap
        /\ out' = out
        /\ Read' = Read /\ Passed' = Passed /\ Named' = Named
    BY <1>2 DEF BridgeEnd, RekeyEnd, vars, Read, Passed, Named
  <2>2. TypeOK' /\ OutMatches'
    BY <1>2, <1>t, <2>1 DEF IInv, TypeOK, OutMatches, BridgeEnd, RekeyEnd, vars
  <2>3. InOrder' /\ (pc' = "name" => pc = "name" /\ next' = next)
    BY <1>2, <2>1 DEF IInv, InOrder, BridgeEnd, RekeyEnd, vars
  <2>4. GroupsMatch' /\ RemapMatches'
    <3>1. pc # "name" => pc' # "name"
      BY <2>3
    <3> QED
      BY <2>1, <2>3, <3>1 DEF IInv, GroupsMatch, LastRead, RemapMatches, LastPassed
  <2> QED
    BY <2>2, <2>3, <2>4 DEF IInv
<1> QED
  BY <1>1, <1>2, NameVolumeIInv, BridgePartitionIInv, RekeyClaimIInv DEF Next

-----------------------------------------------------------------------------
(***************************************************************************)
(* The invariant of the three loops of canonicalize_mounted_volumes holds  *)
(* for every claim list and every list of volumes.                         *)
(***************************************************************************)
THEOREM BridgeInvariant == Spec => []IInv
BY InitIInv, NextIInv, PTL DEF Spec

(***************************************************************************)
(* Every state of the pass is of its type: in particular the key of a      *)
(* re-keyed claim is a string, never an absent GUID.                       *)
(***************************************************************************)
THEOREM TypeCorrect == Spec => []TypeOK
<1>1. IInv => TypeOK
  BY DEF IInv
<1> QED
  BY <1>1, BridgeInvariant, PTL

\* When every claim has been copied, each is where the rule puts it.
LEMMA AllCopiedIsCanonicalized ==
    ASSUME IInv, pc \in {"rekey", "done"}, next = Len(input.claims) + 1
    PROVE  /\ Len(out) = Len(input.claims)
           /\ out = Canonicalized(input.claims, input.volumes)
           /\ \A i \in 1..Len(input.claims) :
                  /\ input.claims[i] \in Claim
                  /\ out[i] = [input.claims[i] EXCEPT !.device =
                                  CanonicalKey(input.volumes, input.claims[i].device)]
                  /\ out[i].device = CanonicalKey(input.volumes, input.claims[i].device)
<1> DEFINE cs == input.claims
           whole == Canonicalized(cs, input.volumes)
<1>1. cs \in Seq(Claim) /\ Len(cs) \in Nat /\ \A i \in 1..Len(cs) : cs[i] \in Claim
  BY InputTypes DEF IInv
<1>2. out \in Seq(Claim) /\ Len(out) = Len(cs) /\ \A i \in 1..Len(out) : out[i] = whole[i]
  BY <1>1 DEF IInv, TypeOK, OutMatches
<1>3. whole = [i \in 1..Len(cs) |->
                  [cs[i] EXCEPT !.device = CanonicalKey(input.volumes, cs[i].device)]]
  BY <1>1 DEF Canonicalized
<1>4. out = [i \in 1..Len(cs) |-> out[i]]
  BY <1>2
<1>5. \A i \in 1..Len(cs) : out[i] = [cs[i] EXCEPT !.device =
                                         CanonicalKey(input.volumes, cs[i].device)]
  BY <1>2, <1>3
<1>6. \A i \in 1..Len(cs) : out[i].device = CanonicalKey(input.volumes, cs[i].device)
  BY <1>1, <1>5 DEF Claim
<1>7. out = whole
  BY <1>3, <1>4, <1>5
<1> QED
  BY <1>1, <1>2, <1>5, <1>6, <1>7

\* The key of the rule is one of the keys that the bridge allows.
LEMMA KeyIsTarget ==
    ASSUME IInv, pc = "rekey", NEW x \in Names
    PROVE  CanonicalKey(input.volumes, x) \in Abstract!Targets(x)
<1> DEFINE vs == input.volumes
           guids == {vs[i].guid : i \in {j \in 1..Len(vs) :
                        \E k \in EntriesAt(vs, PartitionOf(vs[j])) : x \in IdentifiersOf(vs[k])}}
                    \ {None}
<1>1. /\ vs \in Seq(MountedVolume) /\ Len(vs) \in Nat
      /\ \A i \in 1..Len(vs) : vs[i] \in MountedVolume
  BY InputTypes DEF IInv
<1>2. Abstract!Targets(x) = IF guids = {} THEN {x} ELSE guids
  <2>1. \A v : Abstract!PartitionOf(v) = PartitionOf(v) /\ Abstract!IdentifiersOf(v) = IdentifiersOf(v)
    BY DEF Abstract!PartitionOf, Abstract!IdentifiersOf, PartitionOf, IdentifiersOf
  <2>2. \A p : Abstract!EntriesAt(vs, p) = EntriesAt(vs, p)
    BY <2>1 DEF Abstract!EntriesAt, Abstract!EntriesUpTo, EntriesAt, EntriesUpTo
  <2>3. Abstract!GuidsFor(x) = guids
    BY <1>1, <2>1, <2>2 DEF Abstract!GuidsFor
  <2> QED
    BY <2>3 DEF Abstract!Targets
<1>3. CASE remap[x] = None
  <2>1. CanonicalKey(vs, x) = x /\ BridgesOf(vs, x) = {}
    BY <1>3, RemapIsRule
  <2>2. ASSUME NEW j \in 1..Len(vs), NEW k \in EntriesAt(vs, PartitionOf(vs[j])),
               x \in IdentifiersOf(vs[k]), vs[j].guid # None
        PROVE  FALSE
    <3> DEFINE p == PartitionOf(vs[j])
    <3>1. p \in Partitions /\ p \in {PartitionOf(vs[i]) : i \in 1..Len(vs)}
      BY <1>1, VolumeTypes
    <3>2. x \in MembersAt(vs, p)
      BY <2>2 DEF MembersAt, MembersUpTo, EntriesAt
    <3>3. j \in GuidEntriesUpTo(vs, Len(vs), p)
      BY <2>2 DEF GuidEntriesUpTo, EntriesUpTo
    <3> HIDE DEF p
    <3>4. CanonicalAt(vs, p) # None
      BY <3>1, <3>3, CanonicalMatches
    <3> QED
      BY <2>1, <3>1, <3>2, <3>4 DEF BridgesOf
  <2>3. guids = {}
    BY <2>2
  <2> QED
    BY <1>2, <2>1, <2>3
<1>4. CASE remap[x] # None
  <2>1. PICK p \in BridgesOf(vs, x) : remap[x] = CanonicalAt(vs, p)
    BY <1>4, RemapIsRule
  <2>2. CanonicalKey(vs, x) = remap[x]
    BY <1>4, RemapIsRule
  <2>3. p \in Partitions /\ x \in MembersAt(vs, p) /\ CanonicalAt(vs, p) # None
    BY <1>1, VolumeTypes DEF BridgesOf
  <2>4. PICK i \in EntriesAt(vs, p) : CanonicalAt(vs, p) = vs[i].guid
    BY <2>3, CanonicalMatches
  <2>5. PICK k \in EntriesAt(vs, p) : x \in IdentifiersOf(vs[k])
    BY <2>3 DEF MembersAt, MembersUpTo, EntriesAt
  <2>6. i \in 1..Len(vs) /\ PartitionOf(vs[i]) = p
    BY DEF EntriesAt, EntriesUpTo
  <2>7. vs[i].guid \in guids
    BY <2>3, <2>4, <2>5, <2>6
  <2> QED
    BY <1>2, <2>1, <2>2, <2>4, <2>7
<1> QED
  BY <1>3, <1>4

(***************************************************************************)
(* The three loops implement the one-step specification of the bridge: a   *)
(* claim moves only to a GUID recorded for a partition with its old name.  *)
(***************************************************************************)
THEOREM RefinesBridging == Spec => ImplementsBridging
<1>1. Init => Abstract!Init
  BY DEF Init, Abstract!Init
<1>2. IInv /\ [Next]_vars => [Abstract!Next]_Abstract!vars
  <2> SUFFICES ASSUME IInv, [Next]_vars
               PROVE  [Abstract!Next]_Abstract!vars
    OBVIOUS
  <2>1. CASE NameVolume \/ NameEnd \/ BridgePartition \/ BridgeEnd \/ RekeyClaim
    <3>1. pc # "done" /\ pc' # "done" /\ input' = input
      BY <2>1 DEF NameVolume, NameEnd, BridgePartition, BridgeEnd, RekeyClaim
    <3> QED
      BY <3>1 DEF Abstract!vars
  <2>2. CASE RekeyEnd
    <3>1. pc = "rekey" /\ pc' = "done" /\ input' = input /\ out' = out
      BY <2>2 DEF RekeyEnd
    <3>2. Len(input.claims) \in Nat /\ input.claims \in Seq(Claim) /\ next = Len(input.claims) + 1
      BY <2>2, InputTypes DEF RekeyEnd, IInv, TypeOK, OutMatches
    <3>3. /\ Len(out) = Len(input.claims) /\ out \in Seq(Claim)
          /\ \A i \in 1..Len(input.claims) :
                 /\ input.claims[i].device \in Names
                 /\ out[i] = [input.claims[i] EXCEPT !.device =
                                 CanonicalKey(input.volumes, input.claims[i].device)]
      BY <3>1, <3>2, AllCopiedIsCanonicalized DEF IInv, TypeOK, Claim
    <3>4. DOMAIN out = DOMAIN input.claims /\ DOMAIN input.claims = 1..Len(input.claims)
      BY <3>2, <3>3
    <3>5. \A i \in DOMAIN input.claims :
            \E target \in Abstract!Targets(input.claims[i].device) :
                out[i] = [input.claims[i] EXCEPT !.device = target]
      BY <3>1, <3>3, <3>4, KeyIsTarget
    <3> QED
      BY <3>1, <3>4, <3>5 DEF Abstract!Next, Abstract!BridgeAll
  <2>3. CASE UNCHANGED vars
    BY <2>3 DEF vars, Abstract!vars
  <2> QED
    BY <2>1, <2>2, <2>3 DEF Next
<1> QED
  BY <1>1, <1>2, BridgeInvariant, PTL DEF Spec, ImplementsBridging, Abstract!Spec

\* A name of one volume only is bridged to the GUID of that volume.
LEMMA KeyOfOneVolume ==
    ASSUME IInv, NEW x, NEW p \in Partitions, PartitionsNamed(x) = {p},
           CanonicalAt(input.volumes, p) # None
    PROVE  CanonicalKey(input.volumes, x) = CanonicalAt(input.volumes, p)
<1> DEFINE vs == input.volumes
<1>1. vs \in Seq(MountedVolume) /\ Len(vs) \in Nat /\ DOMAIN vs = 1..Len(vs)
  BY InputTypes DEF IInv
<1>2. ASSUME NEW q
      PROVE  x \in MembersAt(vs, q) <=> q = p
  <2>1. x \in MembersAt(vs, q) <=> \E i \in 1..Len(vs) : PartitionOf(vs[i]) = q /\ x \in IdentifiersOf(vs[i])
    BY DEF MembersAt, MembersUpTo, EntriesUpTo
  <2>2. q \in PartitionsNamed(x) <=>
            \E i \in 1..Len(vs) : PartitionOf(vs[i]) = q /\ x \in IdentifiersOf(vs[i])
    BY <1>1 DEF PartitionsNamed
  <2> QED
    BY <2>1, <2>2
<1>3. \E i \in 1..Len(vs) : PartitionOf(vs[i]) = p
  BY <1>1 DEF PartitionsNamed
<1>4. BridgesOf(vs, x) = {p}
  BY <1>2, <1>3 DEF BridgesOf
<1>5. (CHOOSE y \in {p} : \A q \in {p} \ {y} : PartitionBefore(q, y)) = p
  BY LastIsUnique
<1> QED
  BY <1>4, <1>5 DEF CanonicalKey

(***************************************************************************)
(* All names of one volume end under one key, in lists of any length       *)
(* (reconcile.rs:62-67).                                                   *)
(***************************************************************************)
THEOREM SameVolumeSameKeyAlways == Spec => []SameVolumeSameKey
<1>1. IInv => SameVolumeSameKey
  <2> SUFFICES ASSUME IInv, pc = "done",
                      NEW i \in DOMAIN input.claims, NEW j \in DOMAIN input.claims,
                      NEW p \in Partitions,
                      PartitionsNamed(input.claims[i].device) = {p},
                      PartitionsNamed(input.claims[j].device) = {p},
                      CanonicalAt(input.volumes, p) # None
               PROVE  out[i].device = out[j].device
    BY DEF SameVolumeSameKey
  <2>1. /\ DOMAIN input.claims = 1..Len(input.claims)
        /\ next = Len(input.claims) + 1
    BY InputTypes DEF IInv, OutMatches
  <2>2. /\ out[i].device = CanonicalKey(input.volumes, input.claims[i].device)
        /\ out[j].device = CanonicalKey(input.volumes, input.claims[j].device)
    BY <2>1, AllCopiedIsCanonicalized
  <2> QED
    BY <2>2, KeyOfOneVolume
<1> QED
  BY <1>1, BridgeInvariant, PTL

-----------------------------------------------------------------------------
\* A set of naturals has a least member, one below a bound a greatest.
LEMMA LeastExists ==
    ASSUME NEW T \in SUBSET Nat, T # {}
    PROVE  \E x \in T : \A y \in T : x <= y
<1> DEFINE below == OpToRel(<, Nat)
<1>1. IsWellFoundedOn(below, Nat)
  BY NatLessThanWellFounded
<1>2. \A x, y \in Nat : x < y => <<x, y>> \in below
  BY DEF OpToRel
<1> HIDE DEF below
<1>3. PICK x \in T : \A y \in T : ~ (<<y, x>> \in below)
  BY <1>1, WFMin
<1>4. x \in Nat /\ \A y \in T : y \in Nat /\ ~ (y < x)
  BY <1>2, <1>3
<1>5. \A y \in T : x <= y
  BY <1>4
<1> QED
  BY <1>5

LEMMA GreatestExists ==
    ASSUME NEW n \in Nat, NEW S \in SUBSET (1..n), S # {}
    PROVE  \E x \in S : \A y \in S : y <= x
<1> DEFINE bounds == {m \in Nat : \A y \in S : y <= m}
<1>1. bounds \in SUBSET Nat /\ n \in bounds
  OBVIOUS
<1> HIDE DEF bounds
<1>2. PICK m \in bounds : \A k \in bounds : m <= k
  BY <1>1, LeastExists
<1> USE DEF bounds
<1>3. CASE m \in S
  BY <1>2, <1>3
<1>4. CASE m \notin S
  <2>1. PICK y \in S : TRUE
    OBVIOUS
  <2>2. m - 1 \in bounds
    BY <1>2, <1>4, <2>1
  <2> QED
    BY <1>2, <2>2
<1> QED
  BY <1>3, <1>4

\* The canonical GUID of a partition is that of one of its entries, if any
\* has one.
LEMMA CanonicalFromEntry ==
    ASSUME NEW vs, Len(vs) \in Nat, NEW p
    PROVE  LET withGuid == GuidEntriesUpTo(vs, Len(vs), p)
           IN  IF withGuid = {} THEN CanonicalAt(vs, p) = None
               ELSE \E i \in withGuid : CanonicalAt(vs, p) = vs[i].guid
<1> DEFINE withGuid == GuidEntriesUpTo(vs, Len(vs), p)
<1>1. withGuid \in SUBSET (1..Len(vs))
  BY EntriesArePositions
<1>2. CanonicalAt(vs, p) =
        IF withGuid = {} THEN None
        ELSE vs[CHOOSE i \in withGuid : \A j \in withGuid : j <= i].guid
  BY DEF CanonicalAt, CanonicalUpTo
<1> HIDE DEF withGuid
<1>3. CASE withGuid # {}
  <2>1. \E i \in withGuid : \A j \in withGuid : j <= i
    BY <1>1, <1>3, GreatestExists
  <2>2. (CHOOSE i \in withGuid : \A j \in withGuid : j <= i) \in withGuid
    BY <2>1
  <2> QED
    BY <1>2, <1>3, <2>2 DEF withGuid
<1>4. CASE withGuid = {}
  BY <1>2, <1>4 DEF withGuid
<1> QED
  BY <1>3, <1>4

\* The rule on the same entries in another order.
LEMMA RuleIgnoresOrder ==
    ASSUME IInv, OneGuidPerPartition, NEW f \in Orders,
           NEW ws, ws = [i \in DOMAIN input.volumes |-> input.volumes[f[i]]], NEW x
    PROVE  CanonicalKey(ws, x) = CanonicalKey(input.volumes, x)
<1> DEFINE vs == input.volumes
           D == 1..Len(vs)
<1>1. /\ vs \in Seq(MountedVolume) /\ Len(vs) \in Nat /\ DOMAIN vs = D
      /\ \A i \in D : vs[i] \in MountedVolume
  BY InputTypes DEF IInv
<1>2. f \in [D -> D] /\ \A i \in D : \E j \in D : f[j] = i
  BY <1>1 DEF Orders
<1>3. ws \in Seq(MountedVolume) /\ Len(ws) = Len(vs) /\ \A i \in D : ws[i] = vs[f[i]]
  <2>1. ws = [i \in D |-> vs[f[i]]]
    BY <1>1
  <2>2. \A i \in D : vs[f[i]] \in MountedVolume
    BY <1>1, <1>2
  <2>3. ws \in [1..Len(vs) -> MountedVolume]
    BY <2>1, <2>2
  <2>4. \A n \in Nat : \A s \in [1..n -> MountedVolume] :
            s \in Seq(MountedVolume) /\ Len(s) = n
    OBVIOUS
  <2> QED
    BY <1>1, <2>1, <2>3, <2>4
<1>4. {PartitionOf(ws[i]) : i \in D} = {PartitionOf(vs[i]) : i \in D}
  <2>1. \A i \in D : f[i] \in D /\ PartitionOf(ws[i]) = PartitionOf(vs[f[i]])
    BY <1>2, <1>3
  <2>2. \A i \in D : \E j \in D : PartitionOf(ws[j]) = PartitionOf(vs[i])
    BY <1>2, <2>1
  <2>3. ASSUME NEW i \in D PROVE PartitionOf(ws[i]) \in {PartitionOf(vs[j]) : j \in D}
    BY <2>1
  <2>4. ASSUME NEW i \in D PROVE PartitionOf(vs[i]) \in {PartitionOf(ws[j]) : j \in D}
    BY <2>2
  <2> HIDE DEF D
  <2> QED
    BY <2>3, <2>4
<1>5. ASSUME NEW p
      PROVE  MembersAt(ws, p) = MembersAt(vs, p)
  <2>1. \A y : y \in MembersAt(vs, p) <=>
            \E i \in D : PartitionOf(vs[i]) = p /\ y \in IdentifiersOf(vs[i])
    BY DEF MembersAt, MembersUpTo, EntriesUpTo
  <2>2. \A y : y \in MembersAt(ws, p) <=>
            \E i \in D : PartitionOf(ws[i]) = p /\ y \in IdentifiersOf(ws[i])
    BY <1>3 DEF MembersAt, MembersUpTo, EntriesUpTo
  <2>3. ASSUME NEW y PROVE y \in MembersAt(ws, p) <=> y \in MembersAt(vs, p)
    <3>1. ASSUME NEW i \in D, PartitionOf(vs[i]) = p, y \in IdentifiersOf(vs[i])
          PROVE  y \in MembersAt(ws, p)
      <4>1. PICK j \in D : f[j] = i
        BY <1>2
      <4>2. ws[j] = vs[i]
        BY <1>3, <4>1
      <4> QED
        BY <2>2, <3>1, <4>2
    <3>2. ASSUME NEW i \in D, PartitionOf(ws[i]) = p, y \in IdentifiersOf(ws[i])
          PROVE  y \in MembersAt(vs, p)
      <4>1. ws[i] = vs[f[i]] /\ f[i] \in D
        BY <1>2, <1>3
      <4> QED
        BY <2>1, <3>2, <4>1
    <3> QED
      BY <2>1, <2>2, <3>1, <3>2
  <2> QED
    BY <2>3
<1>6. ASSUME NEW p
      PROVE  CanonicalAt(ws, p) = CanonicalAt(vs, p)
  <2>1. \A i : i \in GuidEntriesUpTo(vs, Len(vs), p) <=>
                  i \in D /\ PartitionOf(vs[i]) = p /\ vs[i].guid # None
    BY DEF GuidEntriesUpTo, EntriesUpTo
  <2>2. \A i : i \in GuidEntriesUpTo(ws, Len(ws), p) <=>
                  i \in D /\ PartitionOf(vs[f[i]]) = p /\ vs[f[i]].guid # None
    BY <1>3 DEF GuidEntriesUpTo, EntriesUpTo
  <2>3. CASE GuidEntriesUpTo(vs, Len(vs), p) = {}
    <3>1. GuidEntriesUpTo(ws, Len(ws), p) = {}
      BY <1>2, <2>1, <2>2, <2>3
    <3> QED
      BY <1>1, <1>3, <2>3, <3>1, CanonicalFromEntry
  <2>4. CASE GuidEntriesUpTo(vs, Len(vs), p) # {}
    <3>1. PICK i \in GuidEntriesUpTo(vs, Len(vs), p) : CanonicalAt(vs, p) = vs[i].guid
      BY <1>1, <2>4, CanonicalFromEntry
    <3>2. GuidEntriesUpTo(ws, Len(ws), p) # {}
      <4>1. i \in D /\ PartitionOf(vs[i]) = p /\ vs[i].guid # None
        BY <2>1, <3>1
      <4>2. PICK j \in D : f[j] = i
        BY <1>2, <4>1
      <4>3. j \in GuidEntriesUpTo(ws, Len(ws), p)
        BY <2>2, <4>1, <4>2
      <4> QED
        BY <4>3
    <3>3. PICK j \in GuidEntriesUpTo(ws, Len(ws), p) : CanonicalAt(ws, p) = ws[j].guid
      BY <1>1, <1>3, <3>2, CanonicalFromEntry
    <3>4. /\ i \in D /\ PartitionOf(vs[i]) = p /\ vs[i].guid # None
          /\ j \in D /\ f[j] \in D /\ PartitionOf(vs[f[j]]) = p /\ vs[f[j]].guid # None
      BY <1>2, <2>1, <2>2, <3>1, <3>3
    <3>5. vs[f[j]].guid = vs[i].guid
      BY <1>1, <3>4 DEF OneGuidPerPartition
    <3> QED
      BY <1>3, <3>1, <3>3, <3>4, <3>5
  <2> QED
    BY <2>3, <2>4
<1>7. BridgesOf(ws, x) = BridgesOf(vs, x)
  BY <1>3, <1>4, <1>5, <1>6 DEF BridgesOf
<1> QED
  BY <1>6, <1>7 DEF CanonicalKey

(***************************************************************************)
(* The hives may be read in any order, however many volumes they list, as  *)
(* long as they do not contradict each other on the GUID of a partition.   *)
(***************************************************************************)
THEOREM VolumeOrderIrrelevantAlways == Spec => []VolumeOrderIrrelevant
<1>1. IInv => VolumeOrderIrrelevant
  <2> SUFFICES ASSUME IInv, pc = "done", OneGuidPerPartition,
                      NEW f \in Orders,
                      NEW ws, ws = [i \in DOMAIN input.volumes |-> input.volumes[f[i]]]
               PROVE  out = Canonicalized(input.claims, ws)
    BY DEF VolumeOrderIrrelevant
  <2>1. out = Canonicalized(input.claims, input.volumes)
    BY AllCopiedIsCanonicalized DEF IInv, OutMatches
  <2>2. \A x : CanonicalKey(ws, x) = CanonicalKey(input.volumes, x)
    BY RuleIgnoresOrder
  <2> QED
    BY <2>1, <2>2 DEF Canonicalized
<1> QED
  BY <1>1, BridgeInvariant, PTL
=============================================================================
