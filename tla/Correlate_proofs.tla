-------------------------- MODULE Correlate_proofs --------------------------
(***************************************************************************)
(* Correlation, for claim lists of every length: the two loops preserve    *)
(* the inductive invariant, so no claim is lost on the way into the        *)
(* report, and a grade means what lib.rs says it does; the output does not *)
(* show the order of the input, and the views show all of it.              *)
(***************************************************************************)
EXTENDS Pdf, Foundations_proofs

\* Another value leaves what was reported, and by whom.
LEMMA ReportGrows ==
    ASSUME NEW values \in Seq(ProvenancedValue), NEW pv \in ProvenancedValue
    PROVE  /\ Append(values, pv) \in Seq(ProvenancedValue)
           /\ ReportedValues(values) \in SUBSET ReportedValues(Append(values, pv))
           /\ ContainersOf(values) \in SUBSET ContainersOf(Append(values, pv))
<1>1. /\ Append(values, pv) \in Seq(ProvenancedValue)
      /\ DOMAIN values = 1..Len(values) /\ Len(values) \in Nat
      /\ DOMAIN Append(values, pv) = 1..(Len(values) + 1)
      /\ \A j \in 1..Len(values) : Append(values, pv)[j] = values[j]
  OBVIOUS
<1>2. ToSet(values) \in SUBSET ToSet(Append(values, pv))
  BY <1>1 DEF ToSet
<1> QED
  BY <1>1, <1>2 DEF ReportedValues, ContainersOf

(***************************************************************************)
(* The step of the evidence: with another value a conflict stays one and a *)
(* corroborated group does not fall back to a single source.               *)
(***************************************************************************)
LEMMA AnotherValue ==
    ASSUME NEW values \in Seq(ProvenancedValue), NEW pv \in ProvenancedValue
    PROVE  MayBecome(Grade(values), Grade(Append(values, pv)))
<1> DEFINE after == Append(values, pv)
           C == ContainersOf(values)
           V == ReportedValues(values)
           C2 == ContainersOf(after)
           V2 == ReportedValues(after)
<1>1. /\ IsFiniteSet(C) /\ IsFiniteSet(V) /\ IsFiniteSet(C2) /\ IsFiniteSet(V2)
      /\ C \in SUBSET C2 /\ V \in SUBSET V2
  BY ListFinite, ReportGrows
<1>2. /\ Grade(values) = IF Cardinality(C) < 2 THEN "SingleSource"
                         ELSE IF Cardinality(V) = 1 THEN "Corroborated" ELSE "Conflicting"
      /\ Grade(after) = IF Cardinality(C2) < 2 THEN "SingleSource"
                        ELSE IF Cardinality(V2) = 1 THEN "Corroborated" ELSE "Conflicting"
  BY DEF Grade
<1>3. C # {} => V # {}
  BY DEF ContainersOf, ReportedValues
<1> HIDE DEF after, C, V, C2, V2
<1>4. Cardinality(C) \in Nat /\ Cardinality(C2) \in Nat /\ Cardinality(C) <= Cardinality(C2)
  BY <1>1, FS_Subset, FS_CardinalityType
<1>5. Cardinality(V) \in Nat /\ Cardinality(V2) \in Nat /\ Cardinality(V) <= Cardinality(V2)
  BY <1>1, FS_Subset, FS_CardinalityType
<1>6. Cardinality(C) >= 2 => Cardinality(V) >= 1
  BY <1>1, <1>3, <1>4, <1>5, FS_EmptySet
<1> QED
  BY <1>2, <1>4, <1>5, <1>6 DEF MayBecome, after

\* The grade describes the values it is computed from.
LEMMA GradeIsSound ==
    ASSUME NEW values \in Seq(ProvenancedValue)
    PROVE  Describes(Grade(values), values)
<1> DEFINE C == ContainersOf(values)
           V == ReportedValues(values)
           P == ToSet(values)
<1>1. IsFiniteSet(C) /\ IsFiniteSet(V)
  BY ListFinite
<1>2. \A pv \in P : Container(pv.source) \in ArtifactContainer
  <2>1. DOMAIN values = 1..Len(values) /\ \A j \in 1..Len(values) : values[j] \in ProvenancedValue
    OBVIOUS
  <2>2. \A j \in DOMAIN values : values[j].source \in SourceKind
    BY <2>1 DEF ProvenancedValue
  <2> QED
    BY <2>2, ContainerType DEF ToSet
<1>3. C = {Container(pv.source) : pv \in P} /\ V = {pv.value : pv \in P}
  BY DEF ContainersOf, ReportedValues
<1>4. /\ Grade(values) = "SingleSource" => ~ Cardinality(C) >= 2
      /\ Grade(values) = "Corroborated" => Cardinality(C) >= 2 /\ Cardinality(V) = 1
      /\ Grade(values) = "Conflicting" => Cardinality(C) >= 2 /\ Cardinality(V) # 1
      /\ Grade(values) \in Consistency
  BY ListFinite, GradeType DEF Grade
<1> HIDE DEF C, V, P
<1>5. /\ Cardinality(C) >= 2 <=> \E x, y \in C : x # y
      /\ Cardinality(V) = 1 <=> \E v : V = {v}
  BY <1>1, Several
<1>6. CASE Grade(values) = "SingleSource"
  <2>1. \A x, y \in C : x = y
    BY <1>4, <1>5, <1>6
  <2>2. \E container \in ArtifactContainer : \A pv \in P : Container(pv.source) = container
    <3>1. CASE P = {}
      <4>1. "EventLog" \in ArtifactContainer
        BY DEF ArtifactContainer
      <4> QED
        BY <3>1, <4>1
    <3>2. CASE P # {}
      <4>1. PICK one \in P : TRUE
        BY <3>2
      <4>2. \A pv \in P : Container(pv.source) = Container(one.source)
        BY <1>3, <2>1
      <4> QED
        BY <1>2, <4>2
    <3> QED
      BY <3>1, <3>2
  <2>3. \E container \in ArtifactContainer : {pv \in P : Container(pv.source) # container} = {}
    BY <2>2
  <2> QED
    BY <1>6, <2>3 DEF Describes, P
<1>7. CASE Grade(values) = "Corroborated"
  <2>1. PICK v : V = {v}
    BY <1>4, <1>5, <1>7
  <2>2. \A pv \in P : pv.value = v
    BY <1>3, <2>1
  <2>3. ASSUME NEW container \in ArtifactContainer
        PROVE  \E pv \in P : Container(pv.source) # container
    BY <1>3, <1>4, <1>5, <1>7
  <2>4. \A container \in ArtifactContainer :
            {pv.value : pv \in {q \in P : Container(q.source) # container}} = {v}
    BY <2>2, <2>3
  <2>5. v \in V
    BY <2>1
  <2> QED
    BY <1>7, <2>4, <2>5 DEF Describes, P, V
<1>8. CASE Grade(values) = "Conflicting"
  <2>1. PICK a, b \in P : Container(a.source) # Container(b.source)
    BY <1>3, <1>4, <1>5, <1>8
  <2>2. \E c, d \in P : Container(c.source) # Container(d.source) /\ c.value # d.value
    <3>1. CASE a.value # b.value
      BY <2>1, <3>1
    <3>2. CASE a.value = b.value
      <4>1. PICK c \in P : c.value # a.value
        <5>1. V # {a.value} /\ a.value \in V
          BY <1>3, <1>4, <1>5, <1>8
        <5> QED
          BY <1>3, <5>1
      <4>2. Container(c.source) # Container(a.source) \/ Container(c.source) # Container(b.source)
        BY <2>1
      <4> QED
        BY <3>2, <4>1, <4>2
    <3> QED
      BY <3>1, <3>2
  <2> QED
    BY <1>8, <2>2 DEF Describes, P
<1> QED
  BY <1>4, <1>6, <1>7, <1>8 DEF Consistency

-----------------------------------------------------------------------------
\* The claims of a list.
LEMMA ClaimsTyped ==
    ASSUME TypeOK
    PROVE  /\ Len(claims) \in Nat /\ DOMAIN claims = 1..Len(claims)
           /\ \A i \in 1..Len(claims) : claims[i] \in Claim
           /\ ToSet(claims) \in SUBSET Claim
<1>1. /\ Len(claims) \in Nat /\ DOMAIN claims = 1..Len(claims)
      /\ \A i \in 1..Len(claims) : claims[i] \in Claim
  BY DEF TypeOK
<1> QED
  BY <1>1 DEF ToSet

\* One more claim in its group keeps the evidence of every group whole.
LEMMA PushHolds ==
    ASSUME TypeOK, PushClaim, NEW group \in Group, HoldsUpTo(claims, next - 1, grouped[group], group)
    PROVE  HoldsUpTo(claims', next' - 1, grouped'[group], group)
<1> DEFINE new == claims[next]
           before == grouped[group]
           after == grouped'[group]
<1>1. /\ next \in 1..Len(claims) /\ next \in Nat /\ new \in Claim
      /\ next' = next + 1 /\ claims' = claims
      /\ before \in Seq(ProvenancedValue) /\ Len(before) \in Nat
      /\ DOMAIN before = 1..Len(before)
  BY ClaimsTyped DEF TypeOK, PushClaim
<1>2. after = IF GroupOf(new) = group THEN Append(before, Provenanced(new)) ELSE before
  BY DEF TypeOK, PushClaim
<1>3. Provenanced(new) \in ProvenancedValue
  BY <1>1, ClaimFields
<1>4. /\ DOMAIN after = IF GroupOf(new) = group THEN 1..(Len(before) + 1) ELSE 1..Len(before)
      /\ \A j \in 1..Len(before) : after[j] = before[j]
      /\ GroupOf(new) = group => after[Len(before) + 1] = Provenanced(new)
  BY <1>1, <1>2, <1>3
<1>5. ASSUME NEW c \in ToSet(claims), GroupOf(c) = group
      PROVE  Cardinality({j \in DOMAIN after : after[j] = Provenanced(c)})
                = Cardinality({i \in 1..next : claims[i] = c})
  <2> DEFINE read == {i \in 1..(next - 1) : claims[i] = c}
             readNow == {i \in 1..next : claims[i] = c}
             places == {j \in DOMAIN before : before[j] = Provenanced(c)}
             placesNow == {j \in DOMAIN after : after[j] = Provenanced(c)}
  <2>1. Cardinality(places) = Cardinality(read)
    BY <1>5 DEF HoldsUpTo, PlacesIn, ReadAs
  <2>2. IsFiniteSet(read) /\ IsFiniteSet(places)
    <3>1. \A n \in Int : IsFiniteSet(1..n)
      BY FS_Interval
    <3> QED
      <4>0. next - 1 \in Int /\ Len(before) \in Int
        BY ONLY <1>1
      <4>1. IsFiniteSet(1..(next - 1)) /\ IsFiniteSet(1..Len(before))
        BY ONLY <3>1, <4>0
      <4>2. read \in SUBSET (1..(next - 1)) /\ places \in SUBSET (1..Len(before))
        BY <1>1
      <4> HIDE DEF read, places
      <4> QED
        BY <4>1, <4>2, FS_Subset
  <2>3. new = c <=> GroupOf(new) = group /\ Provenanced(new) = Provenanced(c)
    BY <1>1, <1>5, ClaimsTyped, ClaimIdentity
  <2>4. CASE new = c
    <3>1. readNow = read \cup {next} /\ next \notin read
      BY <1>1, <2>4
    <3>2. placesNow = places \cup {Len(before) + 1} /\ Len(before) + 1 \notin places
      BY <1>1, <1>4, <2>3, <2>4
    <3> HIDE DEF read, readNow, places, placesNow
    <3>3. Cardinality(readNow) = Cardinality(read) + 1
      BY <2>2, <3>1, FS_AddElement
    <3>4. Cardinality(placesNow) = Cardinality(places) + 1
      BY <2>2, <3>2, FS_AddElement
    <3>5. Cardinality(placesNow) = Cardinality(readNow)
      BY <2>1, <3>3, <3>4
    <3> QED
      BY <3>5 DEF placesNow, readNow
  <2>5. CASE new # c
    <3>1. readNow = read
      BY <1>1, <2>5
    <3>2. placesNow = places
      BY <1>1, <1>4, <2>3, <2>5
    <3> QED
      BY <2>1, <3>1, <3>2
  <2> QED
    BY <2>4, <2>5
<1>6. ASSUME NEW j \in DOMAIN after
      PROVE  \E i \in 1..next : GroupOf(claims[i]) = group /\ after[j] = Provenanced(claims[i])
  <2>1. CASE j \in 1..Len(before)
    <3>1. PICK i \in 1..(next - 1) :
              GroupOf(claims[i]) = group /\ before[j] = Provenanced(claims[i])
      BY <1>1, <2>1 DEF HoldsUpTo
    <3> QED
      BY <1>1, <1>4, <2>1, <3>1
  <2>2. CASE j \notin 1..Len(before)
    <3>1. GroupOf(new) = group /\ j = Len(before) + 1
      BY <1>1, <1>4, <2>2
    <3> QED
      BY <1>1, <1>4, <3>1
  <2> QED
    BY <2>1, <2>2
<1>7. next' - 1 = next
  BY <1>1
<1> HIDE DEF after
<1> QED
  BY <1>1, <1>5, <1>6, <1>7 DEF HoldsUpTo, PlacesIn, ReadAs, after

\* A list in another order holds the same evidence.
LEMMA ArrangementHolds ==
    ASSUME TypeOK, NEW group \in Group, NEW list \in Seq(ProvenancedValue),
           NEW values \in Arrangements(list), HoldsUpTo(claims, next - 1, list, group)
    PROVE  /\ values \in Seq(ProvenancedValue) /\ HoldsUpTo(claims, next - 1, values, group)
           /\ list # <<>> => values # <<>>
<1> DEFINE D == 1..Len(list)
<1>1. Len(list) \in Nat /\ DOMAIN list = D /\ \A j \in D : list[j] \in ProvenancedValue
  OBVIOUS
<1>2. PICK f \in Bijection(D, D) : values = [j \in D |-> list[f[j]]]
  BY <1>1 DEF Arrangements
<1>3. /\ f \in [D -> D] /\ \A i \in D : \E j \in D : f[j] = i
      /\ \A i, j \in D : f[i] = f[j] => i = j
  BY <1>2 DEF Bijection, Injection, Surjection, IsInjective
<1>4. values \in [1..Len(list) -> ProvenancedValue]
  BY <1>1, <1>2, <1>3
<1>5. values \in Seq(ProvenancedValue) /\ DOMAIN values = D
  <2>1. \A n \in Nat : \A s \in [1..n -> ProvenancedValue] : s \in Seq(ProvenancedValue)
    OBVIOUS
  <2> QED
    BY <1>1, <1>4, <2>1
<1>6. ASSUME NEW c \in ToSet(claims), GroupOf(c) = group
      PROVE  Cardinality(PlacesIn(values, c)) = Cardinality(ReadAs(claims, next - 1, c))
  <2> DEFINE S == PlacesIn(values, c)
             T == PlacesIn(list, c)
             g == [j \in S |-> f[j]]
  <2>1. /\ S = {j \in D : list[f[j]] = Provenanced(c)}
        /\ T = {j \in D : list[j] = Provenanced(c)}
    BY <1>1, <1>2, <1>5 DEF PlacesIn
  <2>2. IsFiniteSet(S)
    <3>1. IsFiniteSet(D)
      BY <1>1, FS_Interval
    <3> QED
      BY <2>1, <3>1, FS_Subset
  <2>3. g \in Bijection(S, T)
    <3>1. g \in [S -> T]
      BY <1>3, <2>1
    <3>2. \A i, j \in S : g[i] = g[j] => i = j
      BY <1>3, <2>1
    <3>3. \A t \in T : \E s \in S : g[s] = t
      BY <1>3, <2>1
    <3> QED
      BY <3>1, <3>2, <3>3 DEF Bijection, Injection, Surjection, IsInjective
  <2>4. Cardinality(T) = Cardinality(S)
    BY <2>2, <2>3, FS_Bijection DEF ExistsBijection
  <2> QED
    BY <1>6, <2>4 DEF HoldsUpTo
<1>7. ASSUME NEW j \in DOMAIN values
      PROVE  \E i \in 1..(next - 1) :
                GroupOf(claims[i]) = group /\ values[j] = Provenanced(claims[i])
  <2>1. f[j] \in DOMAIN list /\ values[j] = list[f[j]]
    BY <1>1, <1>2, <1>3, <1>5
  <2> QED
    BY <2>1 DEF HoldsUpTo
<1>8. list # <<>> => values # <<>>
  BY <1>1, <1>5
<1> QED
  BY <1>5, <1>6, <1>7, <1>8 DEF HoldsUpTo

\* The entries of the report.
LEMMA HistoriesTyped ==
    ASSUME TypeOK, NEW k \in DOMAIN histories
    PROVE  GroupOf(histories[k]) \in Group /\ histories[k].values \in Seq(ProvenancedValue)
<1>1. histories[k] \in HistoryEntry
  BY DEF TypeOK
<1> QED
  BY <1>1 DEF GroupOf, Group, HistoryEntry

-----------------------------------------------------------------------------
\* The initial states satisfy the inductive invariant.
LEMMA InitIInv == Init => IInv
<1> SUFFICES ASSUME Init PROVE IInv
  OBVIOUS
<1>1. claims \in Seq(Claim) /\ Len(claims) \in Nat /\ next = 1 /\ histories = <<>> /\ pc = "push"
  BY CorrelateAssumption DEF Init
<1>2. TypeOK
  BY <1>1 DEF Init, TypeOK
<1>3. DOMAIN histories = {}
  BY <1>1
<1>4. ASSUME NEW group \in Group PROVE HoldsUpTo(claims, next - 1, grouped[group], group)
  <2>1. grouped[group] = <<>> /\ DOMAIN grouped[group] = {}
    BY DEF Init
  <2>2. \A c : PlacesIn(grouped[group], c) = {} /\ ReadAs(claims, next - 1, c) = {}
    BY <1>1, <2>1 DEF PlacesIn, ReadAs
  <2> QED
    BY <2>1, <2>2 DEF HoldsUpTo
<1>5. EvidenceKept
  BY <1>3, <1>4 DEF EvidenceKept
<1>6. ReportInOrder
  BY <1>1, <1>3 DEF ReportInOrder
<1> QED
  BY <1>1, <1>2, <1>3, <1>5, <1>6 DEF IInv

\* Reading a claim preserves it.
LEMMA PushClaimIInv == IInv /\ PushClaim => IInv'
<1> SUFFICES ASSUME IInv, PushClaim PROVE IInv'
  OBVIOUS
<1>1. /\ TypeOK /\ pc = "push" /\ pc' = "push" /\ histories = <<>> /\ histories' = <<>>
      /\ claims' = claims /\ next' = next + 1 /\ next \in 1..Len(claims)
      /\ Len(claims) \in Nat /\ claims[next] \in Claim
      /\ DOMAIN histories = {} /\ DOMAIN histories' = {}
  BY ClaimsTyped DEF IInv, TypeOK, PushClaim
<1>2. TypeOK'
  <2>1. GroupOf(claims[next]) \in Group /\ Provenanced(claims[next]) \in ProvenancedValue
    BY <1>1, ClaimFields
  <2> QED
    BY <1>1, <2>1 DEF TypeOK, PushClaim
<1>3. ASSUME NEW group \in Group PROVE HoldsUpTo(claims', next' - 1, grouped'[group], group)
  <2>1. HoldsUpTo(claims, next - 1, grouped[group], group)
    BY <1>1 DEF IInv, EvidenceKept
  <2> QED
    BY <1>1, <2>1, PushHolds
<1>4. EvidenceKept'
  BY <1>1, <1>3 DEF EvidenceKept
<1>5. ReportInOrder'
  BY <1>1 DEF ReportInOrder
<1> QED
  BY <1>1, <1>2, <1>4, <1>5 DEF IInv

\* Grading a group preserves it.
LEMMA GradeGroupIInv == IInv /\ GradeGroup => IInv'
<1> SUFFICES ASSUME IInv, GradeGroup PROVE IInv'
  OBVIOUS
<1>0. PICK group \in Pending :
        \E values \in Arrangements(grouped[group]) :
            /\ \A other \in Pending \ {group} : Before(GroupRank(group), GroupRank(other))
            /\ InOrder(values)
            /\ histories' = Append(histories, Entry(group, values))
            /\ grouped' = [grouped EXCEPT ![group] = <<>>]
  BY DEF GradeGroup
<1>1. PICK values \in Arrangements(grouped[group]) :
        /\ \A other \in Pending \ {group} : Before(GroupRank(group), GroupRank(other))
        /\ InOrder(values)
        /\ histories' = Append(histories, Entry(group, values))
        /\ grouped' = [grouped EXCEPT ![group] = <<>>]
  BY <1>0
<1> DEFINE n == Len(histories)
           entry == Entry(group, values)
<1>2. /\ TypeOK /\ pc = "grade" /\ pc' = "grade" /\ claims' = claims /\ next' = next
      /\ group \in Group /\ grouped[group] # <<>> /\ grouped[group] \in Seq(ProvenancedValue)
      /\ n \in Nat /\ DOMAIN histories = 1..n
  BY DEF IInv, TypeOK, GradeGroup, Pending
<1>3. /\ \A k \in DOMAIN histories : GroupOf(histories[k]) # group
      /\ HoldsUpTo(claims, next - 1, grouped[group], group)
  BY <1>2 DEF IInv, EvidenceKept
<1>4. /\ values \in Seq(ProvenancedValue) /\ HoldsUpTo(claims, next - 1, values, group)
      /\ values # <<>>
  BY <1>2, <1>3, ArrangementHolds
<1>5. /\ entry.device = group.device /\ entry.attribute = group.attribute
      /\ entry.values = values /\ entry.consistency = Grade(values)
      /\ GroupOf(entry) = group /\ GroupRank(entry) = GroupRank(group)
      /\ entry \in HistoryEntry
  BY <1>2, <1>4, GradeType DEF Entry, GroupOf, GroupRank, Group, HistoryEntry
<1> HIDE DEF entry
<1>6. /\ histories' \in Seq(HistoryEntry)
      /\ DOMAIN histories' = 1..(n + 1)
      /\ \A k \in 1..n : histories'[k] = histories[k]
      /\ histories'[n + 1] = entry
  BY <1>1, <1>2, <1>5 DEF TypeOK, entry
<1>7. grouped' = [g \in Group |-> IF g = group THEN <<>> ELSE grouped[g]]
  BY <1>1, <1>2 DEF TypeOK
<1>8. TypeOK'
  BY <1>2, <1>6, <1>7 DEF TypeOK
<1>10. EvidenceKept'
  <2> SUFFICES ASSUME NEW g \in Group
               PROVE  \/ /\ \A k \in DOMAIN histories' : GroupOf(histories'[k]) # g
                         /\ HoldsUpTo(claims, next - 1, grouped'[g], g)
                      \/ /\ grouped'[g] = <<>>
                         /\ \E k \in DOMAIN histories' :
                              /\ GroupOf(histories'[k]) = g
                              /\ HoldsUpTo(claims, next - 1, histories'[k].values, g)
                              /\ \A m \in DOMAIN histories' : GroupOf(histories'[m]) = g => m = k
    BY <1>2 DEF EvidenceKept
  <2>1. CASE g = group
    <3>1. \A m \in DOMAIN histories' : GroupOf(histories'[m]) = g => m = n + 1
      BY <1>2, <1>3, <1>6, <2>1
    <3>2. n + 1 \in DOMAIN histories'
      BY <1>2, <1>6
    <3> QED
      BY <1>4, <1>5, <1>6, <1>7, <2>1, <3>1, <3>2
  <2>2. CASE g # group
    <3>1. grouped'[g] = grouped[g]
      BY <1>7, <2>2
    <3>2. CASE /\ \A k \in DOMAIN histories : GroupOf(histories[k]) # g
               /\ HoldsUpTo(claims, next - 1, grouped[g], g)
      <4>1. ASSUME NEW k \in DOMAIN histories' PROVE GroupOf(histories'[k]) # g
        <5>1. CASE k \in DOMAIN histories
          BY <1>2, <1>6, <3>2, <5>1
        <5>2. CASE k = n + 1
          BY <1>5, <1>6, <2>2, <5>2
        <5> QED
          BY <1>2, <1>6, <5>1, <5>2
      <4> QED
        BY <3>1, <3>2, <4>1
    <3>3. CASE /\ grouped[g] = <<>>
               /\ \E k \in DOMAIN histories :
                    /\ GroupOf(histories[k]) = g
                    /\ HoldsUpTo(claims, next - 1, histories[k].values, g)
                    /\ \A m \in DOMAIN histories : GroupOf(histories[m]) = g => m = k
      <4>1. PICK k \in DOMAIN histories :
                    /\ GroupOf(histories[k]) = g
                    /\ HoldsUpTo(claims, next - 1, histories[k].values, g)
                    /\ \A m \in DOMAIN histories : GroupOf(histories[m]) = g => m = k
        BY <3>3
      <4>2. \A m \in DOMAIN histories' : GroupOf(histories'[m]) = g => m = k
        <5> SUFFICES ASSUME NEW m \in DOMAIN histories', GroupOf(histories'[m]) = g
                     PROVE  m = k
          OBVIOUS
        <5>1. m # n + 1
          BY <1>5, <1>6, <2>2
        <5>2. m \in DOMAIN histories /\ histories'[m] = histories[m]
          BY <1>2, <1>6, <5>1
        <5> QED
          BY <4>1, <5>2
      <4>3. k \in DOMAIN histories' /\ histories'[k] = histories[k]
        BY <1>2, <1>6
      <4> QED
        BY <3>1, <3>3, <4>1, <4>2, <4>3
    <3> QED
      BY <3>2, <3>3 DEF IInv, EvidenceKept
  <2> QED
    BY <2>1, <2>2
<1>11. ASSUME NEW k \in DOMAIN histories'
       PROVE  histories'[k].consistency = Grade(histories'[k].values)
  <2>1. CASE k \in 1..n
    BY <1>2, <1>6, <2>1 DEF IInv
  <2>2. CASE k = n + 1
    BY <1>5, <1>6, <2>2
  <2> QED
    BY <1>6, <2>1, <2>2
<1>12. ReportInOrder'
  <2>1. Pending' = Pending \ {group}
    BY <1>2, <1>7 DEF Pending
  <2>2. ASSUME NEW k \in DOMAIN histories', NEW m \in DOMAIN histories', k < m
        PROVE  Before(GroupRank(histories'[k]), GroupRank(histories'[m]))
    <3>1. k \in 1..n /\ histories'[k] = histories[k]
      BY <1>2, <1>6, <2>2
    <3>2. CASE m \in 1..n
      BY <1>2, <1>6, <2>2, <3>1, <3>2 DEF IInv, ReportInOrder
    <3>3. CASE m = n + 1
      BY <1>2, <1>5, <1>6, <3>1, <3>3 DEF IInv, ReportInOrder
    <3> QED
      BY <1>6, <3>2, <3>3
  <2>3. ASSUME NEW k \in DOMAIN histories'
        PROVE  /\ histories'[k].values # <<>> /\ InOrder(histories'[k].values)
               /\ \A other \in Pending' : Before(GroupRank(histories'[k]), GroupRank(other))
    <3>1. CASE k \in 1..n
      BY <1>2, <1>6, <2>1, <3>1 DEF IInv, ReportInOrder
    <3>2. CASE k = n + 1
      BY <1>1, <1>4, <1>5, <1>6, <2>1, <3>2
    <3> QED
      BY <1>6, <3>1, <3>2
  <2> QED
    BY <1>2, <2>2, <2>3 DEF ReportInOrder
<1> QED
  BY <1>2, <1>8, <1>10, <1>11, <1>12 DEF IInv

\* Every step preserves the inductive invariant.
LEMMA NextIInv == IInv /\ [Next]_vars => IInv'
<1> SUFFICES ASSUME IInv, [Next]_vars PROVE IInv'
  OBVIOUS
<1>1. CASE PushEnd \/ GradeEnd \/ UNCHANGED vars
  <2>1. /\ claims' = claims /\ next' = next /\ grouped' = grouped /\ histories' = histories
        /\ Pending' = Pending
    BY <1>1 DEF PushEnd, GradeEnd, vars, Pending
  <2>2. TypeOK' /\ (pc' = "push" => histories' = <<>>) /\ (pc' # "push" => next' = Len(claims') + 1)
    BY <1>1, <2>1, ClaimsTyped DEF IInv, TypeOK, PushEnd, GradeEnd, vars
  <2>3. EvidenceKept'
    BY <2>1 DEF IInv, EvidenceKept
  <2>4. ReportInOrder'
    BY <1>1, <2>1 DEF IInv, ReportInOrder, PushEnd, GradeEnd, vars
  <2> QED
    BY <2>1, <2>2, <2>3, <2>4 DEF IInv
<1> QED
  BY <1>1, PushClaimIInv, GradeGroupIInv DEF Next

-----------------------------------------------------------------------------
(***************************************************************************)
(* The invariant of the two loops of correlate holds for every claim list. *)
(***************************************************************************)
THEOREM CorrelateInvariant == Spec => []IInv
BY InitIInv, NextIInv, PTL DEF Spec

(***************************************************************************)
(* Every grade in the report describes the values shown with it, for any   *)
(* number of claims: corroboration outlives the loss of any one container. *)
(***************************************************************************)
THEOREM GradeSoundAlways == Spec => []GradeSound
<1>1. IInv => GradeSound
  <2> SUFFICES ASSUME IInv, NEW k \in DOMAIN histories
               PROVE  Describes(histories[k].consistency, histories[k].values)
    BY DEF GradeSound
  <2>1. histories[k].values \in Seq(ProvenancedValue)
    BY HistoriesTyped DEF IInv
  <2>2. histories[k].consistency = Grade(histories[k].values)
    BY DEF IInv
  <2> QED
    BY <2>1, <2>2, GradeIsSound
<1> QED
  BY <1>1, CorrelateInvariant, PTL

(***************************************************************************)
(* More evidence never weakens a grade, in groups of any size.             *)
(***************************************************************************)
THEOREM GradesOnlyRiseAlways == Spec => GradesOnlyRise
<1>1. IInv /\ [Next]_vars =>
        [pc = "push" => \A group \in Pending :
            MayBecome(Grade(grouped[group]), Grade(grouped'[group]))]_vars
  <2> SUFFICES ASSUME IInv, [Next]_vars, pc = "push", NEW group \in Pending
               PROVE  MayBecome(Grade(grouped[group]), Grade(grouped'[group]))
    OBVIOUS
  <2>1. group \in Group /\ grouped[group] \in Seq(ProvenancedValue)
    BY DEF Pending, IInv, TypeOK
  <2>2. CASE grouped'[group] = grouped[group]
    BY <2>2, GradeType DEF MayBecome, Consistency
  <2>3. CASE PushClaim
    <3>1. claims[next] \in Claim
      BY <2>3, ClaimsTyped DEF IInv, TypeOK, PushClaim
    <3>2. Provenanced(claims[next]) \in ProvenancedValue
      BY <3>1, ClaimFields
    <3>3. grouped'[group] \in {grouped[group], Append(grouped[group], Provenanced(claims[next]))}
      BY <2>1, <2>3 DEF PushClaim, IInv, TypeOK
    <3> QED
      BY <2>1, <2>2, <3>2, <3>3, AnotherValue
  <2>4. CASE PushEnd \/ GradeGroup \/ GradeEnd \/ UNCHANGED vars
    BY <2>2, <2>4 DEF PushEnd, GradeGroup, GradeEnd, vars
  <2> QED
    BY <2>3, <2>4 DEF Next
<1> QED
  BY <1>1, CorrelateInvariant, PTL DEF Spec, GradesOnlyRise

(***************************************************************************)
(* The report holds each claim as often as it was handed over, under its   *)
(* own device and attribute, and nothing else, in lists of any length.     *)
(***************************************************************************)
THEOREM EvidenceConservedAlways == Spec => []EvidenceConserved
<1>1. IInv => EvidenceConserved
  <2> SUFFICES ASSUME IInv, pc = "done"
               PROVE  /\ \A c \in ToSet(claims) :
                          ClaimCount(c) = Cardinality({p \in Places :
                              /\ GroupOf(histories[p[1]]) = GroupOf(c)
                              /\ histories[p[1]].values[p[2]] = Provenanced(c)})
                      /\ \A p \in Places : \E c \in ToSet(claims) :
                              /\ GroupOf(histories[p[1]]) = GroupOf(c)
                              /\ histories[p[1]].values[p[2]] = Provenanced(c)
    BY DEF EvidenceConserved
  <2>1. /\ TypeOK /\ next - 1 = Len(claims) /\ DOMAIN claims = 1..Len(claims)
        /\ \A group \in Group : grouped[group] = <<>>
        /\ \A i \in 1..Len(claims) : claims[i] \in ToSet(claims) /\ claims[i] \in Claim
    BY ClaimsTyped DEF IInv, ReportInOrder, Pending, ToSet
  <2>2. ASSUME NEW k \in DOMAIN histories
        PROVE  /\ GroupOf(histories[k]) \in Group
               /\ histories[k].values \in Seq(ProvenancedValue)
               /\ HoldsUpTo(claims, next - 1, histories[k].values, GroupOf(histories[k]))
               /\ \A m \in DOMAIN histories :
                      GroupOf(histories[m]) = GroupOf(histories[k]) => m = k
    <3>1. GroupOf(histories[k]) \in Group /\ histories[k].values \in Seq(ProvenancedValue)
      BY HistoriesTyped DEF IInv
    <3> QED
      BY <3>1 DEF IInv, EvidenceKept
  <2>3. ASSUME NEW c \in ToSet(claims)
        PROVE  ClaimCount(c) = Cardinality({p \in Places :
                              /\ GroupOf(histories[p[1]]) = GroupOf(c)
                              /\ histories[p[1]].values[p[2]] = Provenanced(c)})
    <3> DEFINE T == {p \in Places : /\ GroupOf(histories[p[1]]) = GroupOf(c)
                                    /\ histories[p[1]].values[p[2]] = Provenanced(c)}
    <3>1. c \in Claim /\ GroupOf(c) \in Group
      BY <2>1, ClaimsTyped, ClaimFields
    <3>2. ClaimCount(c) = Cardinality(ReadAs(claims, next - 1, c))
      BY <2>1 DEF ClaimCount, ReadAs
    <3>3. \A p : p \in Places <=> \E k \in DOMAIN histories :
                    \E j \in DOMAIN histories[k].values : p = <<k, j>>
      BY DEF Places
    <3>4. CASE \A k \in DOMAIN histories : GroupOf(histories[k]) # GroupOf(c)
      <4>1. HoldsUpTo(claims, next - 1, <<>>, GroupOf(c))
        BY <2>1, <3>1, <3>4 DEF IInv, EvidenceKept
      <4>2. PlacesIn(<<>>, c) = {}
        BY DEF PlacesIn
      <4>3. T = {}
        BY <3>3, <3>4
      <4> QED
        BY <3>2, <4>1, <4>2, <4>3 DEF HoldsUpTo
    <3>5. CASE \E k \in DOMAIN histories : GroupOf(histories[k]) = GroupOf(c)
      <4>1. PICK k \in DOMAIN histories : GroupOf(histories[k]) = GroupOf(c)
        BY <3>5
      <4> DEFINE values == histories[k].values
                 S == PlacesIn(values, c)
                 f == [j \in S |-> <<k, j>>]
      <4>2. Cardinality(S) = Cardinality(ReadAs(claims, next - 1, c))
        BY <2>2, <4>1 DEF HoldsUpTo
      <4>3. IsFiniteSet(S)
        <5>1. values \in Seq(ProvenancedValue) /\ DOMAIN values = 1..Len(values) /\ Len(values) \in Nat
          BY <2>2
        <5>2. IsFiniteSet(1..Len(values))
          BY <5>1, FS_Interval
        <5>3. S \in SUBSET (1..Len(values))
          BY <5>1 DEF PlacesIn
        <5> QED
          BY <5>2, <5>3, FS_Subset
      <4>4. \A p : p \in T <=> \E j \in S : p = <<k, j>>
        BY <2>2, <3>3, <4>1 DEF PlacesIn
      <4>5. f \in Bijection(S, T)
        <5> HIDE DEF S, T
        <5>1. f \in [S -> T]
          BY <4>4
        <5>2. \A i, j \in S : f[i] = f[j] => i = j
          OBVIOUS
        <5>3. \A t \in T : \E s \in S : f[s] = t
          BY <4>4
        <5> QED
          BY <5>1, <5>2, <5>3 DEF Bijection, Injection, Surjection, IsInjective
      <4>6. Cardinality(T) = Cardinality(S)
        <5> HIDE DEF S, T, f
        <5> QED
          BY <4>3, <4>5, FS_Bijection DEF ExistsBijection
      <4> QED
        BY <3>2, <4>2, <4>6
    <3> QED
      BY <3>4, <3>5
  <2>4. ASSUME NEW p \in Places
        PROVE  \E c \in ToSet(claims) :
                   /\ GroupOf(histories[p[1]]) = GroupOf(c)
                   /\ histories[p[1]].values[p[2]] = Provenanced(c)
    <3>1. PICK k \in DOMAIN histories : \E j \in DOMAIN histories[k].values : p = <<k, j>>
      BY DEF Places
    <3>2. PICK j \in DOMAIN histories[k].values : p = <<k, j>>
      BY <3>1
    <3>3. PICK i \in 1..Len(claims) : /\ GroupOf(claims[i]) = GroupOf(histories[k])
                                      /\ histories[k].values[j] = Provenanced(claims[i])
      BY <2>1, <2>2, <3>2 DEF HoldsUpTo
    <3> QED
      BY <2>1, <3>2, <3>3
  <2> QED
    BY <2>3, <2>4
<1> QED
  BY <1>1, CorrelateInvariant, PTL

-----------------------------------------------------------------------------
\* When the loops are done, the histories are what correlate promises.
LEMMA LoopsReport ==
    ASSUME IInv, pc = "done"
    PROVE  IsReportOf(claims, histories)
<1>1. /\ TypeOK /\ next - 1 = Len(claims) /\ DOMAIN claims = 1..Len(claims)
      /\ claims \in Seq(Claim) /\ histories \in Seq(HistoryEntry)
      /\ \A group \in Group : grouped[group] = <<>>
  BY ClaimsTyped DEF IInv, TypeOK, ReportInOrder, Pending
<1>2. ASSUME NEW k \in DOMAIN histories
      PROVE  HoldsUpTo(claims, Len(claims), histories[k].values, GroupOf(histories[k]))
  <2>1. GroupOf(histories[k]) \in Group
    BY <1>1, HistoriesTyped
  <2>2. HoldsUpTo(claims, next - 1, histories[k].values, GroupOf(histories[k]))
    BY <2>1 DEF IInv, EvidenceKept
  <2> QED
    BY <1>1, <2>2
<1>3. ASSUME NEW i \in 1..Len(claims)
      PROVE  \E k \in DOMAIN histories : GroupOf(histories[k]) = GroupOf(claims[i])
  <2> DEFINE c == claims[i]
  <2>1. c \in ToSet(claims) /\ GroupOf(c) \in Group /\ Len(claims) \in Nat
    BY <1>1, ListedClaims
  <2>2. ASSUME HoldsUpTo(claims, next - 1, <<>>, GroupOf(c)) PROVE FALSE
    <3>1. PlacesIn(<<>>, c) = {}
      BY DEF PlacesIn
    <3>2. Cardinality(ReadAs(claims, Len(claims), c)) = 0
      <4>1. Cardinality(PlacesIn(<<>>, c)) = Cardinality(ReadAs(claims, Len(claims), c))
        BY <1>1, <2>1, <2>2 DEF HoldsUpTo
      <4> QED
        BY <3>1, <4>1, FS_EmptySet
    <3>3. IsFiniteSet(ReadAs(claims, Len(claims), c))
      BY <2>1, PlacesFinite DEF ReadAs
    <3>4. i \in ReadAs(claims, Len(claims), c)
      BY DEF ReadAs
    <3> QED
      BY <3>2, <3>3, <3>4, Several
  <2> QED
    BY <1>1, <2>1, <2>2 DEF IInv, EvidenceKept
<1> QED
  BY <1>1, <1>2, <1>3 DEF IsReportOf, IInv, ReportInOrder

\* Two claims exchanged are the same claims.
LEMMA ExchangedSame ==
    ASSUME TypeOK, NEW i \in DOMAIN claims, NEW j \in DOMAIN claims
    PROVE  Exchanged(i, j) \in Seq(Claim) /\ SameClaims(claims, Exchanged(i, j))
<1> DEFINE n == Len(claims)
           ds == Exchanged(i, j)
           swap == [k \in 1..n |-> IF k = i THEN j ELSE IF k = j THEN i ELSE k]
<1>1. n \in Nat /\ DOMAIN claims = 1..n /\ \A k \in 1..n : claims[k] \in Claim
  BY ClaimsTyped
<1>2. ds = [k \in 1..n |-> claims[swap[k]]]
  BY <1>1 DEF Exchanged, TypeOK
<1>3. /\ swap \in [1..n -> 1..n] /\ (\A k \in 1..n : swap[swap[k]] = k)
  BY <1>1
<1> HIDE DEF n, ds, swap
<1>4. ds \in Seq(Claim) /\ Len(ds) = n
  <2>1. ds \in [1..n -> Claim]
    BY <1>1, <1>2, <1>3
  <2> QED
    BY <1>1, <2>1, TupleIsSeq
<1>5. ASSUME NEW c \in Claim
      PROVE  Cardinality(ReadAs(claims, n, c)) = Cardinality(ReadAs(ds, n, c))
  <2> DEFINE A == ReadAs(ds, n, c)
             B == ReadAs(claims, n, c)
             g == [k \in A |-> swap[k]]
  <2>1. A \in SUBSET (1..n) /\ \A k \in 1..n : k \in A <=> claims[swap[k]] = c
    BY <1>2 DEF ReadAs
  <2>2. \A k : k \in B <=> k \in 1..n /\ claims[k] = c
    BY DEF ReadAs
  <2> HIDE DEF A, B
  <2>3. IsFiniteSet(A)
    BY <1>1, <2>1, PlacesFinite
  <2>4. g \in [A -> B] /\ (\A k \in B : \E m \in A : g[m] = k) /\ (\A k, m \in A : g[k] = g[m] => k = m)
    <3>1. ASSUME NEW k \in A PROVE g[k] \in B
      BY <1>3, <2>1, <2>2
    <3>2. ASSUME NEW k \in B PROVE swap[k] \in A /\ g[swap[k]] = k
      BY <1>3, <2>1, <2>2
    <3>3. ASSUME NEW k \in A, NEW m \in A, g[k] = g[m] PROVE k = m
      <4>1. swap[swap[k]] = k /\ swap[swap[m]] = m /\ swap[k] = swap[m]
        BY <1>3, <2>1, <3>3
      <4> QED
        BY <4>1
    <3>4. g \in [A -> B]
      BY <3>1
    <3> HIDE DEF g
    <3> QED
      BY <3>2, <3>3, <3>4
  <2>5. g \in Bijection(A, B)
    <3> HIDE DEF g
    <3> QED
      BY <2>4 DEF Bijection, Injection, Surjection, IsInjective
  <2>6. Cardinality(A) = Cardinality(B)
    <3> HIDE DEF g
    <3> QED
      BY <2>3, <2>5, FS_Bijection DEF ExistsBijection
  <2> QED
    BY <2>6 DEF A, B
<1> QED
  BY <1>4, <1>5 DEF SameClaims, n, ds

LEMMA DoneReproducible == IInv => Reproducible
<1> SUFFICES ASSUME IInv, pc = "done", NEW i \in DOMAIN claims, NEW j \in DOMAIN claims
             PROVE  Correlated(Exchanged(i, j)) = histories
  BY DEF Reproducible
<1> DEFINE ds == Exchanged(i, j)
<1>1. ds \in Seq(Claim) /\ SameClaims(claims, ds) /\ claims \in Seq(Claim)
  BY ExchangedSame DEF IInv, TypeOK
<1>2. IsReportOf(claims, histories)
  BY LoopsReport
<1> HIDE DEF ds
<1>3. IsReportOf(ds, Correlated(ds))
  BY <1>1, CorrelatedIsReport
<1>4. histories = Correlated(ds)
  BY <1>1, <1>2, <1>3, ReportUnique
<1> QED
  BY <1>4 DEF ds

-----------------------------------------------------------------------------
\* The events a timeline is made of, and the order they are sorted in.
TimedEvent ==
    [when : Int, device : Names, attribute : Attribute, source : SourceKind, locator : Locators]

EventRanks == [e \in TimedEvent |-> EventRank(e)]

LEMMA EventRanked == TellsApart(EventRanks, TimedEvent, 5)
<1>1. ASSUME NEW e \in TimedEvent
      PROVE  /\ EventRanks[e] \in [1..5 -> Int]
             /\ EventRanks[e][1] = e.when
             /\ EventRanks[e][2] = Rank(NameOrder, e.device)
             /\ EventRanks[e][3] = Rank(AttributeOrder, e.attribute)
             /\ EventRanks[e][4] = Rank(SourceOrder, e.source)
             /\ EventRanks[e][5] = Rank(LocatorOrder, e.locator)
             /\ e.when \in Int /\ e.device \in Names /\ e.attribute \in Attribute
             /\ e.source \in SourceKind /\ e.locator \in Locators
  <2>1. /\ e.when \in Int /\ e.device \in Names /\ e.attribute \in Attribute
        /\ e.source \in SourceKind /\ e.locator \in Locators
    BY DEF TimedEvent
  <2>2. /\ Rank(NameOrder, e.device) \in Int /\ Rank(AttributeOrder, e.attribute) \in Int
        /\ Rank(SourceOrder, e.source) \in Int /\ Rank(LocatorOrder, e.locator) \in Int
    BY <2>1, RanksType
  <2>3. EventRanks[e] = <<e.when, Rank(NameOrder, e.device), Rank(AttributeOrder, e.attribute),
                          Rank(SourceOrder, e.source), Rank(LocatorOrder, e.locator)>>
    BY DEF EventRanks, EventRank
  <2> QED
    BY <2>1, <2>2, <2>3
<1>2. ASSUME NEW d \in TimedEvent, NEW e \in TimedEvent, EventRanks[d] = EventRanks[e]
      PROVE  d = e
  <2>1. /\ d.when = e.when
        /\ Rank(NameOrder, d.device) = Rank(NameOrder, e.device)
        /\ Rank(AttributeOrder, d.attribute) = Rank(AttributeOrder, e.attribute)
        /\ Rank(SourceOrder, d.source) = Rank(SourceOrder, e.source)
        /\ Rank(LocatorOrder, d.locator) = Rank(LocatorOrder, e.locator)
    BY <1>1, <1>2
  <2>2. /\ d.device = e.device /\ d.attribute = e.attribute
        /\ d.source = e.source /\ d.locator = e.locator
    BY <1>1, <2>1, RanksType
  <2>3. \A x \in TimedEvent :
            x = [when |-> x.when, device |-> x.device, attribute |-> x.attribute,
                 source |-> x.source, locator |-> x.locator]
    BY DEF TimedEvent
  <2> QED
    BY <2>1, <2>2, <2>3
<1>3. EventRanks \in [TimedEvent -> [1..5 -> Int]]
  <2>1. EventRanks = [e \in TimedEvent |-> EventRanks[e]]
    BY DEF EventRanks
  <2> QED
    BY <1>1, <2>1
<1> QED
  BY <1>2, <1>3 DEF TellsApart

\* The timed values of the entries, by their places.
LEMMA TimedPlacesTyped ==
    ASSUME NEW hs \in Seq(HistoryEntry)
    PROVE  /\ IsFiniteSet(TimedPlaces(hs))
           /\ \A p \in TimedPlaces(hs) :
                /\ p \in [1..2 -> Int] /\ p = <<p[1], p[2]>>
                /\ p[1] \in 1..Len(hs) /\ p[2] \in 1..Len(hs[p[1]].values)
                /\ EventAt(hs, p) \in TimedEvent
           /\ \A i \in 1..Len(hs) : \A j \in 1..Len(hs[i].values) :
                <<i, j>> \in TimedPlaces(hs) <=> ~ IsText(hs[i].values[j].value)
<1>1. /\ Len(hs) \in Nat /\ DOMAIN hs = 1..Len(hs)
      /\ \A i \in 1..Len(hs) : hs[i] \in HistoryEntry
  OBVIOUS
<1>2. ASSUME NEW i \in 1..Len(hs)
      PROVE  /\ Len(hs[i].values) \in Nat /\ DOMAIN hs[i].values = 1..Len(hs[i].values)
             /\ hs[i].device \in Names /\ hs[i].attribute \in Attribute
             /\ \A j \in 1..Len(hs[i].values) : hs[i].values[j] \in ProvenancedValue
  <2>1. hs[i] \in HistoryEntry
    BY <1>1
  <2>2. hs[i].values \in Seq(ProvenancedValue)
    BY <2>1 DEF HistoryEntry
  <2> QED
    BY <2>1, <2>2 DEF HistoryEntry
<1>3. \A p : p \in TimedPlaces(hs) <=>
        \E i \in 1..Len(hs) : \E j \in 1..Len(hs[i].values) :
            ~ IsText(hs[i].values[j].value) /\ p = <<i, j>>
  BY <1>1, <1>2 DEF TimedPlaces
<1>4. IsFiniteSet(TimedPlaces(hs))
  <2> DEFINE T(i) == {<<i, j>> : j \in {k \in DOMAIN hs[i].values : ~ IsText(hs[i].values[k].value)}}
             parts == {T(i) : i \in DOMAIN hs}
             partAt == [i \in 1..Len(hs) |-> T(i)]
  <2>1. IsFiniteSet(parts)
    <3>1. IsFiniteSet(1..Len(hs))
      BY <1>1, FS_Interval
    <3>2. partAt \in Surjection(1..Len(hs), parts)
      BY <1>1 DEF Surjection
    <3> QED
      BY <3>1, <3>2, FS_Surjection
  <2>2. ASSUME NEW i \in 1..Len(hs) PROVE IsFiniteSet(T(i))
    <3> DEFINE P == {k \in DOMAIN hs[i].values : ~ IsText(hs[i].values[k].value)}
               placeAt == [j \in P |-> <<i, j>>]
    <3>1. P \in SUBSET (1..Len(hs[i].values))
      BY <1>2
    <3>2. IsFiniteSet(P)
      <4> HIDE DEF P
      <4> QED
        BY <1>2, <3>1, PlacesFinite
    <3>3. placeAt \in Surjection(P, T(i))
      BY DEF Surjection
    <3> HIDE DEF T, placeAt, P
    <3> QED
      BY <3>2, <3>3, FS_Surjection
  <2>3. TimedPlaces(hs) = UNION parts
    BY DEF TimedPlaces
  <2>4. \A S \in parts : IsFiniteSet(S)
    BY <1>1, <2>2
  <2> HIDE DEF parts
  <2> QED
    BY <2>1, <2>3, <2>4, FS_UNION
<1>5. ASSUME NEW p \in TimedPlaces(hs)
      PROVE  /\ p \in [1..2 -> Int] /\ p = <<p[1], p[2]>>
             /\ p[1] \in 1..Len(hs) /\ p[2] \in 1..Len(hs[p[1]].values)
             /\ EventAt(hs, p) \in TimedEvent
  <2>1. PICK i \in 1..Len(hs) : \E j \in 1..Len(hs[i].values) :
            ~ IsText(hs[i].values[j].value) /\ p = <<i, j>>
    BY <1>3
  <2>2. PICK j \in 1..Len(hs[i].values) : ~ IsText(hs[i].values[j].value) /\ p = <<i, j>>
    BY <2>1
  <2> DEFINE pv == hs[i].values[j]
  <2>3. pv \in ProvenancedValue /\ hs[i].device \in Names /\ hs[i].attribute \in Attribute
    BY <1>2
  <2>4. pv.value \in Value /\ pv.source \in SourceKind /\ pv.locator \in Locators
    BY <2>3 DEF ProvenancedValue
  <2>5. pv.value.at \in Int
    BY <2>2, <2>4 DEF Value, IsText
  <2>6. p[1] = i /\ p[2] = j /\ p \in [1..2 -> Int]
    BY <1>1, <1>2, <2>2
  <2>7. EventAt(hs, p) = TimelineEvent(hs[i], pv)
    BY <2>6 DEF EventAt
  <2> HIDE DEF pv
  <2>8. TimelineEvent(hs[i], pv) \in TimedEvent
    BY <2>3, <2>4, <2>5 DEF TimelineEvent, TimedEvent
  <2> QED
    BY <2>2, <2>6, <2>7, <2>8
<1>6. ASSUME NEW i \in 1..Len(hs), NEW j \in 1..Len(hs[i].values)
      PROVE  <<i, j>> \in TimedPlaces(hs) <=> ~ IsText(hs[i].values[j].value)
  BY <1>3
<1> QED
  BY <1>4, <1>5, <1>6

(***************************************************************************)
(* The timeline is in the order of its events and has each as often as the *)
(* entries do.                                                             *)
(***************************************************************************)
LEMMA TimelineSorted ==
    ASSUME NEW hs \in Seq(HistoryEntry)
    PROVE  LET list == SuperTimeline(hs)
           IN  /\ list \in Seq(TimedEvent) /\ InRankOrder(EventRanks, list)
               /\ \A e \in TimedEvent : Cardinality(Occurrences(list, e))
                      = Cardinality({p \in TimedPlaces(hs) : EventAt(hs, p) = e})
<1> DEFINE D == TimedPlaces(hs)
           f == [p \in D |-> EventAt(hs, p)]
           tie == [p \in D |-> EventRank(EventAt(hs, p)) \o p]
           order == ListedBy(tie)
<1>1. /\ IsFiniteSet(D) /\ f \in [D -> TimedEvent]
      /\ \A p \in D : p \in [1..2 -> Int] /\ f[p] \in TimedEvent /\ f[p] = EventAt(hs, p)
  BY TimedPlacesTyped
<1>2. ASSUME NEW p \in D
      PROVE  /\ tie[p] \in [1..7 -> Int]
             /\ \A l \in 1..5 : tie[p][l] = EventRanks[f[p]][l]
             /\ tie[p][6] = p[1] /\ tie[p][7] = p[2]
  <2> DEFINE s == EventRanks[f[p]]
  <2>1. s \in [1..5 -> Int] /\ p \in [1..2 -> Int]
    BY <1>1, EventRanked DEF TellsApart
  <2>2. tie[p] = s \o p
    BY <1>1 DEF EventRanks
  <2> HIDE DEF s, tie, D, f
  <2>3. /\ s \o p \in [1..(5 + 2) -> Int]
        /\ \A l \in 1..5 : (s \o p)[l] = s[l]
        /\ \A l \in 1..2 : (s \o p)[5 + l] = p[l]
    <3>1. 5 \in Nat /\ 2 \in Nat
      OBVIOUS
    <3> QED
      BY <2>1, <3>1, Joined
  <2>4. (s \o p)[6] = p[1] /\ (s \o p)[7] = p[2] /\ s \o p \in [1..7 -> Int]
    <3> DEFINE joined == s \o p
    <3> DEFINE seven == 5 + 2
    <3>1. joined \in [1..seven -> Int] /\ \A l \in 1..2 : joined[5 + l] = p[l]
      BY <2>3
    <3>2. seven = 7
      OBVIOUS
    <3> HIDE DEF joined, seven
    <3>3. joined[6] = p[1] /\ joined[7] = p[2]
      <4>1. \A l \in 1..2 : joined[5 + l] = p[l]
        BY <3>1
      <4>2. joined[5 + 1] = p[1]
        BY <4>1
      <4>3. joined[5 + 2] = p[2]
        BY <4>1
      <4> QED
        BY <4>2, <4>3
    <3>4. joined \in [1..7 -> Int]
      BY <3>1, <3>2
    <3> QED
      BY <3>3, <3>4 DEF joined
  <2> QED
    BY <2>2, <2>3, <2>4 DEF s
<1>3. tie \in [D -> [1..7 -> Int]]
  <2>1. tie = [p \in D |-> tie[p]]
    OBVIOUS
  <2> QED
    BY <1>2, <2>1
<1>4. ASSUME NEW p \in D, NEW q \in D, tie[p] = tie[q] PROVE p = q
  <2>1. p[1] = q[1] /\ p[2] = q[2] /\ p = <<p[1], p[2]>> /\ q = <<q[1], q[2]>>
    <3> HIDE DEF tie
    <3> QED
      BY <1>2, <1>4, TimedPlacesTyped
  <2> QED
    BY <2>1
<1>5. SuperTimeline(hs) = SortedBy(tie, f)
  <2>1. SuperTimeline(hs) = [k \in DOMAIN order |-> EventAt(hs, order[k])]
    BY DEF SuperTimeline
  <2>2. \A k \in DOMAIN order : order[k] \in D
    <3> HIDE DEF tie, D, f
    <3>1. Ranked(tie, 7) /\ DOMAIN tie = D
      BY <1>1, <1>3, <1>4 DEF Ranked
    <3> QED
      BY <3>1, ListedInOrder
  <2>3. \A k \in DOMAIN order : f[order[k]] = EventAt(hs, order[k])
    BY <1>1, <2>2
  <2>4. SortedBy(tie, f) = [k \in DOMAIN order |-> f[order[k]]]
    BY DEF SortedBy
  <2> HIDE DEF order, f, tie
  <2> QED
    BY <2>1, <2>3, <2>4
<1>6. TieRefines(D, f, TimedEvent, EventRanks, 5, tie, 7)
  <2> HIDE DEF tie, D, f
  <2> QED
    BY <1>1, <1>2, <1>3, <1>4, EventRanked DEF TieRefines, TellsApart
<1>7. \A e : {p \in D : f[p] = e} = {p \in D : EventAt(hs, p) = e}
  BY <1>1
<1> HIDE DEF tie, f, D
<1>8. /\ SortedBy(tie, f) \in Seq(TimedEvent) /\ InRankOrder(EventRanks, SortedBy(tie, f))
      /\ \A e \in TimedEvent : Cardinality(Occurrences(SortedBy(tie, f), e))
                      = Cardinality({p \in D : f[p] = e})
  BY <1>6, StableSort
<1> QED
  BY <1>5, <1>7, <1>8 DEF D

\* The entries backwards, the values of each backwards.
Backwards(hs) == Reverse([i \in DOMAIN hs |-> [hs[i] EXCEPT !.values = Reverse(@)]])

LEMMA BackwardsPlaces ==
    ASSUME NEW hs \in Seq(HistoryEntry)
    PROVE  /\ Backwards(hs) \in Seq(HistoryEntry) /\ Len(Backwards(hs)) = Len(hs)
           /\ \A i \in 1..Len(hs) :
                LET back == Backwards(hs)[Len(hs) - i + 1]
                IN  /\ back.device = hs[i].device /\ back.attribute = hs[i].attribute
                    /\ Len(back.values) = Len(hs[i].values)
                    /\ \A j \in 1..Len(hs[i].values) :
                         back.values[Len(hs[i].values) - j + 1] = hs[i].values[j]
<1> DEFINE turned == [i \in DOMAIN hs |-> [hs[i] EXCEPT !.values = Reverse(@)]]
           n == Len(hs)
           bs == Backwards(hs)
<1>1. n \in Nat /\ DOMAIN hs = 1..n /\ \A i \in 1..n : hs[i] \in HistoryEntry
  OBVIOUS
<1>2. \A list \in Seq(ProvenancedValue) :
        /\ Reverse(list) \in Seq(ProvenancedValue) /\ Len(Reverse(list)) = Len(list)
        /\ \A j \in 1..Len(list) : Reverse(list)[Len(list) - j + 1] = list[j]
  <2> SUFFICES ASSUME NEW list \in Seq(ProvenancedValue)
               PROVE  /\ Reverse(list) \in Seq(ProvenancedValue) /\ Len(Reverse(list)) = Len(list)
                      /\ \A j \in 1..Len(list) : Reverse(list)[Len(list) - j + 1] = list[j]
    OBVIOUS
  <2>1. Len(list) \in Nat /\ \A j \in 1..Len(list) : list[j] \in ProvenancedValue
    OBVIOUS
  <2>2. Reverse(list) = [j \in 1..Len(list) |-> list[(Len(list) - j) + 1]]
    BY DEF Reverse
  <2>3. Reverse(list) \in [1..Len(list) -> ProvenancedValue]
    BY <2>1, <2>2
  <2>4. \A j \in 1..Len(list) : Len(list) - j + 1 \in 1..Len(list)
                                /\ Len(list) - (Len(list) - j + 1) + 1 = j
    BY <2>1
  <2>5. \A j \in 1..Len(list) : Reverse(list)[Len(list) - j + 1] = list[j]
    BY <2>2, <2>4
  <2> QED
    BY <2>1, <2>3, <2>5, TupleIsSeq
<1>3. ASSUME NEW i \in 1..n
      PROVE  /\ turned[i] \in HistoryEntry
             /\ turned[i].device = hs[i].device /\ turned[i].attribute = hs[i].attribute
             /\ turned[i].values = Reverse(hs[i].values)
             /\ hs[i].values \in Seq(ProvenancedValue)
  <2>1. hs[i] \in HistoryEntry /\ hs[i].values \in Seq(ProvenancedValue)
    BY <1>1 DEF HistoryEntry
  <2>2. turned[i] = [hs[i] EXCEPT !.values = Reverse(@)]
    BY <1>1
  <2>3. Reverse(hs[i].values) \in Seq(ProvenancedValue)
    BY <1>2, <2>1
  <2> HIDE DEF turned
  <2> QED
    BY <2>1, <2>2, <2>3 DEF HistoryEntry
<1>4. turned \in Seq(HistoryEntry) /\ Len(turned) = n
  <2>1. turned = [i \in 1..n |-> turned[i]]
    BY <1>1
  <2>2. turned \in [1..n -> HistoryEntry]
    <3> HIDE DEF turned
    <3> QED
      BY <1>3, <2>1
  <2> HIDE DEF turned
  <2> QED
    BY <1>1, <2>2, TupleIsSeq
<1>5. bs = [i \in 1..n |-> turned[(n - i) + 1]]
  <2>1. bs = Reverse(turned)
    BY DEF Backwards
  <2> HIDE DEF turned, bs
  <2> QED
    BY <1>4, <2>1 DEF Reverse
<1> HIDE DEF turned, bs
<1>6. \A i \in 1..n : n - i + 1 \in 1..n /\ n - (n - i + 1) + 1 = i
  BY <1>1
<1>7. bs \in [1..n -> HistoryEntry]
  BY <1>3, <1>5, <1>6
<1>8. bs \in Seq(HistoryEntry) /\ Len(bs) = n
  BY <1>1, <1>7, TupleIsSeq
<1>9. ASSUME NEW i \in 1..n
      PROVE  LET back == bs[n - i + 1]
             IN  /\ back.device = hs[i].device /\ back.attribute = hs[i].attribute
                 /\ Len(back.values) = Len(hs[i].values)
                 /\ \A j \in 1..Len(hs[i].values) :
                      back.values[Len(hs[i].values) - j + 1] = hs[i].values[j]
  <2> DEFINE list == hs[i].values
  <2>1. bs[n - i + 1] = turned[i]
    BY <1>5, <1>6
  <2>2. list \in Seq(ProvenancedValue)
    BY <1>3
  <2> HIDE DEF list
  <2>3. /\ Len(Reverse(list)) = Len(list)
        /\ \A j \in 1..Len(list) : Reverse(list)[Len(list) - j + 1] = list[j]
    BY <1>2, <2>2
  <2> QED
    BY <1>3, <2>1, <2>3 DEF list
<1> QED
  BY <1>8, <1>9 DEF bs

\* Reading backwards meets each event as often.
LEMMA BackwardsCounts ==
    ASSUME NEW hs \in Seq(HistoryEntry), NEW e
    PROVE  Cardinality({p \in TimedPlaces(hs) : EventAt(hs, p) = e})
              = Cardinality({p \in TimedPlaces(Backwards(hs)) : EventAt(Backwards(hs), p) = e})
<1> DEFINE bs == Backwards(hs)
           n == Len(hs)
           A == {p \in TimedPlaces(hs) : EventAt(hs, p) = e}
           B == {p \in TimedPlaces(bs) : EventAt(bs, p) = e}
           f == [p \in A |-> <<n - p[1] + 1, Len(hs[p[1]].values) - p[2] + 1>>]
<1>1. /\ bs \in Seq(HistoryEntry) /\ Len(bs) = n
      /\ \A i \in 1..n :
            /\ bs[n - i + 1].device = hs[i].device /\ bs[n - i + 1].attribute = hs[i].attribute
            /\ Len(bs[n - i + 1].values) = Len(hs[i].values)
            /\ \A j \in 1..Len(hs[i].values) :
                 bs[n - i + 1].values[Len(hs[i].values) - j + 1] = hs[i].values[j]
  BY BackwardsPlaces
<1> HIDE DEF bs
<1>2. n \in Nat /\ \A i \in 1..n : Len(hs[i].values) \in Nat
  <2>1. n \in Nat /\ DOMAIN hs = 1..n
    OBVIOUS
  <2>2. \A i \in 1..n : hs[i].values \in Seq(ProvenancedValue)
    <3>1. \A i \in 1..n : hs[i] \in HistoryEntry
      OBVIOUS
    <3> QED
      BY <3>1 DEF HistoryEntry
  <2> QED
    BY <2>1, <2>2
<1>3. ASSUME NEW i \in 1..n, NEW j \in 1..Len(hs[i].values)
      PROVE  LET p == <<n - i + 1, Len(hs[i].values) - j + 1>>
             IN  /\ p \in TimedPlaces(bs) <=> <<i, j>> \in TimedPlaces(hs)
                 /\ EventAt(bs, p) = EventAt(hs, <<i, j>>)
  <2> DEFINE k == n - i + 1
             l == Len(hs[i].values) - j + 1
  <2>1. k \in 1..n /\ l \in 1..Len(hs[i].values)
    BY <1>2
  <2>2. /\ bs[k].device = hs[i].device /\ bs[k].attribute = hs[i].attribute
        /\ bs[k].values[l] = hs[i].values[j] /\ Len(bs[k].values) = Len(hs[i].values)
    BY <1>1
  <2> HIDE DEF k, l
  <2>3. <<k, l>> \in TimedPlaces(bs) <=> <<i, j>> \in TimedPlaces(hs)
    <3>1. <<k, l>> \in TimedPlaces(bs) <=> ~ IsText(bs[k].values[l].value)
      BY <1>1, <2>1, <2>2, TimedPlacesTyped
    <3>2. <<i, j>> \in TimedPlaces(hs) <=> ~ IsText(hs[i].values[j].value)
      BY TimedPlacesTyped
    <3> QED
      BY <2>2, <3>1, <3>2
  <2>4. EventAt(bs, <<k, l>>) = EventAt(hs, <<i, j>>)
    BY <2>2 DEF EventAt, TimelineEvent
  <2> QED
    BY <2>3, <2>4 DEF k, l
<1>4. /\ IsFiniteSet(A)
      /\ \A p \in A : p = <<p[1], p[2]>> /\ p[1] \in 1..n /\ p[2] \in 1..Len(hs[p[1]].values)
  BY TimedPlacesTyped, FS_Subset
<1>5. ASSUME NEW p \in A PROVE f[p] \in B
  BY <1>3, <1>4
<1>6. ASSUME NEW p \in A, NEW q \in A, f[p] = f[q] PROVE p = q
  <2>1. /\ p[1] \in 1..n /\ q[1] \in 1..n
        /\ p[2] \in 1..Len(hs[p[1]].values) /\ q[2] \in 1..Len(hs[q[1]].values)
        /\ p = <<p[1], p[2]>> /\ q = <<q[1], q[2]>>
    BY <1>4
  <2>2. /\ n - p[1] + 1 = n - q[1] + 1
        /\ Len(hs[p[1]].values) - p[2] + 1 = Len(hs[q[1]].values) - q[2] + 1
    BY <1>6
  <2>3. p[1] = q[1]
    BY <1>2, <2>1, <2>2
  <2>4. p[2] = q[2]
    BY <1>2, <2>1, <2>2, <2>3
  <2> QED
    BY <2>1, <2>3, <2>4
<1>7. ASSUME NEW q \in B PROVE \E p \in A : f[p] = q
  <2> DEFINE i == n - q[1] + 1
             j == Len(hs[i].values) - q[2] + 1
  <2>1. q = <<q[1], q[2]>> /\ q[1] \in 1..n /\ q[2] \in 1..Len(bs[q[1]].values)
    BY <1>1, TimedPlacesTyped
  <2>2. i \in 1..n /\ n - i + 1 = q[1]
    BY <1>2, <2>1
  <2>3. Len(hs[i].values) = Len(bs[q[1]].values) /\ Len(hs[i].values) \in Nat
    BY <1>1, <1>2, <2>2
  <2>4. j \in 1..Len(hs[i].values) /\ Len(hs[i].values) - j + 1 = q[2]
    <3>1. \A m \in Nat : \A x \in 1..m : m - x + 1 \in 1..m /\ m - (m - x + 1) + 1 = x
      OBVIOUS
    <3>2. q[2] \in 1..Len(hs[i].values) /\ Len(hs[i].values) \in Nat
      BY <2>1, <2>3
    <3> HIDE DEF i
    <3> QED
      BY <3>1, <3>2
  <2> HIDE DEF i, j
  <2>5. <<i, j>> \in TimedPlaces(hs) /\ EventAt(hs, <<i, j>>) = e
    BY <1>3, <2>1, <2>2, <2>4
  <2>6. f[<<i, j>>] = q
    BY <2>1, <2>2, <2>4, <2>5
  <2> QED
    BY <2>5, <2>6
<1>8. f \in [A -> B]
  <2>1. f = [p \in A |-> f[p]]
    OBVIOUS
  <2> HIDE DEF f, A, B
  <2> QED
    BY <1>5, <2>1
<1>9. f \in Bijection(A, B)
  <2> HIDE DEF f, A, B
  <2> QED
    BY <1>6, <1>7, <1>8 DEF Bijection, Injection, Surjection, IsInjective
<1>10. Cardinality(B) = Cardinality(A)
  <2> HIDE DEF f, A, B
  <2> QED
    BY <1>4, <1>9, FS_Bijection DEF ExistsBijection
<1> QED
  BY <1>10 DEF bs

LEMMA TimelineReproduced ==
    ASSUME NEW hs \in Seq(HistoryEntry)
    PROVE  SuperTimeline(Backwards(hs)) = SuperTimeline(hs)
<1> DEFINE u == SuperTimeline(hs)
           v == SuperTimeline(Backwards(hs))
<1>1. /\ u \in Seq(TimedEvent) /\ InRankOrder(EventRanks, u)
      /\ \A e \in TimedEvent : Cardinality(Occurrences(u, e))
              = Cardinality({p \in TimedPlaces(hs) : EventAt(hs, p) = e})
  BY TimelineSorted
<1>2. /\ v \in Seq(TimedEvent) /\ InRankOrder(EventRanks, v)
      /\ \A e \in TimedEvent : Cardinality(Occurrences(v, e))
              = Cardinality({p \in TimedPlaces(Backwards(hs)) : EventAt(Backwards(hs), p) = e})
  BY BackwardsPlaces, TimelineSorted
<1> HIDE DEF u, v
<1>3. \A e \in TimedEvent : Cardinality(Occurrences(u, e)) = Cardinality(Occurrences(v, e))
  BY <1>1, <1>2, BackwardsCounts
<1>4. u = v
  BY <1>1, <1>2, <1>3, EventRanked, SortedUnique
<1> QED
  BY <1>4 DEF u, v

(***************************************************************************)
(* The same evidence gives the same output, for any number of claims in    *)
(* any order: neither the histories nor the timeline show the order the    *)
(* claims came in.                                                         *)
(***************************************************************************)
THEOREM OutputReproducibleAlways == Spec => []OutputReproducible
<1>1. IInv => TimelineReproducible
  <2> SUFFICES ASSUME IInv
               PROVE  SuperTimeline(Backwards(histories)) = SuperTimeline(histories)
    BY DEF TimelineReproducible, Backwards
  <2>1. histories \in Seq(HistoryEntry)
    BY DEF IInv, TypeOK
  <2> QED
    BY <2>1, TimelineReproduced
<1>2. IInv => OutputReproducible
  BY <1>1, DoneReproducible DEF OutputReproducible
<1> QED
  BY <1>2, CorrelateInvariant, PTL
-----------------------------------------------------------------------------
\* The timed claims, and the event each is shown as.
TimedClaims(cs) == {i \in DOMAIN cs : ~ IsText(cs[i].value)}

ClaimEvents(cs) == [i \in TimedClaims(cs) |-> TimelineEvent(cs[i], cs[i])]

\* The claim an event shows.
ClaimOfEvent(e) ==
    [device |-> e.device, attribute |-> e.attribute, value |-> Timestamp(e.when),
     source |-> e.source, locator |-> e.locator]

LEMMA EventsOfClaims ==
    ASSUME NEW cs \in Seq(Claim)
    PROVE  /\ IsFiniteSet(TimedClaims(cs)) /\ Cardinality(TimedClaims(cs)) \in Nat
           /\ ClaimEvents(cs) \in [TimedClaims(cs) -> TimedEvent]
           /\ \A e \in TimedEvent :
                /\ ClaimOfEvent(e) \in Claim
                /\ {i \in TimedClaims(cs) : ClaimEvents(cs)[i] = e}
                       = ReadAs(cs, Len(cs), ClaimOfEvent(e))
<1>1. Len(cs) \in Nat /\ DOMAIN cs = 1..Len(cs) /\ \A i \in 1..Len(cs) : cs[i] \in Claim
  BY ListedClaims
<1>2. TimedClaims(cs) \in SUBSET (1..Len(cs))
  BY <1>1 DEF TimedClaims
<1>3. IsFiniteSet(TimedClaims(cs)) /\ Cardinality(TimedClaims(cs)) \in Nat
  BY <1>1, <1>2, PlacesFinite
<1>4. ASSUME NEW c \in Claim, ~ IsText(c.value)
      PROVE  /\ TimelineEvent(c, c) \in TimedEvent
             /\ c = ClaimOfEvent(TimelineEvent(c, c))
  <2>1. /\ c.device \in Names /\ c.attribute \in Attribute /\ c.value \in Value
        /\ c.source \in SourceKind /\ c.locator \in Locators
        /\ c = [device |-> c.device, attribute |-> c.attribute, value |-> c.value,
                source |-> c.source, locator |-> c.locator]
    BY DEF Claim
  <2>2. c.value.at \in Int /\ c.value = Timestamp(c.value.at)
    BY <1>4, <2>1 DEF Value, IsText, Timestamp
  <2> QED
    BY <2>1, <2>2 DEF TimelineEvent, TimedEvent, ClaimOfEvent
<1>5. ASSUME NEW e \in TimedEvent
      PROVE  /\ ClaimOfEvent(e) \in Claim /\ ~ IsText(ClaimOfEvent(e).value)
             /\ TimelineEvent(ClaimOfEvent(e), ClaimOfEvent(e)) = e
  <2>1. /\ e.when \in Int /\ e.device \in Names /\ e.attribute \in Attribute
        /\ e.source \in SourceKind /\ e.locator \in Locators
        /\ e = [when |-> e.when, device |-> e.device, attribute |-> e.attribute,
                source |-> e.source, locator |-> e.locator]
    BY DEF TimedEvent
  <2>2. /\ Timestamp(e.when) \in Value /\ ~ IsText(Timestamp(e.when))
        /\ Timestamp(e.when).at = e.when
    BY <2>1 DEF Timestamp, Value, IsText
  <2> QED
    BY <2>1, <2>2 DEF ClaimOfEvent, Claim, TimelineEvent
<1>6. ClaimEvents(cs) \in [TimedClaims(cs) -> TimedEvent]
  BY <1>1, <1>4 DEF ClaimEvents, TimedClaims
<1>7. ASSUME NEW e \in TimedEvent
      PROVE  {i \in TimedClaims(cs) : ClaimEvents(cs)[i] = e}
                 = ReadAs(cs, Len(cs), ClaimOfEvent(e))
  <2>1. ASSUME NEW i \in TimedClaims(cs), ClaimEvents(cs)[i] = e
        PROVE  i \in 1..Len(cs) /\ cs[i] = ClaimOfEvent(e)
    BY <1>1, <1>4, <2>1 DEF ClaimEvents, TimedClaims
  <2>2. ASSUME NEW i \in 1..Len(cs), cs[i] = ClaimOfEvent(e)
        PROVE  i \in TimedClaims(cs) /\ ClaimEvents(cs)[i] = e
    BY <1>1, <1>5, <2>2 DEF ClaimEvents, TimedClaims
  <2> QED
    BY <2>1, <2>2 DEF ReadAs
<1> QED
  BY <1>3, <1>5, <1>6, <1>7

\* The places of an event in a report, and the claims it shows, are as many.
LEMMA EventCounts ==
    ASSUME NEW cs \in Seq(Claim), NEW hs, IsReportOf(cs, hs), NEW e \in TimedEvent
    PROVE  Cardinality({p \in TimedPlaces(hs) : EventAt(hs, p) = e})
               = Cardinality(ReadAs(cs, Len(cs), ClaimOfEvent(e)))
<1> DEFINE c == ClaimOfEvent(e)
           A == {p \in TimedPlaces(hs) : EventAt(hs, p) = e}
<1>1. /\ hs \in Seq(HistoryEntry) /\ Len(hs) \in Nat /\ DOMAIN hs = 1..Len(hs)
      /\ c \in Claim /\ GroupOf(c) \in Group /\ Len(cs) \in Nat
  BY ReportEntries, EventsOfClaims, ClaimFields, ListedClaims DEF IsReportOf
<1>2. ASSUME NEW k \in 1..Len(hs), NEW j \in 1..Len(hs[k].values)
      PROVE  <<k, j>> \in A <=> GroupOf(hs[k]) = GroupOf(c) /\ hs[k].values[j] = Provenanced(c)
  <2> DEFINE pv == hs[k].values[j]
  <2>1. /\ hs[k].values \in Seq(ProvenancedValue) /\ pv \in ProvenancedValue
        /\ hs[k] \in HistoryEntry
    BY <1>1, ReportEntries
  <2>2. <<k, j>> \in TimedPlaces(hs) <=> ~ IsText(pv.value)
    BY <1>1, TimedPlacesTyped
  <2>3. EventAt(hs, <<k, j>>) = TimelineEvent(hs[k], pv)
    BY DEF EventAt
  <2> HIDE DEF pv
  <2>4. /\ pv.value \in Value
        /\ pv = [value |-> pv.value, source |-> pv.source, locator |-> pv.locator]
        /\ e = [when |-> e.when, device |-> e.device, attribute |-> e.attribute,
                source |-> e.source, locator |-> e.locator]
    BY <2>1 DEF ProvenancedValue, TimedEvent
  <2>5. IF IsText(pv.value) THEN pv.value.kind = "Text" ELSE pv.value = Timestamp(pv.value.at)
    BY <2>4 DEF Value, IsText, Timestamp
  <2>6. GroupOf(c) = [device |-> e.device, attribute |-> e.attribute]
        /\ Provenanced(c) = [value |-> Timestamp(e.when), source |-> e.source,
                             locator |-> e.locator]
    BY DEF ClaimOfEvent, GroupOf, Provenanced
  <2>7. GroupOf(hs[k]) = GroupOf(c) <=> hs[k].device = e.device /\ hs[k].attribute = e.attribute
    BY <2>6 DEF GroupOf
  <2>8. pv = Provenanced(c) <=> /\ ~ IsText(pv.value) /\ pv.value.at = e.when
                                /\ pv.source = e.source /\ pv.locator = e.locator
    <3>1. ASSUME pv = Provenanced(c)
          PROVE  /\ ~ IsText(pv.value) /\ pv.value.at = e.when
                 /\ pv.source = e.source /\ pv.locator = e.locator
      BY <2>6, <3>1 DEF Timestamp, IsText
    <3>2. ASSUME ~ IsText(pv.value), pv.value.at = e.when,
                 pv.source = e.source, pv.locator = e.locator
          PROVE  pv = Provenanced(c)
      BY <2>4, <2>5, <2>6, <3>2
    <3> QED
      BY <3>1, <3>2
  <2>9. TimelineEvent(hs[k], pv) = e <=>
            /\ pv.value.at = e.when /\ hs[k].device = e.device /\ hs[k].attribute = e.attribute
            /\ pv.source = e.source /\ pv.locator = e.locator
    BY <2>4 DEF TimelineEvent
  <2>10. <<k, j>> \in A <=> ~ IsText(pv.value) /\ TimelineEvent(hs[k], pv) = e
    BY <2>2, <2>3
  <2> HIDE DEF A, c
  <2> QED
    BY <2>7, <2>8, <2>9, <2>10 DEF pv
<1>3. ASSUME NEW p \in A
      PROVE  p = <<p[1], p[2]>> /\ p[1] \in 1..Len(hs) /\ p[2] \in 1..Len(hs[p[1]].values)
  BY <1>1, TimedPlacesTyped
<1> HIDE DEF A, c
<1>4. CASE \E k \in 1..Len(hs) : GroupOf(hs[k]) = GroupOf(c)
  <2>1. PICK k \in 1..Len(hs) : GroupOf(hs[k]) = GroupOf(c)
    BY <1>4
  <2> DEFINE B == Occurrences(hs[k].values, Provenanced(c))
             f == [j \in B |-> <<k, j>>]
  <2>2. /\ hs[k].values \in Seq(ProvenancedValue) /\ Len(hs[k].values) \in Nat
        /\ DOMAIN hs[k].values = 1..Len(hs[k].values)
    BY ReportEntries
  <2>3. B \in SUBSET (1..Len(hs[k].values)) /\ \A j \in B : hs[k].values[j] = Provenanced(c)
    BY <2>2 DEF Occurrences
  <2>4. IsFiniteSet(B)
    <3> HIDE DEF B
    <3> QED
      BY <2>2, <2>3, PlacesFinite
  <2>5. \A j \in B : f[j] \in A
    BY <1>2, <2>1, <2>3
  <2>6. ASSUME NEW p \in A PROVE \E j \in B : f[j] = p
    <3>1. GroupOf(hs[p[1]]) = GroupOf(c) /\ hs[p[1]].values[p[2]] = Provenanced(c)
      BY <1>2, <1>3
    <3>2. p[1] = k
      BY <1>1, <1>3, <2>1, <3>1, OneEntryEach
    <3>3. p[2] \in B
      BY <1>3, <2>2, <3>1, <3>2 DEF Occurrences
    <3> QED
      BY <1>3, <3>2, <3>3
  <2>7. f \in Bijection(B, A)
    <3>1. f \in [B -> A]
      BY <2>5
    <3>2. \A j, l \in B : f[j] = f[l] => j = l
      OBVIOUS
    <3> HIDE DEF f, B
    <3> QED
      BY <2>6, <3>1, <3>2 DEF Bijection, Injection, Surjection, IsInjective
  <2>8. Cardinality(B) = Cardinality(A)
    <3> HIDE DEF f, B
    <3> QED
      BY <2>4, <2>7, FS_Bijection DEF ExistsBijection
  <2>9. Cardinality(B) = Cardinality(ReadAs(cs, Len(cs), c))
    BY <1>1, <2>1, ClaimShown
  <2> QED
    BY <2>8, <2>9 DEF A, c
<1>5. CASE ~ \E k \in 1..Len(hs) : GroupOf(hs[k]) = GroupOf(c)
  <2>1. A = {}
    BY <1>2, <1>3, <1>5
  <2>2. ASSUME NEW i \in 1..Len(cs), cs[i] = c PROVE FALSE
    BY <1>1, <1>5, <2>2, ListedClaims DEF IsReportOf
  <2>3. ReadAs(cs, Len(cs), c) = {}
    BY <2>2 DEF ReadAs
  <2> QED
    BY <2>1, <2>3 DEF A, c
<1> QED
  BY <1>4, <1>5

\* The timeline is the events of the timed claims, sorted.
LEMMA TimelineOfClaims ==
    ASSUME NEW cs \in Seq(Claim), NEW hs, IsReportOf(cs, hs)
    PROVE  LET list == SuperTimeline(hs)
           IN  /\ list \in Seq(TimedEvent) /\ InRankOrder(EventRanks, list)
               /\ Len(list) = Cardinality(TimedClaims(cs))
               /\ \A e \in TimedEvent : Cardinality(Occurrences(list, e))
                      = Cardinality({i \in TimedClaims(cs) : ClaimEvents(cs)[i] = e})
<1> DEFINE D == TimedClaims(cs)
           f == ClaimEvents(cs)
           tie == [i \in D |-> EventRanks[f[i]] \o <<i>>]
           u == SuperTimeline(hs)
           v == SortedBy(tie, f)
<1>1. IsFiniteSet(D) /\ Cardinality(D) \in Nat /\ f \in [D -> TimedEvent]
  BY EventsOfClaims
<1>2. D \in SUBSET Int
  BY ListedClaims DEF TimedClaims
<1> HIDE DEF D, f
<1>3. ASSUME NEW i \in D
      PROVE  /\ tie[i] \in [1..6 -> Int] /\ tie[i][6] = i
             /\ \A l \in 1..5 : tie[i][l] = EventRanks[f[i]][l]
  <2> DEFINE s == EventRanks[f[i]]
             t == <<i>>
  <2>1. s \in [1..5 -> Int] /\ t \in [1..1 -> Int] /\ t[1] = i
    BY <1>1, <1>2, EventRanked DEF TellsApart
  <2>2. tie[i] = s \o t
    OBVIOUS
  <2> HIDE DEF s, t, tie
  <2>3. /\ s \o t \in [1..(5 + 1) -> Int]
        /\ \A l \in 1..5 : (s \o t)[l] = s[l]
        /\ \A l \in 1..1 : (s \o t)[5 + l] = t[l]
    <3>1. 5 \in Nat /\ 1 \in Nat
      OBVIOUS
    <3> QED
      BY <2>1, <3>1, Joined
  <2>4. (s \o t)[6] = t[1] /\ s \o t \in [1..6 -> Int]
    BY <2>3
  <2> QED
    BY <2>1, <2>2, <2>3, <2>4 DEF s
<1>4. tie \in [D -> [1..6 -> Int]] /\ \A i, j \in D : tie[i] = tie[j] => i = j
  <2>1. DOMAIN tie = D /\ tie = [i \in D |-> tie[i]]
    OBVIOUS
  <2> HIDE DEF tie
  <2> QED
    BY <1>3, <2>1
<1> HIDE DEF tie
<1>5. TieRefines(D, f, TimedEvent, EventRanks, 5, tie, 6)
  BY <1>1, <1>3, <1>4, EventRanked DEF TieRefines, TellsApart
<1>6. /\ v \in Seq(TimedEvent) /\ InRankOrder(EventRanks, v)
      /\ \A e \in TimedEvent :
            Cardinality(Occurrences(v, e)) = Cardinality({i \in D : f[i] = e})
  BY <1>5, StableSort
<1>7. DOMAIN v = 1..Cardinality(D)
  <2>1. Ranked(tie, 6) /\ DOMAIN tie = D
    BY <1>1, <1>4 DEF Ranked
  <2>2. DOMAIN ListedBy(tie) = 1..Cardinality(D)
    BY <2>1, ListedInOrder
  <2> QED
    BY <2>2 DEF SortedBy
<1>8. hs \in Seq(HistoryEntry)
  BY DEF IsReportOf
<1>9. /\ u \in Seq(TimedEvent) /\ InRankOrder(EventRanks, u)
      /\ \A e \in TimedEvent : Cardinality(Occurrences(u, e))
              = Cardinality({p \in TimedPlaces(hs) : EventAt(hs, p) = e})
  BY <1>8, TimelineSorted
<1> HIDE DEF u, v
<1>10. \A e \in TimedEvent : Cardinality(Occurrences(u, e)) = Cardinality(Occurrences(v, e))
  <2> SUFFICES ASSUME NEW e \in TimedEvent
               PROVE  Cardinality(Occurrences(u, e)) = Cardinality(Occurrences(v, e))
    OBVIOUS
  <2>1. Cardinality({p \in TimedPlaces(hs) : EventAt(hs, p) = e})
            = Cardinality(ReadAs(cs, Len(cs), ClaimOfEvent(e)))
    BY EventCounts
  <2>2. {i \in D : f[i] = e} = ReadAs(cs, Len(cs), ClaimOfEvent(e))
    BY EventsOfClaims DEF D, f
  <2> QED
    BY <1>6, <1>9, <2>1, <2>2
<1>11. u = v
  BY <1>6, <1>9, <1>10, EventRanked, SortedUnique
<1>12. Len(u) = Cardinality(D)
  <2>1. v \in [1..Cardinality(D) -> TimedEvent]
    <3>1. v \in [DOMAIN v -> TimedEvent]
      BY <1>6
    <3> QED
      BY <1>7, <3>1
  <2> QED
    BY <1>1, <1>11, <2>1, TupleIsSeq
<1> QED
  BY <1>6, <1>11, <1>12 DEF u, D, f

-----------------------------------------------------------------------------
\* The devices of a report, in its order.
LEMMA DeviceRankGrows ==
    ASSUME NEW cs \in Seq(Claim), NEW hs, IsReportOf(cs, hs),
           NEW i \in 1..Len(hs), NEW j \in 1..Len(hs), i <= j
    PROVE  /\ hs[i].device \in Names /\ hs[j].device \in Names
           /\ Rank(NameOrder, hs[i].device) \in Int /\ Rank(NameOrder, hs[j].device) \in Int
           /\ Rank(NameOrder, hs[i].device) <= Rank(NameOrder, hs[j].device)
<1>1. /\ Len(hs) \in Nat /\ DOMAIN hs = 1..Len(hs)
      /\ hs[i] \in HistoryEntry /\ hs[j] \in HistoryEntry
  BY ReportEntries
<1>2. hs[i].device \in Names /\ hs[j].device \in Names
  BY <1>1 DEF HistoryEntry
<1>3. Rank(NameOrder, hs[i].device) \in Int /\ Rank(NameOrder, hs[j].device) \in Int
  BY <1>2, RanksType
<1>4. CASE i = j
  BY <1>2, <1>3, <1>4
<1>5. CASE i < j
  <2>1. Before(GroupRank(hs[i]), GroupRank(hs[j]))
    BY <1>1, <1>5 DEF IsReportOf
  <2> DEFINE a == Rank(NameOrder, hs[i].device)
             b == Rank(NameOrder, hs[j].device)
             a2 == Rank(AttributeOrder, hs[i].attribute)
             b2 == Rank(AttributeOrder, hs[j].attribute)
  <2>2. Before(<<a, a2>>, <<b, b2>>) /\ a \in Int /\ b \in Int
    BY <1>3, <2>1 DEF GroupRank
  <2> HIDE DEF a, b, a2, b2
  <2> DEFINE s == <<a, a2>>
             t == <<b, b2>>
  <2>3. DOMAIN s = 1..2 /\ s[1] = a /\ t[1] = b /\ Before(s, t)
    BY <2>2
  <2> HIDE DEF s, t
  <2>4. PICK l \in 1..2 : s[l] < t[l] /\ \A q \in 1..(l - 1) : s[q] = t[q]
    BY <2>3 DEF Before
  <2>5. a <= b
    <3>1. CASE l = 1
      BY <2>2, <2>4, <2>3, <3>1
    <3>2. CASE l = 2
      <4>1. 1 \in 1..(l - 1)
        BY <3>2
      <4>2. s[1] = t[1]
        BY <2>4, <4>1
      <4> QED
        BY <2>2, <2>3, <4>2
    <3> QED
      BY <3>1, <3>2
  <2> QED
    BY <1>2, <1>3, <2>5 DEF a, b
<1> QED
  BY <1>1, <1>2, <1>3, <1>4, <1>5

\* Every device of a report is named once.
LEMMA DevicesListed ==
    ASSUME NEW cs \in Seq(Claim), NEW hs, IsReportOf(cs, hs)
    PROVE  LET list == DevicesOf(hs)
           IN  \E N \in Nat :
               /\ DOMAIN list = 1..N
               /\ \A n \in 1..N : \E k \in 1..Len(hs) : list[n] = hs[k].device
               /\ \A k \in 1..Len(hs) : \E n \in 1..N : list[n] = hs[k].device
               /\ \A n, m \in 1..N : list[n] = list[m] => n = m
<1> DEFINE P == {i \in DOMAIN hs : i = 1 \/ hs[i - 1].device # hs[i].device}
           heads == InTurn(P)
           N == Cardinality(P)
           list == DevicesOf(hs)
<1>1. /\ Len(hs) \in Nat /\ DOMAIN hs = 1..Len(hs) /\ P \in SUBSET (1..Len(hs))
      /\ \A i \in 1..Len(hs) : i \in P <=> i = 1 \/ hs[i - 1].device # hs[i].device
  BY ReportEntries
<1>2. list = [n \in DOMAIN heads |-> hs[heads[n]].device]
  BY DEF DevicesOf
<1> HIDE DEF P, list
<1>3. /\ N \in Nat /\ heads \in [1..N -> P]
      /\ \A i \in P : \E k \in 1..N : heads[k] = i
      /\ \A k, m \in 1..N :
            (k < m => heads[k] < heads[m]) /\ (heads[k] = heads[m] => k = m)
  BY <1>1, InTurnListed
<1> HIDE DEF heads, N
<1>4. DOMAIN list = 1..N /\ \A n \in 1..N : list[n] = hs[heads[n]].device /\ heads[n] \in P
  BY <1>2, <1>3
<1>5. ASSUME NEW k \in 1..Len(hs) PROVE \E n \in 1..N : list[n] = hs[k].device
  <2> DEFINE T == {i \in 1..Len(hs) : hs[i].device = hs[k].device}
  <2>1. T \in SUBSET Nat /\ T # {}
    OBVIOUS
  <2>2. \A i \in 1..Len(hs) : i \in T <=> hs[i].device = hs[k].device
    OBVIOUS
  <2>3. T \in SUBSET (1..Len(hs))
    OBVIOUS
  <2> HIDE DEF T
  <2>4. PICK i \in T : \A j \in T : i <= j
    BY <2>1, LeastExists
  <2>5. i \in 1..Len(hs) /\ hs[i].device = hs[k].device
    BY <2>2, <2>3
  <2>6. CASE i = 1
    <3>1. i \in P
      BY <1>1, <2>5, <2>6
    <3> QED
      BY <1>3, <1>4, <2>5, <3>1
  <2>7. CASE i # 1
    <3>1. i - 1 \in 1..Len(hs) /\ ~ (i <= i - 1)
      BY <1>1, <2>5, <2>7
    <3>2. hs[i - 1].device # hs[i].device
      BY <2>2, <2>4, <2>5, <3>1
    <3>3. i \in P
      BY <1>1, <2>5, <3>2
    <3> QED
      BY <1>3, <1>4, <2>5, <3>3
  <2> QED
    BY <2>6, <2>7
<1>6. ASSUME NEW i \in P, NEW j \in P, i < j, hs[i].device = hs[j].device PROVE FALSE
  <2>1. i \in 1..Len(hs) /\ j \in 1..Len(hs) /\ j - 1 \in 1..Len(hs) /\ i <= j - 1 /\ j - 1 <= j
        /\ j # 1
    BY <1>1, <1>6
  <2>2. hs[j - 1].device # hs[j].device
    BY <1>1, <2>1
  <2> DEFINE a == Rank(NameOrder, hs[i].device)
             b == Rank(NameOrder, hs[j - 1].device)
             d == Rank(NameOrder, hs[j].device)
  <2>3. a \in Int /\ b \in Int /\ a <= b /\ hs[j - 1].device \in Names
    BY <2>1, DeviceRankGrows
  <2>4. d \in Int /\ b <= d /\ hs[j].device \in Names
    BY <2>1, DeviceRankGrows
  <2>5. a = d
    BY <1>6
  <2> HIDE DEF a, b, d
  <2>6. b = d
    BY <2>3, <2>4, <2>5
  <2>7. hs[j - 1].device = hs[j].device
    BY <2>3, <2>4, <2>6, RanksType DEF b, d
  <2> QED
    BY <2>2, <2>7
<1>7. ASSUME NEW n \in 1..N, NEW m \in 1..N, list[n] = list[m] PROVE n = m
  <2>1. ~ (n < m) /\ ~ (m < n)
    BY <1>3, <1>4, <1>6, <1>7
  <2> QED
    BY <1>3, <2>1
<1>8. \A n \in 1..N : \E k \in 1..Len(hs) : list[n] = hs[k].device
  BY <1>1, <1>4
<1> QED
  BY <1>3, <1>4, <1>5, <1>7, <1>8 DEF list

-----------------------------------------------------------------------------
\* The accesses of a device are the values of its one entry for them.
LEMMA AccessesOf ==
    ASSUME NEW cs \in Seq(Claim), NEW hs, IsReportOf(cs, hs), NEW device
    PROVE  /\ Accesses(hs, device) # <<>> <=>
                \E c \in ToSet(cs) : c.device = device /\ c.attribute = "AccessedFile"
           /\ \A c \in ToSet(cs) : c.device = device /\ c.attribute = "AccessedFile" =>
                Cardinality(Occurrences(Accesses(hs, device), Provenanced(c)))
                    = Cardinality(ReadAs(cs, Len(cs), c))
<1> DEFINE seqs == [i \in DOMAIN hs |->
                IF hs[i].device = device /\ hs[i].attribute = "AccessedFile"
                THEN hs[i].values ELSE <<>>]
           flat == Accesses(hs, device)
<1>1. /\ Len(hs) \in Nat /\ DOMAIN hs = 1..Len(hs)
      /\ \A i \in 1..Len(hs) : /\ hs[i].values \in Seq(ProvenancedValue) /\ hs[i].values # <<>>
                               /\ \E j \in 1..Len(cs) : GroupOf(cs[j]) = GroupOf(hs[i])
  BY ReportEntries DEF IsReportOf
<1>2. seqs \in [1..Len(hs) -> Seq(ProvenancedValue)]
  BY <1>1
<1>3. seqs \in Seq(Seq(ProvenancedValue)) /\ Len(seqs) = Len(hs)
  <2> HIDE DEF seqs
  <2> QED
    BY <1>1, <1>2, TupleIsSeq
<1>4. flat = FlattenSeq(seqs)
  BY DEF Accesses
<1>5. \A i \in 1..Len(hs) :
        seqs[i] = IF hs[i].device = device /\ hs[i].attribute = "AccessedFile"
                  THEN hs[i].values ELSE <<>>
  BY <1>1
<1> HIDE DEF seqs, flat
<1>6. /\ flat \in Seq(ProvenancedValue)
      /\ \A x : x \in ToSet(flat) <=> \E i \in 1..Len(hs) : x \in ToSet(seqs[i])
  BY <1>3, <1>4, FlattenMembers
<1>7. ToSet(<<>>) = {}
  BY DEF ToSet
<1>8. ASSUME NEW c \in ToSet(cs), c.device = device, c.attribute = "AccessedFile"
      PROVE  /\ flat # <<>>
             /\ Cardinality(Occurrences(flat, Provenanced(c)))
                    = Cardinality(ReadAs(cs, Len(cs), c))
  <2>1. PICK j \in 1..Len(cs) : cs[j] = c
    BY ListedClaims
  <2>2. PICK m \in 1..Len(hs) : GroupOf(hs[m]) = GroupOf(c)
    BY <1>1, <2>1, ListedClaims DEF IsReportOf
  <2>3. hs[m].device = device /\ hs[m].attribute = "AccessedFile" /\ seqs[m] = hs[m].values
    BY <1>5, <1>8, <2>2 DEF GroupOf
  <2>4. ASSUME NEW i \in 1..Len(hs), NEW x \in ToSet(seqs[i]) PROVE i = m
    <3>1. hs[i].device = device /\ hs[i].attribute = "AccessedFile"
      BY <1>5, <1>7, <2>4
    <3>2. GroupOf(hs[i]) = GroupOf(hs[m])
      BY <2>3, <3>1 DEF GroupOf
    <3> QED
      BY <3>2, OneEntryEach
  <2>5. Cardinality(Occurrences(FlattenSeq(seqs), Provenanced(c)))
            = Cardinality(Occurrences(seqs[m], Provenanced(c)))
    BY <1>3, <2>4, FlattenCounts
  <2>6. c \in Claim
    BY ListedClaims
  <2>7. flat # <<>>
    <3>1. 1 \in DOMAIN hs[m].values
      <4>1. \A list \in Seq(ProvenancedValue) : list # <<>> => 1 \in DOMAIN list
        OBVIOUS
      <4> QED
        BY <1>1, <4>1
    <3>2. hs[m].values[1] \in ToSet(flat)
      BY <1>6, <2>3, <3>1 DEF ToSet
    <3> QED
      BY <1>7, <3>2
  <2> QED
    BY <1>4, <2>2, <2>3, <2>5, <2>6, <2>7, ClaimShown
<1>9. ASSUME flat # <<>>
      PROVE  \E c \in ToSet(cs) : c.device = device /\ c.attribute = "AccessedFile"
  <2>1. 1 \in DOMAIN flat
    BY <1>6, <1>9
  <2>2. PICK i \in 1..Len(hs) : flat[1] \in ToSet(seqs[i])
    BY <1>6, <2>1 DEF ToSet
  <2>3. hs[i].device = device /\ hs[i].attribute = "AccessedFile"
    BY <1>5, <1>7, <2>2
  <2>4. PICK j \in 1..Len(cs) : GroupOf(cs[j]) = GroupOf(hs[i])
    BY <1>1
  <2>5. cs[j] \in ToSet(cs) /\ cs[j].device = device /\ cs[j].attribute = "AccessedFile"
    BY <2>3, <2>4, ListedClaims DEF GroupOf
  <2> QED
    BY <2>5
<1> QED
  BY <1>8, <1>9 DEF flat

\* A list of claims has each of them as often as it was read.
LEMMA CountedAsRead ==
    ASSUME NEW cs \in Seq(Claim), NEW c
    PROVE  CountIn(cs, c) = Cardinality(ReadAs(cs, Len(cs), c))
BY ListedClaims DEF CountIn, ReadAs

\* EveryAccessListed of any claims and a report of them.
AccessesShown(cs, hs) ==
    LET list == AccessedFiles(hs)
        accesses == {c \in ToSet(cs) : c.attribute = "AccessedFile"}
    IN  /\ {list[i].device : i \in DOMAIN list} = {c.device : c \in accesses}
        /\ \A i, j \in DOMAIN list : list[i].device = list[j].device => i = j
        /\ \A i \in DOMAIN list : \A c \in accesses :
            c.device = list[i].device =>
                CountIn(list[i].files, Provenanced(c)) = CountIn(cs, c)

LEMMA AccessesAllShown ==
    ASSUME NEW cs \in Seq(Claim), NEW hs, IsReportOf(cs, hs)
    PROVE  AccessesShown(cs, hs)
<1> DEFINE devices == DevicesOf(hs)
           T == {i \in DOMAIN devices : Accesses(hs, devices[i]) # <<>>}
           touched == InTurn(T)
           M == Cardinality(T)
           list == AccessedFiles(hs)
           accesses == {c \in ToSet(cs) : c.attribute = "AccessedFile"}
<1>1. PICK N \in Nat :
        /\ DOMAIN devices = 1..N
        /\ \A n \in 1..N : \E k \in 1..Len(hs) : devices[n] = hs[k].device
        /\ \A k \in 1..Len(hs) : \E n \in 1..N : devices[n] = hs[k].device
        /\ \A n, m \in 1..N : devices[n] = devices[m] => n = m
  BY DevicesListed
<1>2. list = [k \in DOMAIN touched |->
                [device |-> devices[touched[k]], files |-> Accesses(hs, devices[touched[k]])]]
  BY DEF AccessedFiles
<1>3. /\ T \in SUBSET (1..N)
      /\ \A n \in 1..N : n \in T <=> Accesses(hs, devices[n]) # <<>>
  BY <1>1
<1>4. \A c : c \in accesses <=> c \in ToSet(cs) /\ c.attribute = "AccessedFile"
  OBVIOUS
<1> HIDE DEF devices, T, list, accesses
<1>5. /\ M \in Nat /\ touched \in [1..M -> T]
      /\ \A i \in T : \E k \in 1..M : touched[k] = i
      /\ \A k, m \in 1..M : touched[k] = touched[m] => k = m
  BY <1>3, InTurnListed
<1> HIDE DEF touched, M
<1>6. /\ DOMAIN list = 1..M
      /\ \A k \in 1..M : /\ touched[k] \in 1..N
                         /\ list[k].device = devices[touched[k]]
                         /\ list[k].files = Accesses(hs, list[k].device)
                         /\ list[k].files # <<>>
  BY <1>2, <1>3, <1>5
<1>7. ASSUME NEW c \in accesses PROVE \E k \in 1..M : list[k].device = c.device
  <2>1. c \in ToSet(cs) /\ c.attribute = "AccessedFile"
    BY <1>4
  <2>2. PICK j \in 1..Len(cs) : cs[j] = c
    BY <2>1, ListedClaims
  <2>3. PICK k \in 1..Len(hs) : GroupOf(hs[k]) = GroupOf(c)
    BY <2>2, ReportEntries, ListedClaims DEF IsReportOf
  <2>4. hs[k].device = c.device
    BY <2>3 DEF GroupOf
  <2>5. PICK n \in 1..N : devices[n] = c.device
    BY <1>1, <2>4
  <2>6. n \in T
    BY <1>3, <2>1, <2>5, AccessesOf
  <2> QED
    BY <1>5, <1>6, <2>5, <2>6
<1>8. ASSUME NEW k \in 1..M PROVE \E c \in accesses : c.device = list[k].device
  BY <1>4, <1>6, AccessesOf
<1>9. ASSUME NEW k \in 1..M, NEW m \in 1..M, list[k].device = list[m].device PROVE k = m
  BY <1>1, <1>5, <1>6, <1>9
<1>10. ASSUME NEW k \in 1..M, NEW c \in accesses, c.device = list[k].device
       PROVE  CountIn(list[k].files, Provenanced(c)) = CountIn(cs, c)
  <2>1. Cardinality(Occurrences(list[k].files, Provenanced(c)))
            = Cardinality(ReadAs(cs, Len(cs), c))
    BY <1>4, <1>6, <1>10, AccessesOf
  <2>2. CountIn(list[k].files, Provenanced(c))
            = Cardinality(Occurrences(list[k].files, Provenanced(c)))
    BY DEF CountIn, Occurrences
  <2> QED
    BY <2>1, <2>2, CountedAsRead
<1>11. {list[i].device : i \in DOMAIN list} = {c.device : c \in accesses}
  <2> DEFINE A == {list[i].device : i \in DOMAIN list}
             B == {c.device : c \in accesses}
  <2>1. \A x : x \in A <=> \E k \in 1..M : x = list[k].device
    BY <1>6
  <2>2. \A x : x \in B <=> \E c \in accesses : x = c.device
    OBVIOUS
  <2> HIDE DEF A, B
  <2>3. ASSUME NEW x \in A PROVE x \in B
    BY <1>8, <2>1, <2>2
  <2>4. ASSUME NEW x \in B PROVE x \in A
    BY <1>7, <2>1, <2>2
  <2>5. A = B
    BY <2>3, <2>4
  <2> QED
    BY <2>5 DEF A, B
<1> QED
  BY <1>6, <1>9, <1>10, <1>11 DEF AccessesShown, list, accesses

-----------------------------------------------------------------------------
ReportRow ==
    [attribute : Attribute, consistency : Consistency, value : Value,
     source : SourceKind, locator : Locators]

\* A row keeps the value and its provenance.
LEMMA RowKeeps ==
    ASSUME NEW entry \in HistoryEntry, NEW pv \in ProvenancedValue
    PROVE  /\ Row(entry, pv) \in ReportRow /\ Provenanced(Row(entry, pv)) = pv
           /\ Row(entry, pv).attribute = entry.attribute
           /\ Row(entry, pv).consistency = entry.consistency
           /\ Row(entry, pv).value = pv.value /\ Row(entry, pv).source = pv.source
<1>1. /\ entry.attribute \in Attribute /\ entry.consistency \in Consistency
      /\ pv.value \in Value /\ pv.source \in SourceKind /\ pv.locator \in Locators
      /\ pv = [value |-> pv.value, source |-> pv.source, locator |-> pv.locator]
  BY DEF HistoryEntry, ProvenancedValue
<1> QED
  BY <1>1 DEF Row, ReportRow, Provenanced

LEMMA RowsOfEntry ==
    ASSUME NEW entry \in HistoryEntry
    PROVE  /\ RowsOf(entry) \in Seq(ReportRow)
           /\ DOMAIN RowsOf(entry) = DOMAIN entry.values
           /\ \A j \in DOMAIN entry.values : /\ entry.values[j] \in ProvenancedValue
                                             /\ RowsOf(entry)[j] = Row(entry, entry.values[j])
           /\ \A pv \in ProvenancedValue :
                Occurrences(RowsOf(entry), Row(entry, pv)) = Occurrences(entry.values, pv)
<1> DEFINE rows == RowsOf(entry)
<1>1. entry.values \in Seq(ProvenancedValue)
  BY DEF HistoryEntry
<1>2. /\ Len(entry.values) \in Nat /\ DOMAIN entry.values = 1..Len(entry.values)
      /\ \A j \in 1..Len(entry.values) : entry.values[j] \in ProvenancedValue
  BY <1>1
<1>3. /\ rows = [j \in 1..Len(entry.values) |-> rows[j]]
      /\ \A j \in 1..Len(entry.values) : rows[j] = Row(entry, entry.values[j])
  BY <1>2 DEF RowsOf
<1> HIDE DEF rows
<1>4. \A j \in 1..Len(entry.values) : rows[j] \in ReportRow
  BY <1>2, <1>3, RowKeeps
<1>5. rows \in [1..Len(entry.values) -> ReportRow]
  BY <1>3, <1>4
<1>6. rows \in Seq(ReportRow) /\ DOMAIN rows = 1..Len(entry.values)
  BY <1>2, <1>5, TupleIsSeq
<1>7. ASSUME NEW pv \in ProvenancedValue, NEW j \in 1..Len(entry.values)
      PROVE  rows[j] = Row(entry, pv) <=> entry.values[j] = pv
  <2>1. Provenanced(Row(entry, pv)) = pv
    BY RowKeeps
  <2>2. Provenanced(Row(entry, entry.values[j])) = entry.values[j]
    BY <1>2, RowKeeps
  <2> QED
    BY <1>3, <2>1, <2>2
<1>8. ASSUME NEW pv \in ProvenancedValue
      PROVE  Occurrences(rows, Row(entry, pv)) = Occurrences(entry.values, pv)
  BY <1>2, <1>6, <1>7 DEF Occurrences
<1> QED
  BY <1>2, <1>3, <1>6, <1>8 DEF rows

\* The rows of a device with the attribute of an entry are those of the entry.
LEMMA RowsOfDevice ==
    ASSUME NEW cs \in Seq(Claim), NEW hs, IsReportOf(cs, hs), NEW m \in 1..Len(hs)
    PROVE  LET rows == RowsFor(hs, hs[m].device)
               entry == hs[m]
           IN  /\ \A j \in DOMAIN rows : rows[j].attribute = entry.attribute =>
                    \E q \in DOMAIN entry.values :
                        /\ entry.values[q] \in ProvenancedValue
                        /\ rows[j] = Row(entry, entry.values[q])
               /\ \A q \in DOMAIN entry.values :
                    \E j \in DOMAIN rows : rows[j] = Row(entry, entry.values[q])
               /\ \A pv \in ProvenancedValue :
                    Cardinality(Occurrences(rows, Row(entry, pv)))
                        = Cardinality(Occurrences(entry.values, pv))
<1> DEFINE device == hs[m].device
           seqs == [k \in DOMAIN hs |-> IF hs[k].device = device THEN RowsOf(hs[k]) ELSE <<>>]
           rows == RowsFor(hs, device)
<1>1. /\ Len(hs) \in Nat /\ DOMAIN hs = 1..Len(hs)
      /\ \A i \in 1..Len(hs) : hs[i] \in HistoryEntry
  BY ReportEntries
<1>2. \A i \in 1..Len(hs) : RowsOf(hs[i]) \in Seq(ReportRow)
  BY <1>1, RowsOfEntry
<1>3. seqs \in [1..Len(hs) -> Seq(ReportRow)]
  BY <1>1, <1>2
<1>4. seqs \in Seq(Seq(ReportRow)) /\ Len(seqs) = Len(hs)
  <2> HIDE DEF seqs
  <2> QED
    BY <1>1, <1>3, TupleIsSeq
<1>5. rows = FlattenSeq(seqs)
  BY DEF RowsFor
<1>6. /\ \A i \in 1..Len(hs) :
            seqs[i] = IF hs[i].device = device THEN RowsOf(hs[i]) ELSE <<>>
      /\ seqs[m] = RowsOf(hs[m])
  BY <1>1
<1> HIDE DEF seqs, rows
<1>7. /\ rows \in Seq(ReportRow)
      /\ \A x : x \in ToSet(rows) <=> \E i \in 1..Len(hs) : x \in ToSet(seqs[i])
  BY <1>4, <1>5, FlattenMembers
<1>8. ASSUME NEW i \in 1..Len(hs), NEW x \in ToSet(seqs[i]), x.attribute = hs[m].attribute
      PROVE  i = m
  <2>1. ToSet(<<>>) = {}
    BY DEF ToSet
  <2>2. hs[i].device = device /\ x \in ToSet(RowsOf(hs[i]))
    BY <1>6, <2>1
  <2>3. PICK q \in DOMAIN hs[i].values : x = Row(hs[i], hs[i].values[q])
    BY <1>1, <2>2, RowsOfEntry DEF ToSet
  <2>4. x.attribute = hs[i].attribute
    BY <2>3 DEF Row
  <2>5. GroupOf(hs[i]) = GroupOf(hs[m])
    BY <1>8, <2>2, <2>4 DEF GroupOf, device
  <2> QED
    BY <2>5, OneEntryEach
<1>9. ASSUME NEW j \in DOMAIN rows, rows[j].attribute = hs[m].attribute
      PROVE  \E q \in DOMAIN hs[m].values :
                /\ hs[m].values[q] \in ProvenancedValue
                /\ rows[j] = Row(hs[m], hs[m].values[q])
  <2>1. rows[j] \in ToSet(rows)
    BY DEF ToSet
  <2>2. rows[j] \in ToSet(RowsOf(hs[m]))
    BY <1>6, <1>7, <1>8, <1>9, <2>1
  <2> QED
    BY <1>1, <2>2, RowsOfEntry DEF ToSet
<1>10. ASSUME NEW q \in DOMAIN hs[m].values
       PROVE  \E j \in DOMAIN rows : rows[j] = Row(hs[m], hs[m].values[q])
  <2>1. Row(hs[m], hs[m].values[q]) \in ToSet(seqs[m])
    BY <1>1, <1>6, RowsOfEntry DEF ToSet
  <2>2. Row(hs[m], hs[m].values[q]) \in ToSet(rows)
    BY <1>7, <2>1
  <2> QED
    BY <2>2 DEF ToSet
<1>11. ASSUME NEW pv \in ProvenancedValue
       PROVE  Cardinality(Occurrences(rows, Row(hs[m], pv)))
                  = Cardinality(Occurrences(hs[m].values, pv))
  <2> DEFINE x == Row(hs[m], pv)
  <2>1. x.attribute = hs[m].attribute
    BY DEF Row
  <2> HIDE DEF x
  <2>2. \A i \in 1..Len(seqs) : x \in ToSet(seqs[i]) => i = m
    BY <1>4, <1>8, <2>1
  <2>3. m \in 1..Len(seqs)
    BY <1>4
  <2>4. Cardinality(Occurrences(FlattenSeq(seqs), x)) = Cardinality(Occurrences(seqs[m], x))
    BY <1>4, <2>2, <2>3, FlattenCounts
  <2>5. Occurrences(seqs[m], x) = Occurrences(hs[m].values, pv)
    BY <1>1, <1>6, RowsOfEntry DEF x
  <2> QED
    BY <1>5, <2>4, <2>5 DEF x
<1> QED
  BY <1>9, <1>10, <1>11 DEF rows, device

\* EveryValueReported of any claims and a report of them.
ValuesReported(cs, hs) ==
    LET tables == ReportTables(hs)
    IN  \A c \in ToSet(cs) : \E i \in DOMAIN tables :
        /\ tables[i].device = c.device
        /\ LET rows == tables[i].rows
               own == {j \in DOMAIN rows : rows[j].attribute = c.attribute}
           IN  /\ Cardinality({j \in own : Provenanced(rows[j]) = Provenanced(c)})
                    = CountIn(cs, c)
               /\ \A j \in own : rows[j].consistency = Grade(Restrict(rows, own))

\* The entry of a claim, and the place of its device.
LEMMA ClaimPlaced ==
    ASSUME NEW cs \in Seq(Claim), NEW hs, IsReportOf(cs, hs), NEW c \in ToSet(cs)
    PROVE  /\ c \in Claim
           /\ \E m \in 1..Len(hs) :
                /\ hs[m] \in HistoryEntry /\ GroupOf(hs[m]) = GroupOf(c)
                /\ hs[m].device = c.device /\ hs[m].attribute = c.attribute
           /\ \E n \in DOMAIN DevicesOf(hs) : DevicesOf(hs)[n] = c.device
<1>1. PICK j \in 1..Len(cs) : cs[j] = c /\ c \in Claim
  BY ListedClaims
<1>2. PICK m \in 1..Len(hs) : GroupOf(hs[m]) = GroupOf(c)
  BY <1>1, ReportEntries, ListedClaims DEF IsReportOf
<1>3. /\ hs[m] \in HistoryEntry /\ hs[m].device = c.device /\ hs[m].attribute = c.attribute
  BY <1>2, ReportEntries DEF GroupOf
<1>4. \E n \in DOMAIN DevicesOf(hs) : DevicesOf(hs)[n] = hs[m].device
  <2> DEFINE list == DevicesOf(hs)
  <2>1. PICK N \in Nat : DOMAIN list = 1..N
                         /\ \A k \in 1..Len(hs) : \E n \in 1..N : list[n] = hs[k].device
    BY DevicesListed
  <2> QED
    BY <2>1
<1> QED
  BY <1>1, <1>2, <1>3, <1>4

LEMMA ValuesAllReported ==
    ASSUME NEW cs \in Seq(Claim), NEW hs, IsReportOf(cs, hs)
    PROVE  ValuesReported(cs, hs)
<1> SUFFICES ASSUME NEW c \in ToSet(cs)
             PROVE  \E i \in DOMAIN ReportTables(hs) :
                        /\ ReportTables(hs)[i].device = c.device
                        /\ LET rows == ReportTables(hs)[i].rows
                               own == {j \in DOMAIN rows : rows[j].attribute = c.attribute}
                           IN  /\ Cardinality({j \in own : Provenanced(rows[j]) = Provenanced(c)})
                                    = CountIn(cs, c)
                               /\ \A j \in own : rows[j].consistency = Grade(Restrict(rows, own))
  BY DEF ValuesReported
<1>1. PICK m \in 1..Len(hs) :
            /\ hs[m] \in HistoryEntry /\ GroupOf(hs[m]) = GroupOf(c)
            /\ hs[m].device = c.device /\ hs[m].attribute = c.attribute
  BY ClaimPlaced
<1>2. PICK n \in DOMAIN DevicesOf(hs) : DevicesOf(hs)[n] = c.device
  BY ClaimPlaced
<1>3. /\ n \in DOMAIN ReportTables(hs) /\ ReportTables(hs)[n].device = c.device
      /\ ReportTables(hs)[n].rows = RowsFor(hs, hs[m].device)
  BY <1>1, <1>2 DEF ReportTables
<1> DEFINE rows == RowsFor(hs, hs[m].device)
           entry == hs[m]
           own == {j \in DOMAIN rows : rows[j].attribute = c.attribute}
           pv == Provenanced(c)
<1>4. /\ \A j \in DOMAIN rows : rows[j].attribute = entry.attribute =>
            \E q \in DOMAIN entry.values :
                /\ entry.values[q] \in ProvenancedValue
                /\ rows[j] = Row(entry, entry.values[q])
      /\ \A q \in DOMAIN entry.values :
            \E j \in DOMAIN rows : rows[j] = Row(entry, entry.values[q])
      /\ \A x \in ProvenancedValue :
            Cardinality(Occurrences(rows, Row(entry, x)))
                = Cardinality(Occurrences(entry.values, x))
  BY RowsOfDevice
<1>5. entry \in HistoryEntry /\ c \in Claim /\ pv \in ProvenancedValue
  BY <1>1, ClaimPlaced, ClaimFields
<1>6. entry.attribute = c.attribute /\ entry.consistency = Grade(entry.values)
  BY <1>1, ReportEntries DEF IsReportOf
<1>7. Cardinality(Occurrences(entry.values, pv)) = Cardinality(ReadAs(cs, Len(cs), c))
  BY <1>1, <1>5, ClaimShown
<1> HIDE DEF rows, entry, pv
<1>8. \A j : j \in own <=> j \in DOMAIN rows /\ rows[j].attribute = entry.attribute
  BY <1>6
<1> HIDE DEF own
<1>9. ASSUME NEW j \in own
      PROVE  \E q \in DOMAIN entry.values :
                /\ entry.values[q] \in ProvenancedValue
                /\ rows[j] = Row(entry, entry.values[q])
                /\ Provenanced(rows[j]) = entry.values[q]
                /\ rows[j].value = entry.values[q].value
                /\ rows[j].source = entry.values[q].source
                /\ rows[j].consistency = entry.consistency
  <2>1. PICK q \in DOMAIN entry.values :
                /\ entry.values[q] \in ProvenancedValue
                /\ rows[j] = Row(entry, entry.values[q])
    BY <1>4, <1>8
  <2> QED
    BY <1>5, <2>1, RowKeeps
<1>10. ASSUME NEW q \in DOMAIN entry.values
       PROVE  \E j \in own : /\ rows[j].value = entry.values[q].value
                             /\ rows[j].source = entry.values[q].source
  <2>1. PICK j \in DOMAIN rows : rows[j] = Row(entry, entry.values[q])
    BY <1>4
  <2>2. /\ rows[j].attribute = entry.attribute /\ rows[j].value = entry.values[q].value
        /\ rows[j].source = entry.values[q].source
    BY <2>1 DEF Row
  <2> QED
    BY <1>8, <2>2
<1>11. {j \in own : Provenanced(rows[j]) = pv} = Occurrences(rows, Row(entry, pv))
  <2>1. ASSUME NEW j \in own, Provenanced(rows[j]) = pv
        PROVE  j \in Occurrences(rows, Row(entry, pv))
    BY <1>8, <1>9, <2>1 DEF Occurrences
  <2>2. ASSUME NEW j \in Occurrences(rows, Row(entry, pv))
        PROVE  j \in own /\ Provenanced(rows[j]) = pv
    <3>1. j \in DOMAIN rows /\ rows[j] = Row(entry, pv)
      BY DEF Occurrences
    <3> QED
      BY <1>5, <1>8, <3>1, RowKeeps
  <2> QED
    BY <2>1, <2>2
<1>12. Cardinality({j \in own : Provenanced(rows[j]) = pv}) = CountIn(cs, c)
  BY <1>4, <1>5, <1>7, <1>11, CountedAsRead
<1> DEFINE list == Restrict(rows, own)
<1>13. DOMAIN list = own /\ \A j \in own : list[j] = rows[j]
  BY DEF Restrict
<1> HIDE DEF list
<1>14. ReportedValues(list) = ReportedValues(entry.values)
  BY <1>9, <1>10, <1>13 DEF ReportedValues, ToSet
<1>15. ContainersOf(list) = ContainersOf(entry.values)
  BY <1>9, <1>10, <1>13 DEF ContainersOf, ToSet
<1>16. Grade(list) = entry.consistency
  BY <1>6, <1>14, <1>15 DEF Grade
<1>17. \A j \in own : rows[j].consistency = Grade(list)
  BY <1>9, <1>16
<1> QED
  BY <1>3, <1>12, <1>17 DEF rows, own, pv, list

-----------------------------------------------------------------------------
\* EveryValueInGrid of any claims and a report of them.
ValuesInGrid(cs, hs) ==
    \A c \in ToSet(cs) : \E table \in ToSet(Grid(hs)) :
        /\ table.device = c.device
        /\ \E line \in ToSet(table.lines) :
            LET group == {i \in DOMAIN cs : GroupOf(cs[i]) = GroupOf(c)}
            IN  /\ line.attribute = c.attribute
                /\ line.consistency = Grade(Restrict(cs, group))
                /\ CountIn(line.values, c.value)
                     = Cardinality({i \in group : cs[i].value = c.value})

\* Every entry is a line of the grid of its device.
LEMMA LinesListed ==
    ASSUME NEW cs \in Seq(Claim), NEW hs, IsReportOf(cs, hs), NEW m \in 1..Len(hs)
    PROVE  GridLine(hs[m]) \in ToSet(LinesFor(hs, hs[m].device))
<1> DEFINE P == {k \in DOMAIN hs : hs[k].device = hs[m].device}
           own == InTurn(P)
           lines == LinesFor(hs, hs[m].device)
<1>1. Len(hs) \in Nat /\ P \in SUBSET (1..Len(hs)) /\ m \in P
  BY ReportEntries
<1>2. lines = [n \in DOMAIN own |-> GridLine(hs[own[n]])]
  BY DEF LinesFor
<1> HIDE DEF P, lines
<1>3. \E n \in DOMAIN own : own[n] = m
  BY <1>1, InTurnListed
<1> HIDE DEF own
<1> QED
  BY <1>2, <1>3 DEF ToSet, lines

LEMMA ValuesAllInGrid ==
    ASSUME NEW cs \in Seq(Claim), NEW hs, IsReportOf(cs, hs)
    PROVE  ValuesInGrid(cs, hs)
<1> SUFFICES ASSUME NEW c \in ToSet(cs)
             PROVE  \E table \in ToSet(Grid(hs)) :
                        /\ table.device = c.device
                        /\ \E line \in ToSet(table.lines) :
                            LET group == {i \in DOMAIN cs : GroupOf(cs[i]) = GroupOf(c)}
                            IN  /\ line.attribute = c.attribute
                                /\ line.consistency = Grade(Restrict(cs, group))
                                /\ CountIn(line.values, c.value)
                                     = Cardinality({i \in group : cs[i].value = c.value})
  BY DEF ValuesInGrid
<1>1. PICK m \in 1..Len(hs) :
            /\ hs[m] \in HistoryEntry /\ GroupOf(hs[m]) = GroupOf(c)
            /\ hs[m].device = c.device /\ hs[m].attribute = c.attribute
  BY ClaimPlaced
<1>2. PICK n \in DOMAIN DevicesOf(hs) : DevicesOf(hs)[n] = c.device
  BY ClaimPlaced
<1> DEFINE table == [device |-> c.device, lines |-> LinesFor(hs, c.device)]
           line == GridLine(hs[m])
           group == {i \in DOMAIN cs : GroupOf(cs[i]) = GroupOf(c)}
<1>3. table \in ToSet(Grid(hs)) /\ table.device = c.device
  <2>1. n \in DOMAIN Grid(hs) /\ Grid(hs)[n] = table
    BY <1>2 DEF Grid
  <2> QED
    BY <2>1 DEF ToSet
<1>4. line \in ToSet(table.lines)
  BY <1>1, LinesListed
<1>5. group = InGroup(cs, GroupOf(hs[m]))
  BY <1>1 DEF InGroup
<1> HIDE DEF group
<1>6. line.attribute = c.attribute /\ line.consistency = Grade(Restrict(cs, group))
  BY <1>1, <1>5, GradeOfGroup DEF GridLine
<1>7. CountIn(line.values, c.value) = Cardinality({i \in group : cs[i].value = c.value})
  <2> DEFINE values == EvidenceFor(cs, GroupOf(hs[m]))
  <2>1. hs[m].values = values
    BY EvidenceOfEntry
  <2>2. Cardinality(PlacesWith(values, DOMAIN values, c.value))
            = Cardinality(PlacesWith(cs, InGroup(cs, GroupOf(hs[m])), c.value))
    BY ValuesCounted
  <2> HIDE DEF values
  <2>3. line.values = [j \in DOMAIN values |-> values[j].value]
    BY <2>1 DEF GridLine
  <2>4. {j \in DOMAIN line.values : line.values[j] = c.value}
            = PlacesWith(values, DOMAIN values, c.value)
    <3> HIDE DEF line
    <3> QED
      BY <2>3 DEF PlacesWith
  <2>5. {i \in group : cs[i].value = c.value}
            = PlacesWith(cs, InGroup(cs, GroupOf(hs[m])), c.value)
    BY <1>5 DEF PlacesWith
  <2> QED
    BY <2>2, <2>4, <2>5 DEF CountIn
<1> HIDE DEF table, line
<1> QED
  BY <1>3, <1>4, <1>6, <1>7 DEF group

-----------------------------------------------------------------------------
\* TimelineFaithful of any claims and a report of them.
TimelineShows(cs, hs) ==
    LET timeline == SuperTimeline(hs)
        timed == {i \in DOMAIN cs : ~ IsText(cs[i].value)}
        event == [i \in timed |-> TimelineEvent(cs[i], cs[i])]
    IN  /\ Len(timeline) = Cardinality(timed)
        /\ \A i \in timed : CountIn(timeline, event[i]) = CountIn(event, event[i])
        /\ \A i, j \in DOMAIN timeline : i < j => timeline[i].when <= timeline[j].when

LEMMA TimelineAllShown ==
    ASSUME NEW cs \in Seq(Claim), NEW hs, IsReportOf(cs, hs)
    PROVE  TimelineShows(cs, hs)
<1> DEFINE list == SuperTimeline(hs)
           timed == TimedClaims(cs)
           event == ClaimEvents(cs)
<1>1. /\ list \in Seq(TimedEvent) /\ InRankOrder(EventRanks, list)
      /\ Len(list) = Cardinality(timed)
      /\ \A e \in TimedEvent : Cardinality(Occurrences(list, e))
             = Cardinality({i \in timed : event[i] = e})
  BY TimelineOfClaims
<1>2. event \in [timed -> TimedEvent]
  BY EventsOfClaims
<1>3. /\ timed = {i \in DOMAIN cs : ~ IsText(cs[i].value)}
      /\ event = [i \in timed |-> TimelineEvent(cs[i], cs[i])]
  BY DEF TimedClaims, ClaimEvents
<1> HIDE DEF list, timed, event
<1>4. ASSUME NEW i \in timed PROVE CountIn(list, event[i]) = CountIn(event, event[i])
  <2>1. event[i] \in TimedEvent /\ DOMAIN event = timed
    BY <1>2
  <2> QED
    BY <1>1, <2>1 DEF CountIn, Occurrences
<1>5. ASSUME NEW i \in DOMAIN list, NEW j \in DOMAIN list, i < j
      PROVE  list[i].when <= list[j].when
  <2>1. list[i] \in TimedEvent /\ list[j] \in TimedEvent
    BY <1>1
  <2>2. ~ Before(EventRanks[list[j]], EventRanks[list[i]])
    BY <1>1, <1>5 DEF InRankOrder
  <2>3. \A e \in TimedEvent : /\ e.when \in Int /\ EventRanks[e][1] = e.when
                              /\ DOMAIN EventRanks[e] = 1..5
    <3>1. ASSUME NEW e \in TimedEvent
          PROVE  e.when \in Int /\ EventRanks[e][1] = e.when /\ DOMAIN EventRanks[e] = 1..5
      BY EventRanked DEF TellsApart, TimedEvent, EventRanks, EventRank
    <3> QED
      BY <3>1
  <2>4. ASSUME list[j].when < list[i].when PROVE FALSE
    <3> DEFINE s == EventRanks[list[j]]
               t == EventRanks[list[i]]
    <3>1. s[1] < t[1] /\ 1 \in DOMAIN s
      BY <2>1, <2>3, <2>4
    <3> HIDE DEF s, t
    <3>2. Before(s, t)
      BY <3>1 DEF Before
    <3> QED
      BY <2>2, <3>2 DEF s, t
  <2> QED
    BY <2>1, <2>3, <2>4
<1> QED
  BY <1>1, <1>3, <1>4, <1>5 DEF TimelineShows, list

(***************************************************************************)
(* Each of the views shows all of the evidence, for any number of claims   *)
(* of any devices and sources: the timeline has every timed claim as often *)
(* as it was handed over, the list of accessed files every access under    *)
(* its device, and the tables and the grid every value under its grade     *)
(* (timeline.rs:33, render.rs:66-69 and 119).                              *)
(***************************************************************************)
THEOREM NothingWithheldAlways == Spec => []NothingWithheld
<1>1. IInv => NothingWithheld
  <2> SUFFICES ASSUME IInv, pc = "done"
               PROVE  /\ TimelineShows(claims, histories) /\ AccessesShown(claims, histories)
                      /\ ValuesReported(claims, histories) /\ ValuesInGrid(claims, histories)
    BY DEF NothingWithheld, TimelineFaithful, EveryAccessListed, EveryValueReported,
           EveryValueInGrid, TimelineShows, AccessesShown, ValuesReported, ValuesInGrid
  <2>1. claims \in Seq(Claim) /\ IsReportOf(claims, histories)
    BY LoopsReport DEF IInv, TypeOK
  <2> QED
    BY <2>1, TimelineAllShown, AccessesAllShown, ValuesAllReported, ValuesAllInGrid
<1> QED
  BY <1>1, CorrelateInvariant, PTL

-----------------------------------------------------------------------------
(***************************************************************************)
(* The PDF says what the report says, for every report: its characters     *)
(* escaped and read back, the strings of a page told apart, the objects    *)
(* found by their offsets, and the pages in order.                         *)
(***************************************************************************)
\* A text: a list of words and numbers.
IsToken(c) == (\E s : c = Word(s)) \/ (\E k : c = Number(k))

Tokens(text) == AList(text) /\ \A i \in 1..Len(text) : IsToken(text[i])

\* The reader's marks are words.
LEMMA TokenIs ==
    ASSUME NEW c, IsToken(c), c.t # "number"
    PROVE  c = Word(c.t)
BY DEF IsToken, Word, Number

\* str::replace, character by character.
ReplacedChar(char, c, by) == IF char.t = c THEN by ELSE <<char>>

\* The whole is one piece for each character.
LEMMA ReplacedEach ==
    ASSUME NEW text, AList(text), NEW c, NEW by, AList(by)
    PROVE  /\ Replaced(text, c, by)
                = FlattenSeq([i \in 1..Len(text) |-> ReplacedChar(text[i], c, by)])
           /\ AList(Replaced(text, c, by))
<1> DEFINE n == Len(text)
           pieces == [i \in 1..n |-> ReplacedChar(text[i], c, by)]
<1>1. n \in Nat /\ DOMAIN text = 1..n
  BY ListIsSeq
<1>2. AList(pieces) /\ Len(pieces) = n /\ \A i \in 1..n : pieces[i] = ReplacedChar(text[i], c, by)
  BY <1>1, FunctionIsList
<1>3. CASE \A i \in DOMAIN text : text[i].t # c
  <2>1. \A i \in 1..n : pieces[i] = <<text[i]>>
    BY <1>1, <1>2, <1>3 DEF ReplacedChar
  <2> DEFINE g == [i \in 1..n |-> i]
  <2>2. /\ g \in [1..n -> 1..n] /\ \A k, l \in 1..n : k < l => g[k] < g[l]
        /\ \A k \in 1..n : g[k] = k
    OBVIOUS
  <2> HIDE DEF g, pieces
  <2>3. \A k \in 1..n : pieces[g[k]] = <<text[k]>>
    BY <2>1, <2>2
  <2>4. \A i \in 1..n : (\E k \in 1..n : i = g[k]) \/ pieces[i] = <<>>
    BY <2>2
  <2>5. AList(pieces) /\ Len(pieces) = n /\ AList(text) /\ Len(text) = n
    BY <1>2
  <2>6. n \in Nat /\ g \in [1..n -> 1..n]
    BY <1>1, <2>2
  <2>7. \A k, l \in 1..n : k < l => g[k] < g[l]
    BY <2>2
  <2>8. Chosen(pieces, g, text)
    BY <2>3, <2>4, <2>5, <2>6, <2>7 DEF Chosen
  <2>9. Replaced(text, c, by) = text
    BY <1>3 DEF Replaced
  <2> QED
    BY <2>8, <2>9, FlattenChosen DEF pieces
<1>4. CASE ~ \A i \in DOMAIN text : text[i].t # c
  <2>1. Replaced(text, c, by) = FlattenSeq(pieces)
    BY <1>1, <1>4 DEF Replaced, ForEach, ReplacedChar
  <2>2. EachAList(pieces, n)
    <3>1. \A x : AList(<<x>>)
      BY DEF AList
    <3> QED
      BY <1>2, <3>1 DEF EachAList, ReplacedChar
  <2> HIDE DEF pieces
  <2>3. AList(FlattenSeq(pieces))
    BY <1>2, <2>2, FlattenLaid
  <2> QED
    BY <2>1, <2>3 DEF pieces
<1> QED
  BY <1>3, <1>4

\* Of a text of one character.
LEMMA ReplacedOne ==
    ASSUME NEW x, NEW c, NEW by, AList(by)
    PROVE  Replaced(<<x>>, c, by) = ReplacedChar(x, c, by)
<1>1. AList(<<x>>) /\ Len(<<x>>) = 1 /\ <<x>>[1] = x
  BY DEF AList
<1>2. Replaced(<<x>>, c, by) = FlattenSeq([i \in 1..1 |-> ReplacedChar(<<x>>[i], c, by)])
  BY <1>1, ReplacedEach
<1>3. [i \in 1..1 |-> ReplacedChar(<<x>>[i], c, by)] = <<ReplacedChar(x, c, by)>>
  OBVIOUS
<1>4. AList(ReplacedChar(x, c, by))
  BY <1>1 DEF ReplacedChar
<1> QED
  BY <1>2, <1>3, <1>4, FlattenOne

\* Of two texts one after the other.
LEMMA ReplacedJoined ==
    ASSUME NEW s, NEW t, AList(s), AList(t), NEW c, NEW by, AList(by)
    PROVE  Replaced(s \o t, c, by) = Replaced(s, c, by) \o Replaced(t, c, by)
<1> DEFINE R(text) == [i \in 1..Len(text) |-> ReplacedChar(text[i], c, by)]
<1>1. \A x : AList(ReplacedChar(x, c, by))
  <2>1. \A x : AList(<<x>>)
    BY DEF AList
  <2> QED
    BY <2>1 DEF ReplacedChar
<1>2. ASSUME NEW text, AList(text)
      PROVE  /\ AList(R(text)) /\ Len(R(text)) = Len(text)
             /\ \A i \in 1..Len(text) : R(text)[i] = ReplacedChar(text[i], c, by)
             /\ EachAList(R(text), Len(R(text)))
             /\ Replaced(text, c, by) = FlattenSeq(R(text))
  <2>1. Len(text) \in Nat
    BY <1>2 DEF AList
  <2>2. /\ AList(R(text)) /\ Len(R(text)) = Len(text)
        /\ \A i \in 1..Len(text) : R(text)[i] = ReplacedChar(text[i], c, by)
    BY <2>1, FunctionIsList
  <2>3. EachAList(R(text), Len(R(text)))
    BY <1>1, <2>2 DEF EachAList
  <2> QED
    BY <1>2, <2>2, <2>3, ReplacedEach
<1> HIDE DEF R
<1>3. /\ AList(s \o t) /\ Len(s \o t) = Len(s) + Len(t)
      /\ \A i \in 1..Len(s) : (s \o t)[i] = s[i]
      /\ \A i \in 1..Len(t) : (s \o t)[Len(s) + i] = t[i]
  BY ONLY AList(s), AList(t), ListsJoined
<1>4. Len(s) \in Nat /\ Len(t) \in Nat
  BY DEF AList
<1>5. AList(R(s)) /\ AList(R(t)) /\ Len(R(s)) = Len(s) /\ Len(R(t)) = Len(t)
      /\ EachAList(R(s), Len(R(s))) /\ EachAList(R(t), Len(R(t)))
  BY <1>2
<1>6. /\ AList(R(s) \o R(t)) /\ Len(R(s) \o R(t)) = Len(s) + Len(t)
      /\ \A i \in 1..Len(s) : (R(s) \o R(t))[i] = R(s)[i]
      /\ \A i \in 1..Len(t) : (R(s) \o R(t))[Len(s) + i] = R(t)[i]
  <2>1. AList(R(s)) /\ AList(R(t))
    BY <1>5
  <2>2. /\ AList(R(s) \o R(t)) /\ Len(R(s) \o R(t)) = Len(R(s)) + Len(R(t))
        /\ \A i \in 1..Len(R(s)) : (R(s) \o R(t))[i] = R(s)[i]
        /\ \A i \in 1..Len(R(t)) : (R(s) \o R(t))[Len(R(s)) + i] = R(t)[i]
    BY ONLY <2>1, ListsJoined
  <2> QED
    BY <1>5, <2>2
<1>7. R(s \o t) = R(s) \o R(t)
  <2>0. /\ AList(R(s \o t)) /\ Len(R(s \o t)) = Len(s) + Len(t)
        /\ \A i \in 1..(Len(s) + Len(t)) : R(s \o t)[i] = ReplacedChar((s \o t)[i], c, by)
    BY <1>2, <1>3
  <2>1. ASSUME NEW i \in 1..(Len(s) + Len(t)) PROVE R(s \o t)[i] = (R(s) \o R(t))[i]
    <3>1. CASE i <= Len(s)
      <4>1. i \in 1..Len(s)
        BY <1>4, <3>1
      <4> QED
        BY <1>2, <1>3, <1>6, <2>0, <4>1
    <3>2. CASE i > Len(s)
      <4>1. i - Len(s) \in 1..Len(t) /\ Len(s) + (i - Len(s)) = i
        BY <1>4, <3>2
      <4>2. (s \o t)[i] = t[i - Len(s)] /\ (R(s) \o R(t))[i] = R(t)[i - Len(s)]
        BY <1>3, <1>6, <4>1
      <4>3. R(t)[i - Len(s)] = ReplacedChar(t[i - Len(s)], c, by)
        BY <1>2, <4>1
      <4> QED
        BY <2>0, <4>2, <4>3
    <3>3. i <= Len(s) \/ i > Len(s)
      BY <1>4
    <3> QED
      BY <3>1, <3>2, <3>3
  <2> QED
    BY <1>6, <2>0, <2>1, SameList
<1>8. FlattenSeq(R(s) \o R(t)) = FlattenSeq(R(s)) \o FlattenSeq(R(t))
  BY ONLY <1>5, FlattenJoined
<1>9. /\ Replaced(s \o t, c, by) = FlattenSeq(R(s \o t))
      /\ Replaced(s, c, by) = FlattenSeq(R(s)) /\ Replaced(t, c, by) = FlattenSeq(R(t))
  BY <1>2, <1>3
<1> QED
  BY ONLY <1>7, <1>8, <1>9

(***************************************************************************)
(* Piece by piece: if it makes of each piece another one, it makes of the  *)
(* pieces put together the others put together.                            *)
(***************************************************************************)
PieceByPiece(P, Q, n, c, by) ==
    /\ n \in Nat /\ P = [i \in 1..n |-> P[i]] /\ Q = [i \in 1..n |-> Q[i]]
    /\ EachAList(P, n) /\ EachAList(Q, n) /\ AList(by)
    /\ \A i \in 1..n : Replaced(P[i], c, by) = Q[i]

\* What is written piece by piece is replaced piece by piece.
LEMMA ReplacedPieces ==
    ASSUME NEW n, NEW P, NEW Q, NEW c, NEW by, PieceByPiece(P, Q, n, c, by)
    PROVE  Replaced(FlattenSeq(P), c, by) = FlattenSeq(Q)
<1>0. /\ n \in Nat /\ P = [i \in 1..n |-> P[i]] /\ Q = [i \in 1..n |-> Q[i]]
      /\ EachAList(P, n) /\ EachAList(Q, n) /\ AList(by)
      /\ \A i \in 1..n : Replaced(P[i], c, by) = Q[i]
  BY DEF PieceByPiece
<1> USE <1>0
<1> DEFINE T == {k \in 0..n : Replaced(FlattenTo(P, k), c, by) # FlattenTo(Q, k)}
<1>1. FlattenSeq(P) = FlattenTo(P, n) /\ FlattenTo(P, 0) = <<>>
  BY FlattenWhole
<1>2. FlattenSeq(Q) = FlattenTo(Q, n) /\ FlattenTo(Q, 0) = <<>>
  BY FlattenWhole
<1>3. Replaced(<<>>, c, by) = <<>>
  <2>1. DOMAIN <<>> = {}
    OBVIOUS
  <2> QED
    BY <2>1 DEF Replaced
<1>4. T = {}
  <2> SUFFICES ASSUME T # {} PROVE FALSE
    OBVIOUS
  <2>1. T \in SUBSET Nat
    OBVIOUS
  <2>2. PICK k \in T : \A l \in T : k <= l
    BY <2>1, LeastExists
  <2>3. k \in 1..n /\ k - 1 \in 0..n /\ Replaced(FlattenTo(P, k), c, by) # FlattenTo(Q, k)
    BY <1>1, <1>2, <1>3
  <2>4. Replaced(FlattenTo(P, k - 1), c, by) = FlattenTo(Q, k - 1)
    <3>1. k - 1 \notin T
      BY <2>2, <2>3
    <3> QED
      BY <2>3, <3>1
  <2> HIDE DEF T
  <2>5. FlattenTo(P, k) = FlattenTo(P, k - 1) \o P[k] /\ AList(FlattenTo(P, k - 1))
    BY <2>3, FlattenMore
  <2>6. FlattenTo(Q, k) = FlattenTo(Q, k - 1) \o Q[k]
    BY <2>3, FlattenMore
  <2>7. AList(P[k]) /\ Replaced(P[k], c, by) = Q[k]
    BY <2>3 DEF EachAList
  <2>8. Replaced(FlattenTo(P, k - 1) \o P[k], c, by)
          = Replaced(FlattenTo(P, k - 1), c, by) \o Replaced(P[k], c, by)
    <3>1. AList(FlattenTo(P, k - 1)) /\ AList(P[k])
      BY <2>5, <2>7
    <3>2. AList(by)
      OBVIOUS
    <3> QED
      BY ONLY <3>1, <3>2, ReplacedJoined
  <2> QED
    BY <2>3, <2>4, <2>5, <2>6, <2>7, <2>8
<1>5. n \in 0..n
  OBVIOUS
<1> QED
  BY <1>1, <1>2, <1>4, <1>5

-----------------------------------------------------------------------------
\* Folding takes a token to one.
LEMMA FoldedToken ==
    ASSUME NEW c, IsToken(c)
    PROVE  IsToken([c EXCEPT !.t = FoldedWord(@)])
<1>1. CASE \E s : c = Word(s)
  <2>1. PICK s : c = Word(s)
    BY <1>1
  <2>2. [c EXCEPT !.t = FoldedWord(@)] = Word(FoldedWord(s))
    BY <2>1 DEF Word
  <2> QED
    BY <2>2 DEF IsToken
<1>2. CASE \E k : c = Number(k)
  <2>1. PICK k : c = Number(k)
    BY <1>2
  <2>2. FoldedWord("number") = "number"
    BY DEF FoldedWord
  <2>3. [c EXCEPT !.t = FoldedWord(@)] = Number(k)
    BY <2>1, <2>2 DEF Number
  <2> QED
    BY <2>3 DEF IsToken
<1> QED
  BY <1>1, <1>2 DEF IsToken

\* And a text to one, of the same length.
LEMMA FoldedTokens ==
    ASSUME NEW text, Tokens(text)
    PROVE  Tokens(Folded(text)) /\ Len(Folded(text)) = Len(text)
<1>1. Len(text) \in Nat /\ DOMAIN text = 1..Len(text)
  BY ListIsSeq DEF Tokens
<1>2. /\ AList(Folded(text)) /\ Len(Folded(text)) = Len(text)
      /\ \A i \in 1..Len(text) : Folded(text)[i] = [text[i] EXCEPT !.t = FoldedWord(@)]
  BY <1>1, FunctionIsList DEF Folded
<1>3. \A i \in 1..Len(text) : IsToken(text[i])
  BY DEF Tokens
<1>4. ASSUME NEW i \in 1..Len(text) PROVE IsToken(Folded(text)[i])
  BY <1>2, <1>3, FoldedToken
<1> QED
  BY <1>2, <1>4 DEF Tokens

\* A special character of a PDF string with its backslash, or a character.
EscapedChar(c) == IF c.t \in {"\\", "(", ")"} THEN <<Backslash, c>> ELSE <<c>>

\* pdf_escape puts a backslash before each of the three characters.
LEMMA EscapePieces ==
    ASSUME NEW text, Tokens(text)
    PROVE  /\ AList(PdfEscape(text))
           /\ PdfEscape(text)
                = FlattenSeq([i \in 1..Len(text) |-> EscapedChar(Folded(text)[i])])
<1> DEFINE y == Folded(text)
           n == Len(text)
           P == [i \in 1..n |-> ReplacedChar(y[i], "\\", <<Backslash, Backslash>>)]
           Q == [i \in 1..n |-> Replaced(P[i], "(", <<Backslash, Word("(")>>)]
           R == [i \in 1..n |-> EscapedChar(y[i])]
<1>1. /\ AList(y) /\ n \in Nat /\ Len(y) = n /\ \A i \in 1..n : IsToken(y[i])
  BY FoldedTokens DEF Tokens, AList
<1>2. \A a : AList(<<a>>)
  BY DEF AList
<1>3. \A a, b : AList(<<a, b>>)
  BY DEF AList
<1> HIDE DEF y, n
<1>4. Replaced(y, "\\", <<Backslash, Backslash>>) = FlattenSeq(P)
  BY <1>1, <1>3, ReplacedEach
<1>5. /\ P = [i \in 1..n |-> P[i]] /\ Q = [i \in 1..n |-> Q[i]] /\ R = [i \in 1..n |-> R[i]]
      /\ \A i \in 1..n : P[i] = ReplacedChar(y[i], "\\", <<Backslash, Backslash>>)
      /\ \A i \in 1..n : Q[i] = Replaced(P[i], "(", <<Backslash, Word("(")>>)
      /\ \A i \in 1..n : R[i] = EscapedChar(y[i])
  OBVIOUS
<1> HIDE DEF P, Q, R
<1>6. \A c, d, by : AList(by) => Replaced(<<c>>, d, by) = ReplacedChar(c, d, by)
  BY ReplacedOne
<1>7. ASSUME NEW a, NEW b, NEW d, NEW by, AList(by), a.t # d, b.t # d
      PROVE  Replaced(<<a, b>>, d, by) = <<a, b>>
  <2>1. AList(<<a, b>>) /\ Len(<<a, b>>) = 2 /\ <<a, b>>[1] = a /\ <<a, b>>[2] = b
    BY <1>3
  <2>2. \A k \in DOMAIN <<a, b>> : <<a, b>>[k].t # d
    BY <1>7, <2>1
  <2> QED
    BY <2>2 DEF Replaced
<1>8. ASSUME NEW i \in 1..n
      PROVE  /\ AList(P[i]) /\ AList(Q[i]) /\ AList(R[i])
             /\ Replaced(Q[i], ")", <<Backslash, Word(")")>>) = R[i]
  <2>1. IsToken(y[i])
    BY <1>1
  <2>2. Backslash.t = "\\" /\ Backslash = Word("\\")
    BY DEF Backslash, Word
  <2>3. CASE y[i].t = "\\"
    <3>1. y[i] = Backslash
      BY <2>1, <2>2, <2>3, TokenIs
    <3>2. P[i] = <<Backslash, Backslash>> /\ R[i] = <<Backslash, Backslash>>
      BY <1>5, <2>3, <3>1 DEF ReplacedChar, EscapedChar
    <3>3. Q[i] = <<Backslash, Backslash>>
      BY <1>3, <1>5, <1>7, <2>2, <3>2
    <3>4. Replaced(Q[i], ")", <<Backslash, Word(")")>>) = <<Backslash, Backslash>>
      BY <1>3, <1>7, <2>2, <3>3
    <3> QED
      BY <1>3, <3>2, <3>3, <3>4
  <2>4. CASE y[i].t = "("
    <3>1. y[i] = Word("(")
      BY <2>1, <2>4, TokenIs
    <3>2. P[i] = <<y[i]>> /\ R[i] = <<Backslash, y[i]>>
      BY <1>5, <2>4 DEF ReplacedChar, EscapedChar
    <3>3. Q[i] = <<Backslash, y[i]>>
      BY <1>3, <1>5, <1>6, <2>4, <3>1, <3>2 DEF ReplacedChar
    <3>4. Replaced(Q[i], ")", <<Backslash, Word(")")>>) = <<Backslash, y[i]>>
      BY <1>3, <1>7, <2>2, <2>4, <3>3
    <3> QED
      BY <1>2, <1>3, <3>2, <3>3, <3>4
  <2>5. CASE y[i].t = ")"
    <3>1. y[i] = Word(")")
      BY <2>1, <2>5, TokenIs
    <3>2. P[i] = <<y[i]>> /\ R[i] = <<Backslash, y[i]>>
      BY <1>5, <2>5 DEF ReplacedChar, EscapedChar
    <3>3. Q[i] = <<y[i]>>
      BY <1>3, <1>5, <1>6, <2>5, <3>2 DEF ReplacedChar
    <3>4. Replaced(Q[i], ")", <<Backslash, Word(")")>>) = <<Backslash, y[i]>>
      BY <1>3, <1>6, <2>5, <3>1, <3>3 DEF ReplacedChar
    <3> QED
      BY <1>2, <1>3, <3>2, <3>3, <3>4
  <2>6. CASE y[i].t \notin {"\\", "(", ")"}
    <3>1. P[i] = <<y[i]>> /\ R[i] = <<y[i]>>
      BY <1>5, <2>6 DEF ReplacedChar, EscapedChar
    <3>2. Q[i] = <<y[i]>>
      BY <1>3, <1>5, <1>6, <2>6, <3>1 DEF ReplacedChar
    <3>3. Replaced(Q[i], ")", <<Backslash, Word(")")>>) = <<y[i]>>
      BY <1>3, <1>6, <2>6, <3>2 DEF ReplacedChar
    <3> QED
      BY <1>2, <3>1, <3>2, <3>3
  <2> QED
    BY <2>3, <2>4, <2>5, <2>6
<1>9. EachAList(P, n) /\ EachAList(Q, n) /\ EachAList(R, n)
  BY <1>8 DEF EachAList
<1>10. Replaced(FlattenSeq(P), "(", <<Backslash, Word("(")>>) = FlattenSeq(Q)
  <2>1. PieceByPiece(P, Q, n, "(", <<Backslash, Word("(")>>)
    BY <1>1, <1>3, <1>5, <1>9 DEF PieceByPiece
  <2> QED
    BY <2>1, ReplacedPieces
<1>11. Replaced(FlattenSeq(Q), ")", <<Backslash, Word(")")>>) = FlattenSeq(R)
  <2>1. \A i \in 1..n : Replaced(Q[i], ")", <<Backslash, Word(")")>>) = R[i]
    BY <1>8
  <2>2. n \in Nat /\ Q = [i \in 1..n |-> Q[i]] /\ R = [i \in 1..n |-> R[i]]
    BY <1>1, <1>5
  <2>3. AList(<<Backslash, Word(")")>>)
    BY <1>3
  <2> QED
    <3>1. PieceByPiece(Q, R, n, ")", <<Backslash, Word(")")>>)
      BY <1>9, <2>1, <2>2, <2>3 DEF PieceByPiece
    <3> QED
      BY <3>1, ReplacedPieces
<1>12. PdfEscape(text) = FlattenSeq(R)
  BY <1>4, <1>10, <1>11 DEF PdfEscape, y
<1>13. AList(R) /\ Len(R) = n
  BY <1>1, <1>5, FunctionIsList
<1>14. AList(FlattenSeq(R))
  BY <1>9, <1>13, FlattenLaid
<1> QED
  BY <1>12, <1>14 DEF R, y, n

(***************************************************************************)
(* The places of the escaping backslashes X and those of the characters g: *)
(* they are all the places, each backslash is before a character, and a    *)
(* special character is after a backslash.                                 *)
(***************************************************************************)
Escapes(out, y, X, g) ==
    /\ AList(out) /\ AList(y) /\ X \in SUBSET (1..Len(out))
    /\ g \in [1..Len(y) -> 1..Len(out)]
    /\ \A i, j \in 1..Len(y) : i < j => g[i] < g[j]
    /\ \A i \in 1..Len(y) : out[g[i]] = y[i] /\ g[i] \notin X
    /\ \A p \in 1..Len(out) : p \in X \/ \E i \in 1..Len(y) : p = g[i]
    /\ \A p \in X : out[p] = Backslash /\ p + 1 \in 1..Len(out) /\ p + 1 \notin X
    /\ \A p \in 1..Len(out) : p \notin X /\ out[p].t \in {"\\", "(", ")"} => p - 1 \in X

\* Where each character of the folded text is in what is written.
LEMMA EscapePlaces ==
    ASSUME NEW text, Tokens(text)
    PROVE  \E X, g : Escapes(PdfEscape(text), Folded(text), X, g)
<1> DEFINE y == Folded(text)
           n == Len(text)
           out == PdfEscape(text)
           pieces == [i \in 1..n |-> EscapedChar(y[i])]
<1>1. AList(y) /\ n \in Nat /\ Len(y) = n
  BY FoldedTokens DEF Tokens, AList
<1>2. AList(out) /\ out = FlattenSeq(pieces)
  BY EscapePieces
<1>3. AList(pieces) /\ Len(pieces) = n /\ \A i \in 1..n : pieces[i] = EscapedChar(y[i])
  BY <1>1, FunctionIsList
<1> HIDE DEF y, n, out, pieces
<1>4. ASSUME NEW i \in 1..n
      PROVE  /\ AList(pieces[i]) /\ Len(pieces[i]) \in 1..2
             /\ Len(pieces[i]) = 1 \/ Len(pieces[i]) = 2
             /\ Len(pieces[i]) = 1 => pieces[i][1] = y[i] /\ y[i].t \notin {"\\", "(", ")"}
             /\ Len(pieces[i]) = 2 => pieces[i][1] = Backslash /\ pieces[i][2] = y[i]
  <2>1. CASE y[i].t \in {"\\", "(", ")"}
    <3>1. pieces[i] = <<Backslash, y[i]>>
      BY <1>3, <2>1 DEF EscapedChar
    <3> QED
      BY <3>1 DEF AList
  <2>2. CASE y[i].t \notin {"\\", "(", ")"}
    <3>1. pieces[i] = <<y[i]>>
      BY <1>3, <2>2 DEF EscapedChar
    <3> QED
      BY <2>2, <3>1 DEF AList
  <2> QED
    BY <2>1, <2>2
<1>5. EachAList(pieces, n)
  BY <1>4 DEF EachAList
<1>6. PICK off : Laid(out, pieces, off, n)
  BY <1>2, <1>3, <1>5, FlattenLaid
<1>7. /\ off \in [0..n -> Nat] /\ Len(out) = off[n] /\ off[0] = 0
      /\ \A i \in 1..n : off[i] = off[i - 1] + Len(pieces[i])
      /\ \A i \in 1..n : \A j \in 1..Len(pieces[i]) : out[off[i - 1] + j] = pieces[i][j]
  BY <1>6 DEF Laid
<1>8. /\ \A i \in 1..n : off[i - 1] \in Nat /\ off[i] \in Nat /\ off[i] <= Len(out)
      /\ \A i \in 0..n : \A j \in 0..n : i <= j => off[i] <= off[j]
      /\ \A p \in 1..Len(out) : \E i \in 1..n : \E j \in 1..Len(pieces[i]) : p = off[i - 1] + j
  BY <1>1, <1>5, <1>6, LaidPlaces
<1> DEFINE len == [i \in 1..n |-> Len(pieces[i])]
<1>20. \A i \in 1..n : len[i] = Len(pieces[i])
  OBVIOUS
<1> HIDE DEF len
<1>21. \A i \in 1..n : len[i] \in 1..2 /\ off[i] = off[i - 1] + len[i]
  BY <1>4, <1>7, <1>20
<1>9. Len(out) \in Nat
  BY <1>2 DEF AList
<1> DEFINE g == [i \in 1..n |-> off[i]]
           X == {off[i - 1] + 1 : i \in {k \in 1..n : Len(pieces[k]) = 2}}
<1>10. \A i \in 1..n : g[i] = off[i]
  OBVIOUS
<1>11. \A p : p \in X <=> \E i \in 1..n : Len(pieces[i]) = 2 /\ p = off[i - 1] + 1
  OBVIOUS
<1>12. g \in [1..n -> 1..Len(out)]
  <2> SUFFICES ASSUME NEW i \in 1..n PROVE off[i] \in 1..Len(out)
    OBVIOUS
  <2>1. off[i] = off[i - 1] + len[i] /\ len[i] \in 1..2
    BY <1>21
  <2> QED
    BY <1>8, <1>9, <2>1
<1> HIDE DEF g, X
<1>13. ASSUME NEW i \in 1..n, NEW j \in 1..n, i < j PROVE g[i] < g[j]
  <2>1. i \in 0..n /\ j - 1 \in 0..n /\ i <= j - 1
    BY <1>1, <1>13
  <2>2. off[i] <= off[j - 1]
    BY <1>8, <2>1
  <2>3. off[j] = off[j - 1] + len[j] /\ len[j] \in 1..2
    BY <1>21
  <2>4. off[i] \in Nat /\ off[j] \in Nat /\ off[j - 1] \in Nat
    BY <1>8
  <2> QED
    BY <1>10, <2>2, <2>3, <2>4
<1>14. ASSUME NEW i \in 1..n PROVE out[g[i]] = y[i]
  <2>1. out[off[i - 1] + Len(pieces[i])] = pieces[i][Len(pieces[i])]
    BY <1>4, <1>7
  <2> QED
    BY <1>4, <1>7, <1>10, <2>1
\* A backslash is the first of two.
<1>15. ASSUME NEW i \in 1..n, NEW j \in 1..len[i]
       PROVE  off[i - 1] + j \in X <=> (len[i] = 2 /\ j = 1)
  <2>0. /\ len[i] \in 1..2 /\ off[i - 1] \in Nat /\ off[i] = off[i - 1] + len[i] /\ off[i] \in Nat
    BY <1>8, <1>21
  <2>1. ASSUME off[i - 1] + j \in X PROVE len[i] = 2 /\ j = 1
    <3>1. PICK k \in 1..n : len[k] = 2 /\ off[i - 1] + j = off[k - 1] + 1
      BY <1>11, <1>20, <2>1
    <3>2. off[k] = off[k - 1] + 2 /\ off[k - 1] \in Nat
      BY <1>8, <1>21, <3>1
    <3>3. PICK p : p = off[i - 1] + j
      OBVIOUS
    <3>4. p \in Nat /\ off[i - 1] < p /\ p <= off[i]
      BY <2>0, <3>3
    <3>5. off[k - 1] < p /\ p <= off[k]
      BY <3>1, <3>2, <3>3
    <3>6. i = k
      BY <1>1, <1>7, <1>8, <3>4, <3>5, PlaceUnique
    <3> QED
      BY <2>0, <3>1, <3>6
  <2>2. ASSUME len[i] = 2, j = 1 PROVE off[i - 1] + j \in X
    BY <1>11, <1>20, <2>2
  <2> QED
    BY <2>1, <2>2
<1>16. ASSUME NEW i \in 1..n PROVE g[i] \notin X
  <2>1. len[i] \in 1..2 /\ off[i] = off[i - 1] + len[i]
    BY <1>21
  <2>2. len[i] \in 1..len[i]
    BY <2>1
  <2>3. off[i - 1] + len[i] \in X <=> (len[i] = 2 /\ len[i] = 1)
    BY <1>15, <2>2
  <2> QED
    BY <1>10, <2>1, <2>3
<1>17. ASSUME NEW p \in 1..Len(out)
       PROVE  /\ p \in X \/ \E i \in 1..n : p = g[i]
              /\ p \notin X /\ out[p].t \in {"\\", "(", ")"} => p - 1 \in X
  <2>1. PICK i \in 1..n : \E j \in 1..Len(pieces[i]) : p = off[i - 1] + j
    BY <1>8
  <2>2. PICK j \in 1..Len(pieces[i]) : p = off[i - 1] + j
    BY <2>1
  <2>3. Len(pieces[i]) \in 1..2 /\ off[i] = off[i - 1] + Len(pieces[i]) /\ off[i - 1] \in Nat
    BY <1>4, <1>7, <1>8
  <2>4. out[p] = pieces[i][j]
    BY <1>7, <2>2
  <2>5. CASE Len(pieces[i]) = 1
    <3>1. j = 1 /\ p = g[i]
      BY <1>10, <2>2, <2>3, <2>5
    <3>2. out[p].t \notin {"\\", "(", ")"}
      BY <1>4, <2>4, <2>5, <3>1
    <3> QED
      BY <3>1, <3>2
  <2>6. CASE Len(pieces[i]) = 2
    <3>1. CASE j = 1
      BY <1>11, <2>2, <2>6, <3>1
    <3>2. CASE j = 2
      <4>1. p = g[i] /\ p - 1 = off[i - 1] + 1
        BY <1>10, <2>2, <2>3, <2>6, <3>2
      <4>2. p - 1 \in X
        BY <1>11, <2>6, <4>1
      <4> QED
        BY <4>1, <4>2
    <3> QED
      BY <2>6, <3>1, <3>2
  <2> QED
    BY <2>3, <2>5, <2>6
<1>18. ASSUME NEW p \in X
       PROVE  out[p] = Backslash /\ p \in 1..Len(out) /\ p + 1 \in 1..Len(out) /\ p + 1 \notin X
  <2>1. PICK i \in 1..n : Len(pieces[i]) = 2 /\ p = off[i - 1] + 1
    BY <1>11
  <2>2. off[i] = off[i - 1] + 2 /\ off[i - 1] \in Nat /\ off[i] <= Len(out)
    BY <1>7, <1>8, <2>1
  <2>3. out[p] = Backslash
    BY <1>4, <1>7, <2>1
  <2>4. p + 1 = off[i - 1] + 2 /\ 2 \in 1..len[i]
    <3>1. len[i] = 2
      BY <1>20, <2>1
    <3> QED
      BY <2>1, <2>2, <3>1
  <2>5. p + 1 \notin X
    BY <1>15, <2>4
  <2> QED
    BY <1>9, <2>1, <2>2, <2>3, <2>5
<1>19. X \in SUBSET (1..Len(out))
  BY <1>18
<1>22. Escapes(out, y, X, g)
  BY <1>1, <1>2, <1>12, <1>13, <1>14, <1>16, <1>17, <1>18, <1>19 DEF Escapes
<1> QED
  BY <1>22 DEF out, y

-----------------------------------------------------------------------------
\* The backslashes at even distances from where their run begins.
RunStart(slashes, i) == Min({j \in 1..i : j..i \subseteq slashes})

Escaping(slashes) == {i \in slashes : (i - RunStart(slashes, i)) % 2 = 0}

\* The least of some numbers is the one below all of them.
LEMMA MinIs ==
    ASSUME NEW n \in Nat, NEW S \in SUBSET (1..n), NEW m \in S, \A x \in S : m <= x
    PROVE  Min(S) = m
<1>1. IsFiniteSet(S)
  BY PlacesFinite
<1>2. S \in SUBSET Int /\ S # {}
  OBVIOUS
<1>3. Min(S) \in S /\ \A x \in S : Min(S) <= x
  BY <1>1, <1>2, GreatestExists
<1>4. Min(S) <= m /\ m <= Min(S) /\ Min(S) \in Int /\ m \in Int
  BY <1>2, <1>3
<1> QED
  BY <1>4

\* Of two in a row one escapes the other.
LEMMA EscapingAlternates ==
    ASSUME NEW n \in Nat, NEW slashes \in SUBSET (1..n), NEW i \in slashes
    PROVE  i \in Escaping(slashes) <=> i - 1 \notin Escaping(slashes)
<1> DEFINE starts(k) == {j \in 1..k : j..k \subseteq slashes}
<1>1. i \in 1..n /\ i \in Nat /\ i - 1 \in Nat
  OBVIOUS
<1>2. \A k : k \in Escaping(slashes) <=> k \in slashes /\ (k - Min(starts(k))) % 2 = 0
  BY DEF Escaping, RunStart
<1>3. CASE i - 1 \notin slashes
  <2>1. \A j \in 1..i : j..i \subseteq slashes <=> j = i
    <3> TAKE j \in 1..i
    <3>1. ASSUME j # i PROVE i - 1 \in j..i
      BY <1>1, <3>1
    <3>2. i..i = {i}
      BY <1>1
    <3> QED
      BY <1>3, <3>1, <3>2
  <2>2. starts(i) = {i}
    BY <1>1, <2>1
  <2>3. Min(starts(i)) = i
    <3>1. {i} \in SUBSET (1..n) /\ i \in {i} /\ \A x \in {i} : i <= x
      BY <1>1
    <3> QED
      BY <2>2, <3>1, MinIs
  <2>4. (i - i) % 2 = 0
    BY <1>1
  <2> HIDE DEF starts
  <2>5. i \in Escaping(slashes)
    BY <1>2, <2>3, <2>4
  <2>6. i - 1 \notin Escaping(slashes)
    BY <1>2, <1>3
  <2> QED
    BY <2>5, <2>6
<1>4. CASE i - 1 \in slashes
  <2>1. i - 1 \in 1..n /\ i - 1 >= 1
    BY <1>4
  <2>2. \A j \in 1..(i - 1) : j \in starts(i) <=> j \in starts(i - 1)
    <3> TAKE j \in 1..(i - 1)
    <3>1. \A x : x \in j..i <=> x \in j..(i - 1) \/ x = i
      BY <1>1
    <3>2. j..i \subseteq slashes <=> j..(i - 1) \subseteq slashes
      BY <3>1
    <3>3. j \in 1..i
      BY <1>1
    <3> QED
      BY <3>2, <3>3
  <2>3. starts(i - 1) \in SUBSET (1..n) /\ starts(i) \in SUBSET (1..n)
    BY <1>1
  <2>4. i - 1 \in starts(i - 1)
    <3>1. (i - 1)..(i - 1) = {i - 1}
      BY <1>1
    <3> QED
      BY <1>1, <1>4, <2>1, <3>1
  <2>5. \A x \in starts(i) : x \in 1..i
    OBVIOUS
  <2>6. \A x \in starts(i - 1) : x \in 1..(i - 1)
    OBVIOUS
  <2> HIDE DEF starts
  <2>7. Min(starts(i - 1)) \in starts(i - 1) /\ \A x \in starts(i - 1) : Min(starts(i - 1)) <= x
    <3>1. PICK S \in SUBSET (1..n) : S = starts(i - 1)
      BY <2>3
    <3>2. IsFiniteSet(S)
      BY PlacesFinite
    <3>3. S \in SUBSET Int /\ S # {}
      BY <2>4, <3>1
    <3> QED
      BY <3>1, <3>2, <3>3, GreatestExists
  <2>8. PICK m : m = Min(starts(i - 1))
    OBVIOUS
  <2>9. m \in 1..(i - 1) /\ m \in starts(i) /\ \A x \in starts(i - 1) : m <= x
    BY <2>2, <2>6, <2>7, <2>8
  <2>10. ASSUME NEW x \in starts(i) PROVE m <= x
    <3>1. x \in 1..(i - 1) \/ x = i
      BY <1>1, <2>5
    <3>2. CASE x \in 1..(i - 1)
      BY <2>2, <2>9, <3>2
    <3>3. CASE x = i
      BY <1>1, <2>9, <3>3
    <3> QED
      BY <3>1, <3>2, <3>3
  <2>11. Min(starts(i)) = m
    BY <2>3, <2>9, <2>10, MinIs
  <2>12. (i - m) % 2 = 0 <=> ~ (((i - 1) - m) % 2 = 0)
    BY <1>1, <2>9
  <2> QED
    BY <1>2, <1>4, <2>8, <2>11, <2>12
<1> QED
  BY <1>3, <1>4

\* The rule says which they are.
LEMMA EscapingIs ==
    ASSUME NEW n \in Nat, NEW slashes \in SUBSET (1..n), NEW X \in SUBSET (1..n),
           \A i \in 1..n : i \in X <=> i \in slashes /\ i - 1 \notin X
    PROVE  Escaping(slashes) = X
<1> DEFINE E == Escaping(slashes)
           T == {i \in 1..n : ~ (i \in E <=> i \in X)}
<1>1. E \in SUBSET (1..n)
  BY DEF Escaping
<1>2. \A i \in 1..n : i \in E <=> i \in slashes /\ i - 1 \notin E
  <2> TAKE i \in 1..n
  <2>1. CASE i \in slashes
    BY <2>1, EscapingAlternates
  <2>2. CASE i \notin slashes
    BY <2>2 DEF Escaping
  <2> QED
    BY <2>1, <2>2
<1> HIDE DEF E
<1>3. T = {}
  <2> SUFFICES ASSUME T # {} PROVE FALSE
    OBVIOUS
  <2>1. T \in SUBSET Nat
    OBVIOUS
  <2>2. PICK i \in T : \A l \in T : i <= l
    BY <2>1, LeastExists
  <2>3. i \in 1..n /\ ~ (i \in E <=> i \in X) /\ i - 1 \notin T
    BY <2>2
  <2>4. i - 1 \in E <=> i - 1 \in X
    <3>1. CASE i - 1 \in 1..n
      BY <2>3, <3>1
    <3>2. CASE i - 1 \notin 1..n
      BY <1>1, <3>2
    <3> QED
      BY <3>1, <3>2
  <2> QED
    BY <1>2, <2>3, <2>4
<1>4. \A i \in 1..n : i \in E <=> i \in X
  BY <1>3
<1> QED
  BY <1>1, <1>4 DEF E

\* The places P, in turn.
Rising(n, f, P) ==
    /\ f \in [1..n -> Nat] /\ \A k, l \in 1..n : k < l => f[k] < f[l]
    /\ \A p : p \in P <=> \E k \in 1..n : p = f[k]

\* The first m of them are below b.
FirstBelow(n, f, m, b) == m \in 0..n /\ \A k \in 1..n : f[k] < b <=> k <= m

Below(P, b) == {p \in P : p < b}

\* How many of some places are below another.
LEMMA CountBelow ==
    ASSUME NEW n \in Nat, NEW f, NEW P, Rising(n, f, P), NEW b, NEW m, FirstBelow(n, f, m, b)
    PROVE  Cardinality(Below(P, b)) = m
<1> DEFINE Q == {p \in P : p < b}
           h == [k \in 1..m |-> f[k]]
<1>0. /\ f \in [1..n -> Nat] /\ \A k, l \in 1..n : k < l => f[k] < f[l]
      /\ \A p : p \in P <=> \E k \in 1..n : p = f[k]
      /\ m \in 0..n /\ \A k \in 1..n : f[k] < b <=> k <= m
  BY DEF Rising, FirstBelow
<1> USE <1>0
<1>1. \A k \in 1..m : k \in 1..n
  OBVIOUS
<1>2. h \in [1..m -> Q]
  BY <1>1
<1>3. ASSUME NEW k \in 1..m, NEW l \in 1..m, h[k] = h[l] PROVE k = l
  <2>1. h[k] = f[k] /\ h[l] = f[l] /\ f[k] \in Nat /\ f[l] \in Nat /\ k \in 1..n /\ l \in 1..n
    BY <1>1
  <2>2. ~ (k < l) /\ ~ (l < k)
    BY <1>3, <2>1
  <2> QED
    BY <2>2
<1>4. ASSUME NEW p \in Q PROVE \E k \in 1..m : h[k] = p
  <2>1. PICK k \in 1..n : p = f[k]
    OBVIOUS
  <2>2. k \in 1..m
    BY <2>1
  <2> QED
    BY <2>1, <2>2
<1> HIDE DEF Q, h
<1>5. h \in Bijection(1..m, Q)
  <2>1. h \in Injection(1..m, Q)
    BY <1>2, <1>3 DEF Injection, IsInjective
  <2>2. h \in Surjection(1..m, Q)
    BY <1>2, <1>4 DEF Surjection
  <2> QED
    BY <2>1, <2>2 DEF Bijection
<1>6. IsFiniteSet(1..m) /\ Cardinality(1..m) = m
  BY FS_Interval
<1>7. Cardinality(Q) = Cardinality(1..m)
  BY <1>5, <1>6, FS_Bijection DEF ExistsBijection
<1> QED
  BY <1>6, <1>7 DEF Q, Below

-----------------------------------------------------------------------------
(***************************************************************************)
(* What a content stream consists of: n rows, of which the j-th ends at    *)
(* off[j] and shows out[j], the escaped form of y[j].                      *)
(***************************************************************************)
RowLaid(stream, j, off, out, y, X, g) ==
    /\ Escapes(out[j], y[j], X[j], g[j])
    /\ off[j] = off[j - 1] + Len(out[j]) + 4
    /\ stream[off[j - 1] + 1] \in {Word("BT"), Word("T*")}
    /\ j # 1 => stream[off[j - 1] + 1] = Word("T*")
    /\ stream[off[j - 1] + 2] = Word("(")
    /\ \A p \in 1..Len(out[j]) : stream[off[j - 1] + 2 + p] = out[j][p]
    /\ stream[off[j] - 1] = Word(")") /\ stream[off[j]] = Word("Tj")

PageLaid(stream, n, off, out, y, X, g) ==
    /\ n \in Nat /\ off \in [0..n -> Nat] /\ off[0] = 0
    /\ AList(stream) /\ Len(stream) = off[n] + 1 /\ stream[off[n] + 1] = Word("ET")
    /\ \A j \in 1..n : RowLaid(stream, j, off, out, y, X, g)

\* Where the strings open and close.
OpenAt(off, j) == off[j - 1] + 2
CloseAt(off, j) == off[j] - 1

\* What is in a row is in no other.
LEMMA RowsApart ==
    ASSUME NEW stream, NEW n, NEW off, NEW out, NEW y, NEW X, NEW g,
           PageLaid(stream, n, off, out, y, X, g)
    PROVE  /\ \A j \in 1..n : /\ off[j - 1] \in Nat /\ off[j] \in Nat /\ Len(out[j]) \in Nat
                              /\ off[j] = off[j - 1] + Len(out[j]) + 4 /\ off[j] <= off[n]
           /\ \A i, j \in 0..n : i <= j => off[i] <= off[j]
           /\ \A i, j \in 1..n : i < j => OpenAt(off, i) < OpenAt(off, j)
           /\ \A i, j \in 1..n : i < j => CloseAt(off, i) < CloseAt(off, j)
           /\ \A i, j \in 1..n : OpenAt(off, i) < CloseAt(off, j) <=> i <= j
           /\ \A i, j \in 1..n : CloseAt(off, i) < OpenAt(off, j) <=> i < j
<1>1. /\ n \in Nat /\ off \in [0..n -> Nat] /\ off[0] = 0
      /\ \A j \in 1..n : off[j] = off[j - 1] + Len(out[j]) + 4 /\ Len(out[j]) \in Nat
  BY DEF PageLaid, RowLaid, Escapes, AList
<1>2. \A j \in 1..n : j - 1 \in 0..n /\ j \in 0..n
  BY <1>1
<1>3. \A j \in 1..n : off[j - 1] \in Nat /\ off[j] \in Nat
  BY <1>1, <1>2
<1>4. ASSUME NEW j \in 1..n PROVE off[j - 1] <= off[j] /\ off[j - 1] + 4 <= off[j]
  <2>1. PICK l : l = Len(out[j])
    OBVIOUS
  <2>2. PICK b : b = off[j - 1]
    OBVIOUS
  <2>3. PICK e : e = off[j]
    OBVIOUS
  <2>4. l \in Nat /\ b \in Nat /\ e = b + l + 4
    BY <1>1, <1>3, <2>1, <2>2, <2>3
  <2>5. b <= e /\ b + 4 <= e
    BY <2>4
  <2> QED
    BY <2>2, <2>3, <2>5
<1>5. \A i \in 0..n : \A j \in 0..n : i <= j => off[i] <= off[j]
  BY <1>1, <1>4, OffsetsRise
<1>6. \A j \in 1..n : off[j] <= off[n]
  BY <1>1, <1>2, <1>5
<1>7. ASSUME NEW i \in 1..n, NEW j \in 1..n, i < j PROVE off[i] <= off[j - 1]
  <2>1. i \in 0..n /\ j - 1 \in 0..n /\ i <= j - 1
    BY <1>1, <1>7
  <2> QED
    BY <1>5, <2>1
<1>8. ASSUME NEW i \in 1..n, NEW j \in 1..n, i < j
      PROVE  /\ OpenAt(off, i) < OpenAt(off, j) /\ CloseAt(off, i) < CloseAt(off, j)
             /\ OpenAt(off, i) < CloseAt(off, j) /\ CloseAt(off, i) < OpenAt(off, j)
  <2>1. off[i] <= off[j - 1] /\ off[i - 1] + 4 <= off[i] /\ off[j - 1] + 4 <= off[j]
    BY <1>4, <1>7, <1>8
  <2>2. off[i] \in Nat /\ off[i - 1] \in Nat /\ off[j] \in Nat /\ off[j - 1] \in Nat
    BY <1>3
  <2> QED
    BY <2>1, <2>2 DEF OpenAt, CloseAt
<1>9. ASSUME NEW i \in 1..n
      PROVE  OpenAt(off, i) < CloseAt(off, i) /\ OpenAt(off, i) \in Nat /\ CloseAt(off, i) \in Nat
  <2>1. off[i - 1] + 4 <= off[i] /\ off[i] \in Nat /\ off[i - 1] \in Nat
    BY <1>3, <1>4
  <2> QED
    BY <2>1 DEF OpenAt, CloseAt
<1>10. ASSUME NEW i \in 1..n, NEW j \in 1..n
       PROVE  /\ OpenAt(off, i) < CloseAt(off, j) <=> i <= j
              /\ CloseAt(off, i) < OpenAt(off, j) <=> i < j
  <2>1. CASE i < j
    BY <1>8, <2>1
  <2>2. CASE i = j
    BY <1>9, <2>2
  <2>3. CASE j < i
    <3>1. OpenAt(off, j) < OpenAt(off, i) /\ CloseAt(off, j) < OpenAt(off, i)
      BY <1>8, <2>3
    <3>2. OpenAt(off, i) < CloseAt(off, i)
      BY <1>9
    <3> QED
      BY <1>9, <2>3, <3>1, <3>2
  <2> QED
    BY <2>1, <2>2, <2>3
<1> QED
  BY <1>1, <1>3, <1>5, <1>6, <1>8, <1>10

\* The places of the escaping backslashes of the stream.
EscapesOf(stream, n, off, X) ==
    {p \in 1..Len(stream) : \E j \in 1..n : p - OpenAt(off, j) \in X[j]}

\* A place of a row escapes as it does in the row.
LEMMA EscapesInRow ==
    ASSUME NEW stream, NEW n, NEW off, NEW out, NEW y, NEW X, NEW g,
           PageLaid(stream, n, off, out, y, X, g),
           NEW j \in 1..n, NEW p \in Nat, off[j - 1] < p, p <= off[j]
    PROVE  p \in EscapesOf(stream, n, off, X) <=> p - OpenAt(off, j) \in X[j]
<1>1. /\ n \in Nat /\ off \in [0..n -> Nat] /\ Len(stream) = off[n] + 1 /\ off[n] \in Nat
      /\ \A k \in 1..n : X[k] \in SUBSET (1..Len(out[k]))
  <2>1. n \in Nat /\ off \in [0..n -> Nat] /\ Len(stream) = off[n] + 1 /\ n \in 0..n
    BY DEF PageLaid
  <2>2. \A k \in 1..n : X[k] \in SUBSET (1..Len(out[k]))
    BY DEF PageLaid, RowLaid, Escapes
  <2> QED
    BY <2>1, <2>2
<1>2. /\ \A k \in 1..n : /\ off[k - 1] \in Nat /\ off[k] \in Nat /\ Len(out[k]) \in Nat
                         /\ off[k] = off[k - 1] + Len(out[k]) + 4 /\ off[k] <= off[n]
      /\ \A i, k \in 0..n : i <= k => off[i] <= off[k]
  BY RowsApart
<1>3. ASSUME p - OpenAt(off, j) \in X[j] PROVE p \in EscapesOf(stream, n, off, X)
  <2>1. p \in 1..Len(stream)
    BY <1>1, <1>2
  <2> QED
    BY <1>3, <2>1 DEF EscapesOf
<1>4. ASSUME p \in EscapesOf(stream, n, off, X) PROVE p - OpenAt(off, j) \in X[j]
  <2>1. PICK k \in 1..n : p - OpenAt(off, k) \in X[k]
    BY <1>4 DEF EscapesOf
  <2>2. p - OpenAt(off, k) \in 1..Len(out[k])
    BY <1>1, <2>1
  <2>3. PICK l : l = Len(out[k])
    OBVIOUS
  <2>4. PICK b : b = off[k - 1]
    OBVIOUS
  <2>5. b \in Nat /\ l \in Nat /\ off[k] = b + l + 4 /\ p - (b + 2) \in 1..l
    BY <1>2, <2>2, <2>3, <2>4 DEF OpenAt
  <2>6. b < p /\ p <= b + l + 4
    BY <2>5
  <2>7. off[k - 1] < p /\ p <= off[k]
    BY <2>4, <2>5, <2>6
  <2>8. \A i \in 0..n : \A m \in 0..n : i <= m => off[i] <= off[m]
    BY <1>2
  <2>9. j = k
    BY <1>1, <2>7, <2>8, PlaceUnique
  <2> QED
    BY <2>1, <2>9
<1> QED
  BY <1>3, <1>4

\* What a place of a row is to a reader.
LEMMA RowReads ==
    ASSUME NEW stream, NEW n, NEW off, NEW out, NEW y, NEW X, NEW g,
           PageLaid(stream, n, off, out, y, X, g),
           NEW j \in 1..n, NEW p \in Nat, off[j - 1] < p, p <= off[j]
    PROVE  LET XS == EscapesOf(stream, n, off, X)
           IN  /\ p \in XS <=> stream[p].t = "\\" /\ p - 1 \notin XS
               /\ stream[p].t = "(" /\ p - 1 \notin XS <=> p = OpenAt(off, j)
               /\ stream[p].t = ")" /\ p - 1 \notin XS <=> p = CloseAt(off, j)
<1> DEFINE XS == EscapesOf(stream, n, off, X)
<1>1. RowLaid(stream, j, off, out, y, X, g)
  BY DEF PageLaid
<1>2. PICK l : l = Len(out[j])
  OBVIOUS
<1>3. PICK b : b = off[j - 1]
  OBVIOUS
<1>4. /\ b \in Nat /\ l \in Nat /\ off[j] = b + l + 4
      /\ OpenAt(off, j) = b + 2 /\ CloseAt(off, j) = b + l + 3
  <2>1. /\ off[j - 1] \in Nat /\ off[j] \in Nat /\ Len(out[j]) \in Nat
        /\ off[j] = off[j - 1] + Len(out[j]) + 4
    BY RowsApart
  <2>2. b \in Nat /\ l \in Nat /\ off[j] = b + l + 4
    BY <1>2, <1>3, <2>1
  <2> QED
    BY <1>3, <2>2 DEF OpenAt, CloseAt
<1>5. \A q \in Nat : b < q /\ q <= b + l + 4 => (q \in XS <=> q - (b + 2) \in X[j])
  BY <1>3, <1>4, EscapesInRow
<1>6. /\ X[j] \in SUBSET (1..l)
      /\ \A q \in X[j] : out[j][q] = Backslash /\ q + 1 \in 1..l /\ q + 1 \notin X[j]
      /\ \A q \in 1..l : q \notin X[j] /\ out[j][q].t \in {"\\", "(", ")"} => q - 1 \in X[j]
  BY <1>1, <1>2 DEF RowLaid, Escapes
<1>7. /\ stream[b + 1] \in {Word("BT"), Word("T*")}
      /\ stream[b + 2] = Word("(")
      /\ \A q \in 1..l : stream[b + 2 + q] = out[j][q]
      /\ stream[b + l + 3] = Word(")") /\ stream[b + l + 4] = Word("Tj")
  <2>1. b + l + 4 - 1 = b + l + 3
    BY <1>4
  <2> QED
    BY <1>1, <1>2, <1>3, <1>4, <2>1 DEF RowLaid
<1>8. \A s : Word(s).t = s
  BY DEF Word
<1>9. Backslash.t = "\\"
  BY DEF Backslash, Word
<1>10. \/ p = b + 1 \/ p = b + 2 \/ (b + 3 <= p /\ p <= b + l + 2) \/ p = b + l + 3
       \/ p = b + l + 4
  <2>1. b < p /\ p <= b + l + 4
    BY <1>3, <1>4
  <2> QED
    BY <1>4, <2>1
<1> HIDE DEF XS
<1> DEFINE Goal == /\ p \in XS <=> stream[p].t = "\\" /\ p - 1 \notin XS
                   /\ stream[p].t = "(" /\ p - 1 \notin XS <=> p = b + 2
                   /\ stream[p].t = ")" /\ p - 1 \notin XS <=> p = b + l + 3
<1> SUFFICES Goal
  BY <1>4 DEF XS
<1>11. CASE p = b + 1
  <2>1. b < p /\ p <= b + l + 4 /\ p - (b + 2) = -1 /\ p # b + 2 /\ p # b + l + 3
    BY <1>4, <1>11
  <2>2. -1 \notin X[j]
    BY <1>4, <1>6
  <2>3. p \notin XS
    BY <1>5, <2>1, <2>2
  <2>4. stream[p].t \notin {"\\", "(", ")"}
    BY <1>7, <1>8, <1>11
  <2> QED
    BY <2>1, <2>3, <2>4
<1>12. CASE p = b + 2
  <2>1. /\ b < p /\ p <= b + l + 4 /\ p - (b + 2) = 0 /\ p # b + l + 3
        /\ b < p - 1 /\ p - 1 <= b + l + 4 /\ p - 1 - (b + 2) = -1 /\ p - 1 \in Nat
    BY <1>4, <1>12
  <2>2. -1 \notin X[j] /\ 0 \notin X[j]
    BY <1>4, <1>6
  <2>3. p \notin XS /\ p - 1 \notin XS
    BY <1>5, <2>1, <2>2
  <2>4. stream[p].t = "("
    BY <1>7, <1>8, <1>12
  <2> QED
    BY <1>12, <2>1, <2>3, <2>4
<1>13. CASE b + 3 <= p /\ p <= b + l + 2
  <2>1. PICK q : q = p - (b + 2)
    OBVIOUS
  <2>2. /\ b < p /\ p <= b + l + 4 /\ p # b + 2 /\ p # b + l + 3 /\ q \in 1..l
        /\ b < p - 1 /\ p - 1 <= b + l + 4 /\ p - 1 - (b + 2) = q - 1 /\ p - 1 \in Nat
        /\ b + 2 + q = p /\ (q - 1) + 1 = q
    BY <1>4, <1>13, <2>1
  <2>3. (p \in XS <=> q \in X[j]) /\ (p - 1 \in XS <=> q - 1 \in X[j])
    BY <1>5, <2>1, <2>2
  <2>4. stream[p] = out[j][q]
    BY <1>7, <2>2
  <2>5. q \in X[j] => stream[p].t = "\\" /\ q - 1 \notin X[j]
    BY <1>6, <1>9, <2>2, <2>4
  <2>6. q \notin X[j] /\ stream[p].t \in {"\\", "(", ")"} => q - 1 \in X[j]
    BY <1>6, <2>2, <2>4
  <2> QED
    BY <2>2, <2>3, <2>5, <2>6
<1>14. CASE p = b + l + 3
  <2>1. /\ b < p /\ p <= b + l + 4 /\ p - (b + 2) = l + 1 /\ p # b + 2
        /\ b < p - 1 /\ p - 1 <= b + l + 4 /\ p - 1 - (b + 2) = l /\ p - 1 \in Nat
    BY <1>4, <1>14
  <2>2. l + 1 \notin X[j] /\ l \notin X[j]
    BY <1>4, <1>6
  <2>3. p \notin XS /\ p - 1 \notin XS
    BY <1>5, <2>1, <2>2
  <2>4. stream[p].t = ")"
    BY <1>7, <1>8, <1>14
  <2> QED
    BY <1>14, <2>1, <2>3, <2>4
<1>15. CASE p = b + l + 4
  <2>1. b < p /\ p <= b + l + 4 /\ p - (b + 2) = l + 2 /\ p # b + 2 /\ p # b + l + 3
    BY <1>4, <1>15
  <2>2. l + 2 \notin X[j]
    BY <1>4, <1>6
  <2>3. p \notin XS
    BY <1>5, <2>1, <2>2
  <2>4. stream[p].t \notin {"\\", "(", ")"}
    BY <1>7, <1>8, <1>15
  <2> QED
    BY <2>1, <2>3, <2>4
<1> QED
  BY <1>10, <1>11, <1>12, <1>13, <1>14, <1>15

\* What a reader makes of the backslashes and parentheses of a page.
LEMMA PageReads ==
    ASSUME NEW stream, NEW n, NEW off, NEW out, NEW y, NEW X, NEW g,
           PageLaid(stream, n, off, out, y, X, g)
    PROVE  LET XS == EscapesOf(stream, n, off, X)
           IN  /\ Escaping({p \in DOMAIN stream : stream[p].t = "\\"}) = XS
               /\ \A p : p \in DOMAIN stream /\ stream[p].t = "(" /\ p - 1 \notin XS
                            <=> \E j \in 1..n : p = OpenAt(off, j)
               /\ \A p : p \in DOMAIN stream /\ stream[p].t = ")" /\ p - 1 \notin XS
                            <=> \E j \in 1..n : p = CloseAt(off, j)
<1> DEFINE XS == EscapesOf(stream, n, off, X)
           slashes == {p \in DOMAIN stream : stream[p].t = "\\"}
<1>1. /\ n \in Nat /\ off \in [0..n -> Nat] /\ off[0] = 0 /\ Len(stream) = off[n] + 1
      /\ off[n] \in Nat /\ AList(stream) /\ stream[off[n] + 1] = Word("ET")
  BY DEF PageLaid
<1>2. DOMAIN stream = 1..Len(stream) /\ Len(stream) \in Nat
  BY <1>1, ListIsSeq
<1>3. \A k \in 1..n : /\ off[k - 1] \in Nat /\ off[k] \in Nat /\ Len(out[k]) \in Nat
                      /\ off[k] = off[k - 1] + Len(out[k]) + 4 /\ off[k] <= off[n]
  BY RowsApart
<1>4. ASSUME NEW p \in 1..Len(stream), p > off[n]
      PROVE  /\ p \notin XS /\ stream[p].t \notin {"\\", "(", ")"}
             /\ \A j \in 1..n : p # OpenAt(off, j) /\ p # CloseAt(off, j)
  <2>1. p = off[n] + 1
    BY <1>1, <1>4
  <2>2. stream[p].t \notin {"\\", "(", ")"}
    BY <1>1, <2>1 DEF Word
  <2>3. ASSUME NEW j \in 1..n
        PROVE  p # OpenAt(off, j) /\ p # CloseAt(off, j) /\ p - OpenAt(off, j) \notin X[j]
    <3>1. PICK l : l = Len(out[j])
      OBVIOUS
    <3>2. PICK b : b = off[j - 1]
      OBVIOUS
    <3>3. /\ b \in Nat /\ l \in Nat /\ b + l + 4 <= off[n]
          /\ OpenAt(off, j) = b + 2 /\ CloseAt(off, j) = off[j] - 1 /\ off[j] = b + l + 4
      BY <1>3, <3>1, <3>2 DEF OpenAt, CloseAt
    <3>4. p # b + 2 /\ p # (b + l + 4) - 1 /\ ~ (p - (b + 2) \in 1..l)
      BY <1>1, <1>4, <3>3
    <3>5. X[j] \in SUBSET (1..l)
      BY <3>1 DEF PageLaid, RowLaid, Escapes
    <3> QED
      BY <3>3, <3>4, <3>5
  <2> QED
    BY <2>2, <2>3 DEF EscapesOf
<1>5. ASSUME NEW p \in 1..Len(stream), ~ (p > off[n])
      PROVE  \E j \in 1..n : off[j - 1] < p /\ p <= off[j]
  <2>1. p \in 1..off[n]
    BY <1>1, <1>5
  <2> QED
    BY <1>1, <2>1, PlaceCovered
<1>6. ASSUME NEW j \in 1..n
      PROVE  /\ OpenAt(off, j) \in Nat /\ off[j - 1] < OpenAt(off, j) /\ OpenAt(off, j) <= off[j]
             /\ CloseAt(off, j) \in Nat /\ off[j - 1] < CloseAt(off, j) /\ CloseAt(off, j) <= off[j]
             /\ OpenAt(off, j) \in 1..Len(stream) /\ CloseAt(off, j) \in 1..Len(stream)
  <2>1. PICK l : l = Len(out[j])
    OBVIOUS
  <2>2. PICK b : b = off[j - 1]
    OBVIOUS
  <2>3. PICK e : e = off[n]
    OBVIOUS
  <2>4. /\ b \in Nat /\ l \in Nat /\ off[j] = b + l + 4 /\ b + l + 4 <= e /\ e \in Nat
        /\ OpenAt(off, j) = b + 2 /\ CloseAt(off, j) = (b + l + 4) - 1 /\ Len(stream) = e + 1
    BY <1>1, <1>3, <2>1, <2>2, <2>3 DEF OpenAt, CloseAt
  <2>5. PICK o : o = b + 2
    OBVIOUS
  <2>6. PICK c : c = (b + l + 4) - 1
    OBVIOUS
  <2>7. /\ o \in Nat /\ b < o /\ o <= b + l + 4 /\ o \in 1..(e + 1)
        /\ c \in Nat /\ b < c /\ c <= b + l + 4 /\ c \in 1..(e + 1)
    BY <2>4, <2>5, <2>6
  <2> QED
    BY <2>2, <2>4, <2>5, <2>6, <2>7
<1>7. ASSUME NEW p \in 1..Len(stream)
      PROVE  p \in XS <=> p \in slashes /\ p - 1 \notin XS
  <2>1. CASE p > off[n]
    BY <1>4, <2>1
  <2>2. CASE ~ (p > off[n])
    <3>1. PICK j \in 1..n : off[j - 1] < p /\ p <= off[j]
      BY <1>5, <2>2
    <3>2. p \in XS <=> stream[p].t = "\\" /\ p - 1 \notin XS
      BY <3>1, RowReads
    <3> QED
      BY <1>2, <3>2
  <2> QED
    BY <2>1, <2>2
<1>8. XS \in SUBSET (1..Len(stream)) /\ slashes \in SUBSET (1..Len(stream))
  BY <1>2 DEF EscapesOf
<1>9. Escaping(slashes) = XS
  <2> HIDE DEF slashes, XS
  <2> QED
    BY <1>2, <1>7, <1>8, EscapingIs
<1>10. ASSUME NEW j \in 1..n
       PROVE  /\ stream[OpenAt(off, j)].t = "(" /\ OpenAt(off, j) - 1 \notin XS
              /\ stream[CloseAt(off, j)].t = ")" /\ CloseAt(off, j) - 1 \notin XS
  BY <1>6, RowReads
<1>11. ASSUME NEW p \in 1..Len(stream), p - 1 \notin XS
       PROVE  /\ stream[p].t = "(" => \E j \in 1..n : p = OpenAt(off, j)
              /\ stream[p].t = ")" => \E j \in 1..n : p = CloseAt(off, j)
  <2>1. CASE p > off[n]
    BY <1>4, <2>1
  <2>2. CASE ~ (p > off[n])
    <3>1. PICK j \in 1..n : off[j - 1] < p /\ p <= off[j]
      BY <1>5, <2>2
    <3>2. /\ stream[p].t = "(" => p = OpenAt(off, j)
          /\ stream[p].t = ")" => p = CloseAt(off, j)
      BY <1>11, <3>1, RowReads
    <3> QED
      BY <3>2
  <2> QED
    BY <2>1, <2>2
<1> HIDE DEF XS
<1>12. /\ \A p : p \in DOMAIN stream /\ stream[p].t = "(" /\ p - 1 \notin XS
                    <=> \E j \in 1..n : p = OpenAt(off, j)
       /\ \A p : p \in DOMAIN stream /\ stream[p].t = ")" /\ p - 1 \notin XS
                    <=> \E j \in 1..n : p = CloseAt(off, j)
  BY <1>2, <1>6, <1>10, <1>11
<1> QED
  BY <1>9, <1>12 DEF XS

\* What a reader finds between two parentheses.
CharsBetween(stream, esc, open, close) ==
    ForEach([c \in 1..(close - open - 1) |-> open + c],
            LAMBDA k : IF k \in esc THEN <<>> ELSE <<stream[k]>>)

\* Between its parentheses a reader finds the characters of a row.
LEMMA RowChars ==
    ASSUME NEW stream, NEW n, NEW off, NEW out, NEW y, NEW X, NEW g,
           PageLaid(stream, n, off, out, y, X, g), NEW j \in 1..n
    PROVE  CharsBetween(stream, EscapesOf(stream, n, off, X), OpenAt(off, j), CloseAt(off, j))
             = y[j]
<1> DEFINE XS == EscapesOf(stream, n, off, X)
<1>1. PICK l : l = Len(out[j])
  OBVIOUS
<1>2. PICK b : b = off[j - 1]
  OBVIOUS
<1>3. PICK open : open = OpenAt(off, j)
  OBVIOUS
<1>4. PICK v : v = y[j]
  OBVIOUS
<1>5. PICK gj : gj = g[j]
  OBVIOUS
<1>6. /\ b \in Nat /\ l \in Nat /\ off[j] = b + l + 4
      /\ open = b + 2 /\ CloseAt(off, j) - open - 1 = l
  <2>1. /\ off[j - 1] \in Nat /\ off[j] \in Nat /\ Len(out[j]) \in Nat
        /\ off[j] = off[j - 1] + Len(out[j]) + 4
    BY RowsApart
  <2>2. b \in Nat /\ l \in Nat /\ off[j] = b + l + 4
    BY <1>1, <1>2, <2>1
  <2>3. open = b + 2 /\ CloseAt(off, j) = (b + l + 4) - 1
    BY <1>2, <1>3, <2>2 DEF OpenAt, CloseAt
  <2> QED
    BY <2>2, <2>3
<1>7. \A q \in 1..l : open + q \in XS <=> q \in X[j]
  <2> TAKE q \in 1..l
  <2>1. PICK p : p = open + q
    OBVIOUS
  <2>2. p \in Nat /\ b < p /\ p <= b + l + 4 /\ p - open = q
    BY <1>6, <2>1
  <2>3. off[j - 1] < p /\ p <= off[j]
    BY <1>2, <1>6, <2>2
  <2>4. p \in XS <=> p - OpenAt(off, j) \in X[j]
    BY <2>2, <2>3, EscapesInRow
  <2> QED
    BY <1>3, <2>1, <2>2, <2>4
<1>8. \A q \in 1..l : stream[open + q] = out[j][q]
  BY <1>1, <1>2, <1>6 DEF PageLaid, RowLaid
<1>9. /\ AList(v) /\ gj \in [1..Len(v) -> 1..l]
      /\ \A i, k \in 1..Len(v) : i < k => gj[i] < gj[k]
      /\ \A k \in 1..Len(v) : out[j][gj[k]] = v[k] /\ gj[k] \notin X[j]
      /\ \A q \in 1..l : q \in X[j] \/ \E k \in 1..Len(v) : q = gj[k]
  <2>1. Escapes(out[j], y[j], X[j], g[j])
    BY DEF PageLaid, RowLaid
  <2> QED
    BY <1>1, <1>4, <1>5, <2>1 DEF Escapes
<1> HIDE DEF XS
<1> DEFINE places == [c \in 1..l |-> open + c]
           pieces == [c \in 1..l |-> IF open + c \in XS THEN <<>> ELSE <<stream[open + c]>>]
<1>10. AList(pieces) /\ Len(pieces) = l
       /\ \A c \in 1..l : pieces[c] = IF open + c \in XS THEN <<>> ELSE <<stream[open + c]>>
  BY <1>6, FunctionIsList
<1>11. ForEach(places, LAMBDA k : IF k \in XS THEN <<>> ELSE <<stream[k]>>) = FlattenSeq(pieces)
  <2>1. [i \in DOMAIN places |-> IF places[i] \in XS THEN <<>> ELSE <<stream[places[i]]>>] = pieces
    OBVIOUS
  <2> HIDE DEF places, pieces
  <2> QED
    BY <2>1 DEF ForEach
<1> HIDE DEF pieces
<1>12. Chosen(pieces, gj, v)
  <2>1. \A k \in 1..Len(v) : pieces[gj[k]] = <<v[k]>>
    BY <1>7, <1>8, <1>9, <1>10
  <2>2. \A c \in 1..l : (\E k \in 1..Len(v) : c = gj[k]) \/ pieces[c] = <<>>
    BY <1>7, <1>9, <1>10
  <2> QED
    BY <1>9, <1>10, <2>1, <2>2 DEF Chosen
<1>13. FlattenSeq(pieces) = v
  BY <1>12, FlattenChosen
<1>14. CharsBetween(stream, XS, OpenAt(off, j), CloseAt(off, j)) = y[j]
  <2>1. [c \in 1..(CloseAt(off, j) - OpenAt(off, j) - 1) |-> OpenAt(off, j) + c] = places
    BY <1>3, <1>6
  <2> HIDE DEF places
  <2>2. FlattenSeq(pieces) = y[j]
    BY <1>4, <1>13
  <2> QED
    BY <1>11, <2>1, <2>2 DEF CharsBetween
<1> QED
  BY <1>14 DEF XS

\* A stream of rows shows the characters of each.
LEMMA PageShown ==
    ASSUME NEW stream, NEW n, NEW off, NEW out, NEW y, NEW X, NEW g,
           PageLaid(stream, n, off, out, y, X, g)
    PROVE  RowsShown(stream) = [j \in 1..n |-> y[j]]
<1> DEFINE slashes == {i \in DOMAIN stream : stream[i].t = "\\"}
           esc == Escaping(slashes)
           opens == {i \in DOMAIN stream : stream[i].t = "(" /\ i - 1 \notin esc}
           closes == {i \in DOMAIN stream : stream[i].t = ")" /\ i - 1 \notin esc}
           Depth(i) == Cardinality({j \in opens : j < i}) - Cardinality({j \in closes : j < i})
           strings == PlacesOf(stream, LAMBDA i : i \in opens /\ Depth(i) = 0)
           End(i) == Min({j \in closes : j > i /\ Depth(j) = 1})
           IsShown(i) == /\ stream[End(i) + 1] = Word("Tj")
                         /\ stream[End(i) + 2] \in {Word("T*"), Word("ET")}
           Chars(i) == ForEach([c \in 1..(End(i) - i - 1) |-> i + c],
                               LAMBDA k : IF k \in esc THEN <<>> ELSE <<stream[k]>>)
           rows == [row \in DOMAIN strings |->
                      IF IsShown(strings[row]) THEN Chars(strings[row]) ELSE <<Word("not shown")>>]
           open == [j \in 1..n |-> OpenAt(off, j)]
           close == [j \in 1..n |-> CloseAt(off, j)]
<1>1. RowsShown(stream) = rows
  BY DEF RowsShown, Escaping, RunStart
<1>2. /\ n \in Nat /\ off \in [0..n -> Nat] /\ off[0] = 0 /\ Len(stream) = off[n] + 1
      /\ AList(stream) /\ stream[off[n] + 1] = Word("ET")
  BY DEF PageLaid
<1>3. DOMAIN stream = 1..Len(stream) /\ Len(stream) \in Nat
  BY <1>2, ListIsSeq
<1>4. /\ esc = EscapesOf(stream, n, off, X)
      /\ \A p : p \in opens <=> \E j \in 1..n : p = OpenAt(off, j)
      /\ \A p : p \in closes <=> \E j \in 1..n : p = CloseAt(off, j)
  <2> DEFINE XS == EscapesOf(stream, n, off, X)
  <2>1. /\ esc = XS
        /\ \A p : p \in DOMAIN stream /\ stream[p].t = "(" /\ p - 1 \notin XS
                    <=> \E j \in 1..n : p = OpenAt(off, j)
        /\ \A p : p \in DOMAIN stream /\ stream[p].t = ")" /\ p - 1 \notin XS
                    <=> \E j \in 1..n : p = CloseAt(off, j)
    BY PageReads
  <2> HIDE DEF esc, XS
  <2>2. \A p : p \in opens <=> p \in DOMAIN stream /\ stream[p].t = "(" /\ p - 1 \notin XS
    BY <2>1
  <2>3. \A p : p \in closes <=> p \in DOMAIN stream /\ stream[p].t = ")" /\ p - 1 \notin XS
    BY <2>1
  <2> HIDE DEF opens, closes
  <2>4. esc = EscapesOf(stream, n, off, X)
    BY <2>1 DEF XS
  <2> QED
    BY <2>1, <2>2, <2>3, <2>4
<1>5. /\ \A p : p \in opens <=> \E j \in 1..n : p = open[j]
      /\ \A p : p \in closes <=> \E j \in 1..n : p = close[j]
      /\ opens \in SUBSET (1..Len(stream)) /\ closes \in SUBSET (1..Len(stream))
  BY <1>3, <1>4
<1>6. /\ \A j \in 1..n : open[j] \in Nat /\ close[j] \in Nat
                         /\ open[j] = OpenAt(off, j) /\ close[j] = CloseAt(off, j)
      /\ \A i, j \in 1..n : i < j => open[i] < open[j]
      /\ \A i, j \in 1..n : i < j => close[i] < close[j]
      /\ \A i, j \in 1..n : open[i] < close[j] <=> i <= j
      /\ \A i, j \in 1..n : close[i] < open[j] <=> i < j
  <2>1. \A j \in 1..n : OpenAt(off, j) \in opens /\ CloseAt(off, j) \in closes
    BY <1>4
  <2>2. \A j \in 1..n : OpenAt(off, j) \in Nat /\ CloseAt(off, j) \in Nat
    <3> HIDE DEF opens, closes
    <3>1. opens \in SUBSET Nat /\ closes \in SUBSET Nat
      BY <1>3, <1>5
    <3> QED
      BY <2>1, <3>1
  <2> QED
    BY <2>2, RowsApart
<1>7. open \in [1..n -> Nat] /\ close \in [1..n -> Nat]
  BY <1>6
<1> HIDE DEF esc, opens, closes, open, close, slashes
<1>8. ASSUME NEW j \in 1..n
      PROVE  /\ Cardinality({p \in opens : p < open[j]}) = j - 1
             /\ Cardinality({p \in closes : p < open[j]}) = j - 1
             /\ Cardinality({p \in opens : p < close[j]}) = j
             /\ Cardinality({p \in closes : p < close[j]}) = j - 1
  <2>0. Rising(n, open, opens) /\ Rising(n, close, closes)
    BY <1>5, <1>6, <1>7 DEF Rising
  <2>1. j \in 0..n /\ j - 1 \in 0..n
    BY <1>2
  <2>2. \A k \in 1..n : k < j <=> k <= j - 1
    BY <1>2
  <2>3. \A i, k \in 1..n : k < i \/ k = i \/ i < k
    BY <1>2
  <2>4. \A k \in 1..n : open[k] < open[j] <=> k <= j - 1
    BY <1>6, <2>2, <2>3
  <2>5. \A k \in 1..n : close[k] < close[j] <=> k <= j - 1
    BY <1>6, <2>2, <2>3
  <2>6. \A k \in 1..n : close[k] < open[j] <=> k <= j - 1
    BY <1>6, <2>2
  <2>7. \A k \in 1..n : open[k] < close[j] <=> k <= j
    BY <1>6
  <2>8. Cardinality({p \in opens : p < open[j]}) = j - 1
    <3>1. FirstBelow(n, open, j - 1, open[j])
      BY <2>1, <2>4 DEF FirstBelow
    <3>2. Cardinality(Below(opens, open[j])) = j - 1
      BY <1>2, <2>0, <3>1, CountBelow
    <3> QED
      BY <3>2 DEF Below
  <2>9. Cardinality({p \in closes : p < open[j]}) = j - 1
    <3>1. FirstBelow(n, close, j - 1, open[j])
      BY <2>1, <2>6 DEF FirstBelow
    <3>2. Cardinality(Below(closes, open[j])) = j - 1
      BY <1>2, <2>0, <3>1, CountBelow
    <3> QED
      BY <3>2 DEF Below
  <2>10. Cardinality({p \in opens : p < close[j]}) = j
    <3>1. FirstBelow(n, open, j, close[j])
      BY <2>1, <2>7 DEF FirstBelow
    <3>2. Cardinality(Below(opens, close[j])) = j
      BY <1>2, <2>0, <3>1, CountBelow
    <3> QED
      BY <3>2 DEF Below
  <2>11. Cardinality({p \in closes : p < close[j]}) = j - 1
    <3>1. FirstBelow(n, close, j - 1, close[j])
      BY <2>1, <2>5 DEF FirstBelow
    <3>2. Cardinality(Below(closes, close[j])) = j - 1
      BY <1>2, <2>0, <3>1, CountBelow
    <3> QED
      BY <3>2 DEF Below
  <2> QED
    BY <2>8, <2>9, <2>10, <2>11
<1>9. \A j \in 1..n : Depth(open[j]) = 0 /\ Depth(close[j]) = 1
  <2> TAKE j \in 1..n
  <2>1. (j - 1) - (j - 1) = 0 /\ j - (j - 1) = 1
    BY <1>2
  <2> QED
    BY <1>8, <2>1
<1> HIDE DEF Depth
<1>10. ASSUME NEW j \in 1..n PROVE End(open[j]) = close[j]
  <2> DEFINE S == {p \in closes : p > open[j] /\ Depth(p) = 1}
  <2>1. S \in SUBSET (1..Len(stream))
    BY <1>5
  <2>2. close[j] \in S
    <3>1. close[j] > open[j]
      BY <1>6
    <3> QED
      BY <1>5, <1>9, <3>1
  <2>3. ASSUME NEW p \in S PROVE close[j] <= p
    <3>1. PICK k \in 1..n : p = close[k]
      BY <1>5
    <3>2. open[j] < close[k]
      BY <1>6, <3>1
    <3>3. j < k \/ j = k
      BY <1>6, <3>2
    <3> QED
      BY <1>6, <3>1, <3>3
  <2> HIDE DEF S
  <2>4. Min(S) = close[j]
    BY <1>3, <2>1, <2>2, <2>3, MinIs
  <2> QED
    BY <2>4 DEF S
<1>11. strings = open
  <2> DEFINE pieces == [i \in DOMAIN stream |-> IF i \in opens /\ Depth(i) = 0 THEN <<i>> ELSE <<>>]
  <2>1. strings = FlattenSeq(pieces)
    BY DEF PlacesOf
  <2>2. AList(pieces) /\ Len(pieces) = Len(stream)
        /\ \A i \in 1..Len(stream) : pieces[i] = IF i \in opens /\ Depth(i) = 0 THEN <<i>> ELSE <<>>
    BY <1>3, FunctionIsList
  <2> HIDE DEF pieces
  <2>3. AList(open) /\ Len(open) = n
    BY <1>2, FunctionIsList DEF open
  <2>4. open \in [1..n -> 1..Len(stream)]
    BY <1>5, <1>7
  <2>5. \A k \in 1..n : pieces[open[k]] = <<open[k]>>
    BY <1>5, <1>9, <2>2, <2>4
  <2>6. \A i \in 1..Len(stream) : (\E k \in 1..n : i = open[k]) \/ pieces[i] = <<>>
    BY <1>5, <2>2
  <2>7. Chosen(pieces, open, open)
    BY <1>6, <2>2, <2>3, <2>4, <2>5, <2>6 DEF Chosen
  <2> QED
    BY <2>1, <2>7, FlattenChosen
<1> HIDE DEF strings
<1>12. ASSUME NEW j \in 1..n PROVE IsShown(open[j])
  <2>1. stream[off[j] - 1 + 1] = Word("Tj") /\ off[j] - 1 + 1 = off[j] /\ off[j] - 1 + 2 = off[j] + 1
    <3>1. off[j] \in Nat
      BY RowsApart
    <3>2. off[j] - 1 + 1 = off[j] /\ off[j] - 1 + 2 = off[j] + 1
      BY <3>1
    <3> QED
      BY <3>2 DEF PageLaid, RowLaid
  <2>2. close[j] = off[j] - 1
    BY <1>6 DEF CloseAt
  <2>3. stream[off[j] + 1] \in {Word("T*"), Word("ET")}
    <3>1. CASE j = n
      BY <1>2, <3>1
    <3>2. CASE j # n
      <4>1. j + 1 \in 1..n /\ (j + 1) - 1 = j /\ j + 1 # 1
        BY <1>2, <3>2
      <4>2. RowLaid(stream, j + 1, off, out, y, X, g)
        BY <4>1 DEF PageLaid
      <4> QED
        BY <4>1, <4>2 DEF RowLaid
    <3> QED
      BY <3>1, <3>2
  <2>4. End(open[j]) = off[j] - 1
    BY <1>10, <2>2
  <2> HIDE DEF End
  <2> QED
    BY <2>1, <2>3, <2>4
<1>13. ASSUME NEW j \in 1..n PROVE Chars(open[j]) = y[j]
  <2>1. End(open[j]) = CloseAt(off, j) /\ open[j] = OpenAt(off, j)
    BY <1>6, <1>10
  <2>2. esc = EscapesOf(stream, n, off, X)
    BY <1>4
  <2> HIDE DEF End
  <2>3. CharsBetween(stream, esc, OpenAt(off, j), CloseAt(off, j)) = y[j]
    BY <2>2, RowChars
  <2>4. Chars(open[j]) = CharsBetween(stream, esc, open[j], End(open[j]))
    BY DEF CharsBetween
  <2> QED
    BY <2>1, <2>3, <2>4
<1> HIDE DEF IsShown, Chars
<1>14. DOMAIN strings = 1..n
  BY <1>7, <1>11
<1>15. rows = [j \in 1..n |-> y[j]]
  BY <1>11, <1>12, <1>13, <1>14
<1> QED
  BY <1>1, <1>15

-----------------------------------------------------------------------------
\* What is written between two words before it and two after it.
Between(e, a, b, c, d) == <<a>> \o (<<b>> \o e \o <<c, d>>)

\* What stands between two tokens before it and two behind it.
LEMMA Bracketed ==
    ASSUME NEW e, AList(e), NEW a, NEW b, NEW c, NEW d
    PROVE  LET s == Between(e, a, b, c, d)
           IN  /\ AList(s) /\ Len(s) = Len(e) + 4 /\ s[1] = a /\ s[2] = b
               /\ \A q \in 1..Len(e) : s[2 + q] = e[q]
               /\ s[Len(e) + 3] = c /\ s[Len(e) + 4] = d
<1> DEFINE s == Between(e, a, b, c, d)
           be == <<b>> \o e
           inner == be \o <<c, d>>
<1>0. Len(e) \in Nat
  BY DEF AList
<1>1. AList(<<a>>) /\ Len(<<a>>) = 1 /\ <<a>>[1] = a /\ AList(<<b>>) /\ Len(<<b>>) = 1 /\ <<b>>[1] = b
      /\ AList(<<c, d>>) /\ Len(<<c, d>>) = 2 /\ <<c, d>>[1] = c /\ <<c, d>>[2] = d
  BY DEF AList
<1>2. AList(be) /\ Len(be) = 1 + Len(e) /\ be[1] = b /\ \A q \in 1..Len(e) : be[1 + q] = e[q]
  <2>1. AList(<<b>>) /\ AList(e)
    BY <1>1
  <2>2. /\ AList(<<b>> \o e) /\ Len(<<b>> \o e) = Len(<<b>>) + Len(e)
        /\ \A i \in 1..Len(<<b>>) : (<<b>> \o e)[i] = <<b>>[i]
        /\ \A i \in 1..Len(e) : (<<b>> \o e)[Len(<<b>>) + i] = e[i]
    BY ONLY <2>1, ListsJoined
  <2> QED
    BY <1>1, <2>2
<1> HIDE DEF be
<1>3. /\ AList(inner) /\ Len(inner) = Len(e) + 3 /\ inner[1] = b
      /\ \A q \in 1..Len(e) : inner[1 + q] = e[q]
      /\ inner[Len(e) + 2] = c /\ inner[Len(e) + 3] = d
  <2>1. AList(be) /\ AList(<<c, d>>)
    BY <1>1, <1>2
  <2>2. /\ AList(be \o <<c, d>>) /\ Len(be \o <<c, d>>) = Len(be) + Len(<<c, d>>)
        /\ \A i \in 1..Len(be) : (be \o <<c, d>>)[i] = be[i]
        /\ \A i \in 1..Len(<<c, d>>) : (be \o <<c, d>>)[Len(be) + i] = <<c, d>>[i]
    BY ONLY <2>1, ListsJoined
  <2>3. inner[1] = b /\ \A q \in 1..Len(e) : inner[1 + q] = e[q]
    <3>1. 1 \in 1..Len(be) /\ \A q \in 1..Len(e) : 1 + q \in 1..Len(be)
      BY <1>0, <1>2
    <3> QED
      BY <1>2, <2>2, <3>1
  <2>4. inner[Len(e) + 2] = c /\ inner[Len(e) + 3] = d
    <3>1. Len(be) + 1 = Len(e) + 2 /\ Len(be) + 2 = Len(e) + 3 /\ 1 \in 1..2 /\ 2 \in 1..2
      BY <1>0, <1>2
    <3> QED
      BY <1>1, <2>2, <3>1
  <2>5. Len(inner) = Len(e) + 3
    BY <1>0, <1>1, <1>2, <2>2
  <2> QED
    BY <2>2, <2>3, <2>4, <2>5
<1> HIDE DEF inner
<1>4. /\ AList(<<a>> \o inner) /\ Len(<<a>> \o inner) = 1 + Len(inner) /\ (<<a>> \o inner)[1] = a
      /\ \A i \in 1..Len(inner) : (<<a>> \o inner)[1 + i] = inner[i]
  <2>1. AList(<<a>>) /\ AList(inner)
    BY <1>1, <1>3
  <2>2. /\ AList(<<a>> \o inner) /\ Len(<<a>> \o inner) = Len(<<a>>) + Len(inner)
        /\ \A i \in 1..Len(<<a>>) : (<<a>> \o inner)[i] = <<a>>[i]
        /\ \A i \in 1..Len(inner) : (<<a>> \o inner)[Len(<<a>>) + i] = inner[i]
    BY ONLY <2>1, ListsJoined
  <2> QED
    BY <1>1, <2>2
<1>5. s = <<a>> \o inner
  BY DEF Between, inner, be
<1> HIDE DEF s
<1>6. /\ 1 \in 1..Len(inner) /\ 1 + 1 = 2
      /\ Len(e) + 2 \in 1..Len(inner) /\ 1 + (Len(e) + 2) = Len(e) + 3
      /\ Len(e) + 3 \in 1..Len(inner) /\ 1 + (Len(e) + 3) = Len(e) + 4
      /\ \A q \in 1..Len(e) : 1 + q \in 1..Len(inner) /\ 1 + (1 + q) = 2 + q
  BY <1>0, <1>3
<1>7. /\ AList(s) /\ Len(s) = Len(e) + 4 /\ s[1] = a /\ s[2] = b
      /\ \A q \in 1..Len(e) : s[2 + q] = e[q]
      /\ s[Len(e) + 3] = c /\ s[Len(e) + 4] = d
  BY <1>0, <1>3, <1>4, <1>5, <1>6
<1> QED
  BY <1>7 DEF s

\* A list of texts.
Texts(list) == AList(list) /\ \A i \in 1..Len(list) : Tokens(list[i])

\* The content stream of a page is laid out so.
LEMMA StreamLaid ==
    ASSUME NEW page, Texts(page)
    PROVE  \E off, out, y, X, g :
              /\ PageLaid(PageStream(page), Len(page), off, out, y, X, g)
              /\ \A j \in 1..Len(page) : y[j] = Folded(page[j])
<1> DEFINE n == Len(page)
           lead(j) == IF j = 1 THEN "BT" ELSE "T*"
           pieces == [j \in 1..n |-> <<Word(lead(j))>> \o Shown(page[j])]
           y == [j \in 1..n |-> Folded(page[j])]
           out == [j \in 1..n |-> PdfEscape(page[j])]
           X == [j \in 1..n |-> CHOOSE x : \E g : Escapes(out[j], y[j], x, g)]
           g == [j \in 1..n |-> CHOOSE h : Escapes(out[j], y[j], X[j], h)]
<1>1. n \in Nat /\ DOMAIN page = 1..n /\ \A j \in 1..n : Tokens(page[j])
  BY ListIsSeq DEF Texts, AList
<1>2. \A j \in 1..n : y[j] = Folded(page[j]) /\ out[j] = PdfEscape(page[j])
  OBVIOUS
<1>3. \A j \in 1..n : Escapes(out[j], y[j], X[j], g[j])
  <2> TAKE j \in 1..n
  <2>1. \E x, h : Escapes(out[j], y[j], x, h)
    BY <1>1, <1>2, EscapePlaces
  <2> HIDE DEF out, y
  <2>2. \E h : Escapes(out[j], y[j], X[j], h)
    BY <2>1
  <2> HIDE DEF X
  <2> QED
    BY <2>2
<1> HIDE DEF X, g
<1>4. AList(pieces) /\ Len(pieces) = n
      /\ \A j \in 1..n : pieces[j] = <<Word(lead(j))>> \o Shown(page[j])
  BY <1>1, FunctionIsList
<1>5. PageStream(page) = FlattenSeq(pieces) \o <<Word("ET")>>
  BY <1>1 DEF PageStream
<1> HIDE DEF pieces, out, y, n
<1>6. ASSUME NEW j \in 1..n
      PROVE  /\ AList(out[j]) /\ Len(out[j]) \in Nat
             /\ AList(pieces[j]) /\ Len(pieces[j]) = Len(out[j]) + 4
             /\ pieces[j][1] = Word(lead(j)) /\ pieces[j][2] = Word("(")
             /\ \A q \in 1..Len(out[j]) : pieces[j][2 + q] = out[j][q]
             /\ pieces[j][Len(out[j]) + 3] = Word(")") /\ pieces[j][Len(out[j]) + 4] = Word("Tj")
  <2>1. AList(out[j]) /\ Len(out[j]) \in Nat
    BY <1>3 DEF Escapes, AList
  <2> DEFINE s == Between(out[j], Word(lead(j)), Word("("), Word(")"), Word("Tj"))
  <2>2. pieces[j] = s
    BY <1>2, <1>4 DEF Shown, Between
  <2>3. /\ AList(s) /\ Len(s) = Len(out[j]) + 4 /\ s[1] = Word(lead(j)) /\ s[2] = Word("(")
        /\ \A q \in 1..Len(out[j]) : s[2 + q] = out[j][q]
        /\ s[Len(out[j]) + 3] = Word(")") /\ s[Len(out[j]) + 4] = Word("Tj")
    BY <2>1, Bracketed
  <2> HIDE DEF s
  <2> QED
    BY <2>1, <2>2, <2>3
<1>7. EachAList(pieces, n)
  BY <1>6 DEF EachAList
<1>8. PICK off : Laid(FlattenSeq(pieces), pieces, off, n)
  BY <1>4, <1>7, FlattenLaid
<1> DEFINE flat == FlattenSeq(pieces)
           stream == flat \o <<Word("ET")>>
<1>9. /\ off \in [0..n -> Nat] /\ off[0] = 0
      /\ \A i \in 1..n : off[i] = off[i - 1] + Len(pieces[i])
      /\ AList(flat) /\ Len(flat) = off[n]
      /\ \A i \in 1..n : \A j \in 1..Len(pieces[i]) : flat[off[i - 1] + j] = pieces[i][j]
  BY <1>8 DEF Laid
<1>10. \A i \in 1..n : /\ off[i - 1] \in Nat /\ off[i] \in Nat /\ Len(pieces[i]) \in Nat
                       /\ off[i] = off[i - 1] + Len(pieces[i]) /\ off[i] <= Len(flat)
  BY <1>1, <1>7, <1>8, LaidPlaces
<1>11. /\ AList(stream) /\ Len(stream) = Len(flat) + 1
       /\ \A p \in 1..Len(flat) : stream[p] = flat[p]
       /\ stream[Len(flat) + 1] = Word("ET")
  <2>1. AList(flat) /\ AList(<<Word("ET")>>)
    BY <1>9 DEF AList
  <2> DEFINE last == <<Word("ET")>>
  <2>2. AList(last) /\ Len(last) = 1 /\ last[1] = Word("ET")
    BY DEF AList
  <2> HIDE DEF flat, last
  <2>3. AList(flat) /\ AList(last)
    BY <2>1, <2>2
  <2>4. /\ AList(flat \o last) /\ Len(flat \o last) = Len(flat) + Len(last)
        /\ \A i \in 1..Len(flat) : (flat \o last)[i] = flat[i]
        /\ \A i \in 1..Len(last) : (flat \o last)[Len(flat) + i] = last[i]
    BY ONLY <2>3, ListsJoined
  <2> QED
    BY <2>2, <2>4 DEF last
<1> HIDE DEF flat, stream
<1>12. ASSUME NEW j \in 1..n, NEW q \in 1..Len(pieces[j])
       PROVE  stream[off[j - 1] + q] = pieces[j][q]
  <2>1. off[j - 1] + q \in 1..Len(flat)
    BY <1>9, <1>10
  <2> QED
    BY <1>9, <1>11, <2>1
<1>13. ASSUME NEW j \in 1..n
       PROVE  RowLaid(stream, j, off, out, y, X, g)
  <2>1. PICK l : l = Len(out[j])
    OBVIOUS
  <2>2. PICK b : b = off[j - 1]
    OBVIOUS
  <2>3. b \in Nat /\ l \in Nat /\ Len(pieces[j]) = l + 4 /\ off[j] = b + l + 4
    BY <1>6, <1>10, <2>1, <2>2
  <2>4. \A q \in 1..(l + 4) : stream[b + q] = pieces[j][q]
    BY <1>12, <2>2, <2>3
  <2>5. /\ 1 \in 1..(l + 4) /\ 2 \in 1..(l + 4) /\ l + 3 \in 1..(l + 4) /\ l + 4 \in 1..(l + 4)
        /\ b + (l + 3) = off[j] - 1 /\ b + (l + 4) = off[j]
        /\ \A q \in 1..l : 2 + q \in 1..(l + 4) /\ b + (2 + q) = b + 2 + q
    BY <2>3
  <2>6. /\ stream[b + 1] = Word(lead(j)) /\ stream[b + 2] = Word("(")
        /\ stream[off[j] - 1] = Word(")") /\ stream[off[j]] = Word("Tj")
    BY <1>6, <2>1, <2>4, <2>5
  <2>7. \A q \in 1..l : stream[b + 2 + q] = out[j][q]
    BY <1>6, <2>1, <2>4, <2>5
  <2>8. off[j] = off[j - 1] + Len(out[j]) + 4
    BY <2>1, <2>2, <2>3
  <2> QED
    BY <1>3, <2>1, <2>2, <2>6, <2>7, <2>8 DEF RowLaid
<1>14. PageLaid(stream, n, off, out, y, X, g)
  BY <1>1, <1>9, <1>11, <1>13 DEF PageLaid
<1> QED
  BY <1>2, <1>5, <1>14 DEF n, stream, flat

\* So a reader finds its rows in it.
LEMMA PageReadsBack ==
    ASSUME NEW page, Texts(page)
    PROVE  /\ AList(PageStream(page))
           /\ RowsShown(PageStream(page)) = [j \in 1..Len(page) |-> Folded(page[j])]
<1>1. PICK off, out, y, X, g :
         /\ PageLaid(PageStream(page), Len(page), off, out, y, X, g)
         /\ \A j \in 1..Len(page) : y[j] = Folded(page[j])
  BY StreamLaid
<1>2. AList(PageStream(page))
  BY <1>1 DEF PageLaid
<1>3. RowsShown(PageStream(page)) = [j \in 1..Len(page) |-> y[j]]
  BY <1>1, PageShown
<1> QED
  BY <1>1, <1>2, <1>3

\* A part of a list, place by place.
LEMMA PartOfList ==
    ASSUME NEW s, AList(s), NEW m \in Nat, NEW k \in Nat, 1 <= m, k <= Len(s), m <= k + 1
    PROVE  /\ AList(SubSeq(s, m, k)) /\ Len(SubSeq(s, m, k)) = k - m + 1
           /\ \A i \in 1..(k - m + 1) : SubSeq(s, m, k)[i] = s[m + i - 1]
<1> DEFINE S == {s[i] : i \in 1..Len(s)}
<1>1. s \in Seq(S) /\ Len(s) \in Nat
  BY ListIsSeq
<1> HIDE DEF S
<1>2. SubSeq(s, m, k) \in Seq(S)
  BY <1>1
<1>3. Len(SubSeq(s, m, k)) = k - m + 1
  BY <1>1
<1>4. \A i \in 1..(k - m + 1) : SubSeq(s, m, k)[i] = s[m + i - 1]
  BY <1>1
<1> QED
  BY <1>2, <1>3, <1>4, SeqIsList

\* The number of chunks of d lines.
LEMMA Pieces ==
    ASSUME NEW l \in Nat, NEW d \in Nat \ {0}, NEW n, n = (l + d - 1) \div d
    PROVE  /\ n \in Nat /\ l <= n * d /\ (n # 0 => (n - 1) * d < l)
<1>1. n \in Int
  BY SMT
<1>2. n * d <= l + d - 1 /\ l + d - 1 < n * d + d
  BY SMT
<1> QED
  BY <1>1, <1>2, SMT

-----------------------------------------------------------------------------
(***************************************************************************)
(* An object of a file begins at o, where the table says that it begins.   *)
(***************************************************************************)
ObjectAt(file, idx, o, body) ==
    /\ AList(file) /\ AList(body) /\ o \in Nat /\ o + Len(body) + 3 <= Len(file)
    /\ OffsetOf(file, idx) = o
    /\ file[o + 1] = Number(idx) /\ file[o + 2] = Word("obj")
    /\ \A q \in 1..Len(body) : file[o + 2 + q] = body[q]

\* The offset table leads to an object.
LEMMA ObjectFound ==
    ASSUME NEW file, NEW idx, NEW o, NEW body, ObjectAt(file, idx, o, body)
    PROVE  IsObject(file, idx)
<1>1. /\ Len(file) \in Nat /\ Len(body) \in Nat /\ o \in Nat /\ o + Len(body) + 3 <= Len(file)
      /\ OffsetOf(file, idx) = o /\ file[o + 1] = Number(idx) /\ file[o + 2] = Word("obj")
  BY DEF ObjectAt, AList
<1>2. o \in 0..(Len(file) - 1) /\ o + 1 \in 0..(Len(file) - 1) /\ o + 1 + 1 = o + 2
  BY <1>1
<1> QED
  BY <1>1, <1>2 DEF IsObject, AtOffset

\* The first such word of its body.
FirstIn(body, key, m) ==
    /\ m \in 1..Len(body) /\ body[m].t = key /\ key # "obj" /\ key # "number"
    /\ \A q \in 1..(m - 1) : body[q].t # key

\* A reader stops at the first such word of the object.
LEMMA WordFound ==
    ASSUME NEW file, NEW idx, NEW o, NEW body, ObjectAt(file, idx, o, body),
           NEW key, NEW m, FirstIn(body, key, m)
    PROVE  After(file, idx, key) = o + 2 + m
<1>1. /\ Len(file) \in Nat /\ Len(body) \in Nat /\ o \in Nat /\ o + Len(body) + 3 <= Len(file)
      /\ OffsetOf(file, idx) = o /\ file[o + 1] = Number(idx) /\ file[o + 2] = Word("obj")
      /\ \A q \in 1..Len(body) : file[o + 2 + q] = body[q]
  BY DEF ObjectAt, AList
<1>2. /\ m \in 1..Len(body) /\ body[m].t = key /\ key # "obj" /\ key # "number"
      /\ \A q \in 1..(m - 1) : body[q].t # key
  BY DEF FirstIn
<1> DEFINE from == o + 1
           Is(offset) == /\ file[offset].t = key
                         /\ \A before \in from..(offset - 1) : file[before].t # key
<1>3. After(file, idx, key) = CHOOSE offset \in from..Len(file) : Is(offset)
  BY <1>1 DEF After
<1>4. PICK at : at = o + 2 + m
  OBVIOUS
<1>5. at \in from..Len(file) /\ at \in Int
  BY <1>1, <1>2, <1>4
<1>6. ASSUME NEW before \in from..(at - 1) PROVE file[before].t # key
  <2>1. before = o + 1 \/ before = o + 2 \/ (before - (o + 2) \in 1..(m - 1))
    BY <1>1, <1>2, <1>4
  <2>2. CASE before = o + 1
    BY <1>1, <1>2, <2>2 DEF Number
  <2>3. CASE before = o + 2
    BY <1>1, <1>2, <2>3 DEF Word
  <2>4. CASE before - (o + 2) \in 1..(m - 1)
    <3>1. PICK q : q = before - (o + 2)
      OBVIOUS
    <3>2. q \in 1..(m - 1) /\ q \in 1..Len(body) /\ before = o + 2 + q
      <4>1. before \in Int /\ m \in Nat /\ m <= Len(body) /\ Len(body) \in Nat /\ o \in Nat
        BY <1>1, <1>2, <1>5
      <4>2. q \in 1..(m - 1)
        BY <2>4, <3>1
      <4>3. before = o + 2 + q
        BY ONLY <4>1, <4>2, <3>1
      <4> QED
        BY ONLY <4>1, <4>2, <4>3
    <3> QED
      BY <1>1, <1>2, <3>2
  <2> QED
    BY <2>1, <2>2, <2>3, <2>4
<1>7. Is(at)
  BY <1>1, <1>2, <1>4, <1>6
<1>8. ASSUME NEW x \in from..Len(file), Is(x) PROVE x = at
  <2>1. ~ (x < at)
    <3>1. x < at => x \in from..(at - 1)
      BY <1>1, <1>5
    <3> QED
      BY <1>6, <1>8, <3>1
  <2>2. ~ (at < x)
    <3>1. at < x => at \in from..(x - 1)
      BY <1>1, <1>5
    <3> QED
      BY <1>7, <1>8, <3>1
  <2> QED
    BY <1>1, <1>5, <2>1, <2>2
<1> HIDE DEF Is
<1>9. (CHOOSE offset \in from..Len(file) : Is(offset)) = at
  BY <1>5, <1>7, <1>8
<1> QED
  BY <1>3, <1>4, <1>9

\* The number behind a word.
LEMMA ValueFound ==
    ASSUME NEW file, NEW idx, NEW o, NEW body, ObjectAt(file, idx, o, body),
           NEW key, NEW m, FirstIn(body, key, m), m + 1 <= Len(body)
    PROVE  ValueAfter(file, idx, key) = body[m + 1].n
<1>1. /\ Len(file) \in Nat /\ Len(body) \in Nat /\ o \in Nat /\ o + Len(body) + 3 <= Len(file)
      /\ \A q \in 1..Len(body) : file[o + 2 + q] = body[q]
  BY DEF ObjectAt, AList
<1>2. m \in 1..Len(body)
  BY DEF FirstIn
<1>3. After(file, idx, key) = o + 2 + m
  BY WordFound
<1>4. /\ o + 2 + m \in 0..(Len(file) - 1) /\ o + 2 + m + 1 = o + 2 + (m + 1)
      /\ m + 1 \in 1..Len(body)
  BY <1>1, <1>2
<1> QED
  BY <1>1, <1>3, <1>4 DEF ValueAfter, AtOffset

\* The stream of an object, between its length and its end.
LEMMA StreamFound ==
    ASSUME NEW file, NEW page, NEW po, NEW pbody, ObjectAt(file, page, po, pbody),
           FirstIn(pbody, "/Contents", 2), Len(pbody) = 3,
           NEW o, NEW body, ObjectAt(file, pbody[3].n, o, body),
           NEW stream, AList(stream), Len(body) = Len(stream) + 4,
           FirstIn(body, "/Length", 1), body[2].n = Len(stream), FirstIn(body, "stream", 3),
           \A q \in 1..Len(stream) : body[3 + q] = stream[q],
           body[Len(stream) + 4] = Word("endstream")
    PROVE  StreamOf(file, page) = stream
<1> DEFINE contents == pbody[3].n
           l == Len(stream)
<1>1. ValueAfter(file, page, "/Contents") = contents
  <2>1. 2 + 1 <= Len(pbody) /\ 2 + 1 = 3
    OBVIOUS
  <2> QED
    BY <2>1, ValueFound
<1>2. IsObject(file, contents)
  BY ObjectFound
<1>3. l \in Nat
  BY DEF AList
<1>4. ValueAfter(file, contents, "/Length") = l
  <2>1. 1 + 1 <= Len(body) /\ 1 + 1 = 2
    BY <1>3
  <2> QED
    BY <2>1, ValueFound
<1>5. After(file, contents, "stream") = o + 2 + 3
  BY WordFound
<1>6. /\ Len(file) \in Nat /\ o \in Nat /\ o + (l + 4) + 3 <= Len(file) /\ AList(file)
      /\ \A q \in 1..(l + 4) : file[o + 2 + q] = body[q]
  BY DEF ObjectAt, AList
<1> HIDE DEF contents, l
<1>7. PICK from : from = o + 5
  OBVIOUS
<1>8. /\ from \in Nat /\ from + l \in 0..(Len(file) - 1) /\ from + l + 1 = o + 2 + (l + 4)
      /\ l + 4 \in 1..(l + 4)
  BY <1>3, <1>6, <1>7
<1>9. AtOffset(file, from + l) = Word("endstream")
  BY <1>6, <1>8 DEF AtOffset, l
<1>10. StreamOf(file, page) = SubSeq(file, from + 1, from + l)
  <2>1. After(file, contents, "stream") = from
    BY <1>5, <1>6, <1>7
  <2> QED
    BY <1>1, <1>2, <1>4, <1>9, <2>1 DEF StreamOf
<1>11. /\ AList(SubSeq(file, from + 1, from + l)) /\ Len(SubSeq(file, from + 1, from + l)) = l
       /\ \A i \in 1..l : SubSeq(file, from + 1, from + l)[i] = file[from + 1 + i - 1]
  <2>1. PICK last : last = from + l
    OBVIOUS
  <2>2. PICK first : first = from + 1
    OBVIOUS
  <2>3. from \in Nat /\ l \in Nat /\ Len(file) \in Nat /\ last \in 0..(Len(file) - 1)
    BY <1>3, <1>6, <1>8, <2>1
  <2>4. /\ first \in Nat /\ last \in Nat /\ 1 <= first /\ last <= Len(file)
        /\ first <= last + 1 /\ last - first + 1 = l
    BY <2>1, <2>2, <2>3
  <2>5. AList(file)
    BY <1>6
  <2>6. /\ AList(SubSeq(file, first, last)) /\ Len(SubSeq(file, first, last)) = last - first + 1
        /\ \A i \in 1..(last - first + 1) : SubSeq(file, first, last)[i] = file[first + i - 1]
    BY <2>4, <2>5, PartOfList
  <2> QED
    BY <2>1, <2>2, <2>4, <2>6
<1>12. \A i \in 1..l : file[from + 1 + i - 1] = stream[i]
  <2> TAKE i \in 1..l
  <2>1. from + 1 + i - 1 = o + 2 + (3 + i) /\ 3 + i \in 1..(l + 4)
    BY <1>3, <1>6, <1>7
  <2>2. file[o + 2 + (3 + i)] = body[3 + i]
    BY <1>6, <2>1
  <2>3. body[3 + i] = stream[i]
    BY DEF l
  <2> QED
    BY <2>1, <2>2, <2>3
<1>13. SubSeq(file, from + 1, from + l) = stream
  BY <1>11, <1>12, SameList DEF l
<1> QED
  BY <1>10, <1>13

-----------------------------------------------------------------------------
\* The first k lists are as long as where the k-th ends.
LEMMA PrefixLength ==
    ASSUME NEW n \in Nat, NEW seqs, EachAList(seqs, n), NEW flat, NEW off,
           Laid(flat, seqs, off, n), NEW k \in 0..n
    PROVE  AList(FlattenTo(seqs, k)) /\ Len(FlattenTo(seqs, k)) = off[k]
<1> DEFINE Good(m) == AList(FlattenTo(seqs, m)) /\ Len(FlattenTo(seqs, m)) = off[m]
           T == {m \in 0..n : ~ Good(m)}
<1>1. Good(0)
  <2>1. [i \in 1..0 |-> seqs[i]] = <<>>
    OBVIOUS
  <2>2. FlattenTo(seqs, 0) = <<>>
    BY <2>1, FlattenNone DEF FlattenTo
  <2>3. AList(<<>>) /\ Len(<<>>) = 0
    BY DEF AList
  <2>4. off[0] = 0
    BY DEF Laid
  <2> QED
    BY <2>2, <2>3, <2>4
<1>2. T = {}
  <2> SUFFICES ASSUME T # {} PROVE FALSE
    OBVIOUS
  <2>1. T \in SUBSET Nat
    OBVIOUS
  <2>2. \A m : m \in T <=> m \in 0..n /\ ~ Good(m)
    OBVIOUS
  <2> HIDE DEF T, Good
  <2>3. PICK m \in T : \A l \in T : m <= l
    BY <2>1, LeastExists
  <2>4. m \in 0..n /\ m # 0
    BY <1>1, <2>2
  <2>5. m \in 1..n /\ m - 1 \in 0..n
    BY <2>4
  <2>6. m - 1 \notin T
    BY <2>3, <2>5
  <2>7. Good(m - 1)
    BY <2>2, <2>5, <2>6
  <2>8. AList(FlattenTo(seqs, m)) /\ FlattenTo(seqs, m) = FlattenTo(seqs, m - 1) \o seqs[m]
    BY <2>5, FlattenMore
  <2>9. AList(FlattenTo(seqs, m - 1)) /\ Len(FlattenTo(seqs, m - 1)) = off[m - 1] /\ AList(seqs[m])
    BY <2>5, <2>7 DEF Good, EachAList
  <2>10. Len(FlattenTo(seqs, m - 1) \o seqs[m]) = Len(FlattenTo(seqs, m - 1)) + Len(seqs[m])
    <3>1. AList(FlattenTo(seqs, m - 1)) /\ AList(seqs[m])
      BY <2>9
    <3> QED
      BY ONLY <3>1, ListsJoined
  <2>11. off[m] = off[m - 1] + Len(seqs[m])
    BY <2>5 DEF Laid
  <2>12. Good(m)
    BY <2>8, <2>9, <2>10, <2>11 DEF Good
  <2> QED
    BY <2>2, <2>3, <2>12
<1> QED
  BY <1>2

\* An object, token by token.
LEMMA ObjectTokens ==
    ASSUME NEW idx, NEW body, AList(body)
    PROVE  /\ AList(Object(idx, body)) /\ Len(Object(idx, body)) = Len(body) + 3
           /\ Object(idx, body)[1] = Number(idx) /\ Object(idx, body)[2] = Word("obj")
           /\ \A q \in 1..Len(body) : Object(idx, body)[2 + q] = body[q]
<1> DEFINE head == <<Number(idx), Word("obj")>>
           tail == <<Word("endobj")>>
           front == head \o body
<1>1. /\ AList(head) /\ Len(head) = 2 /\ head[1] = Number(idx) /\ head[2] = Word("obj")
      /\ AList(tail) /\ Len(tail) = 1 /\ Len(body) \in Nat
  BY DEF AList
<1>2. Object(idx, body) = front \o tail
  BY DEF Object
<1> HIDE DEF head, tail
<1>3. /\ AList(front) /\ Len(front) = Len(head) + Len(body)
      /\ \A i \in 1..Len(head) : front[i] = head[i]
      /\ \A i \in 1..Len(body) : front[Len(head) + i] = body[i]
  <2>1. AList(head) /\ AList(body)
    BY <1>1
  <2> QED
    BY ONLY <2>1, ListsJoined
<1> HIDE DEF front
<1>4. /\ AList(front \o tail) /\ Len(front \o tail) = Len(front) + Len(tail)
      /\ \A i \in 1..Len(front) : (front \o tail)[i] = front[i]
  <2>1. AList(front) /\ AList(tail)
    BY <1>1, <1>3
  <2> QED
    BY ONLY <2>1, ListsJoined
<1>5. /\ 1 \in 1..2 /\ 2 \in 1..2 /\ 1 \in 1..Len(front) /\ 2 \in 1..Len(front)
      /\ \A q \in 1..Len(body) : 2 + q \in 1..Len(front)
      /\ Len(front) + 1 = Len(body) + 3
  BY <1>1, <1>3
<1> QED
  BY <1>1, <1>2, <1>3, <1>4, <1>5

\* The file of so many objects.
FileOf(bodies) ==
    LET objects == FileUpTo(bodies, Len(bodies))
        count == Len(bodies) + 1
    IN  objects
        \o <<Word("xref"), Number(0), Number(count), Number(0)>>
        \o [k \in DOMAIN bodies |-> Number(Offset(bodies, k))]
        \o <<Word("trailer"), Word("/Size"), Number(count), Word("/Root"), Number(1),
             Word("startxref"), Number(Len(objects)), Word("%%EOF")>>

\* Each object is where the table says.
LEMMA FileHolds ==
    ASSUME NEW bodies, AList(bodies), EachAList(bodies, Len(bodies))
    PROVE  \E o : \A idx \in 1..Len(bodies) :
              ObjectAt(FileOf(bodies), idx, o[idx], bodies[idx])
<1> DEFINE n == Len(bodies)
           objs == [idx \in 1..n |-> Object(idx, bodies[idx])]
           start == <<Word("%PDF-1.4")>>
           objects == FileUpTo(bodies, n)
           xref == <<Word("xref"), Number(0), Number(n + 1), Number(0)>>
           table == [k \in 1..n |-> Number(Offset(bodies, k))]
           trailer == <<Word("trailer"), Word("/Size"), Number(n + 1), Word("/Root"), Number(1),
                        Word("startxref"), Number(Len(objects)), Word("%%EOF")>>
           file == FileOf(bodies)
<1>1. n \in Nat /\ DOMAIN bodies = 1..n
  BY ListIsSeq
<1>2. file = objects \o xref \o table \o trailer
  BY <1>1 DEF FileOf
<1>3. /\ AList(start) /\ Len(start) = 1
      /\ AList(xref) /\ Len(xref) = 4
      /\ AList(trailer) /\ Len(trailer) = 8 /\ trailer[7] = Number(Len(objects))
  BY DEF AList
<1>4. /\ AList(table) /\ Len(table) = n
      /\ \A k \in 1..n : table[k] = Number(Offset(bodies, k))
  BY <1>1, FunctionIsList
<1>5. AList(objs) /\ Len(objs) = n /\ \A idx \in 1..n : objs[idx] = Object(idx, bodies[idx])
  BY <1>1, FunctionIsList
<1>6. \A k \in 0..n : FileUpTo(bodies, k) = start \o FlattenTo(objs, k)
  <2> TAKE k \in 0..n
  <2>1. \A idx \in 1..k : idx \in 1..n
    BY <1>1
  <2>2. [idx \in 1..k |-> Object(idx, bodies[idx])] = [idx \in 1..k |-> objs[idx]]
    BY <2>1
  <2> QED
    BY <2>2 DEF FileUpTo, FlattenTo
<1> HIDE DEF objs, start, xref, table, trailer, file
<1>7. EachAList(objs, n)
  BY <1>5, ObjectTokens DEF EachAList
<1>8. PICK off : Laid(FlattenSeq(objs), objs, off, n)
  BY <1>5, <1>7, FlattenLaid
<1>9. \A k \in 0..n : /\ AList(FlattenTo(objs, k)) /\ Len(FlattenTo(objs, k)) = off[k]
                      /\ off[k] \in Nat
  <2>1. off \in [0..n -> Nat]
    BY <1>8 DEF Laid
  <2> QED
    BY <1>1, <1>7, <1>8, <2>1, PrefixLength
<1>10. FlattenTo(objs, n) = FlattenSeq(objs)
  BY <1>5 DEF FlattenTo, AList
<1>11. ASSUME NEW k \in 0..n
       PROVE  /\ AList(FileUpTo(bodies, k)) /\ Len(FileUpTo(bodies, k)) = 1 + off[k]
              /\ \A p \in 1..off[k] : FileUpTo(bodies, k)[1 + p] = FlattenTo(objs, k)[p]
  <2> DEFINE flat == FlattenTo(objs, k)
  <2>1. AList(start) /\ AList(flat)
    BY <1>3, <1>9
  <2>2. Len(flat) = off[k]
    BY <1>9
  <2> HIDE DEF flat
  <2>3. /\ AList(start \o flat) /\ Len(start \o flat) = Len(start) + Len(flat)
        /\ \A i \in 1..Len(flat) : (start \o flat)[Len(start) + i] = flat[i]
    BY ONLY <2>1, ListsJoined
  <2>4. FileUpTo(bodies, k) = start \o flat
    BY <1>6 DEF flat
  <2>5. /\ AList(FileUpTo(bodies, k)) /\ Len(FileUpTo(bodies, k)) = 1 + off[k]
        /\ \A p \in 1..off[k] : FileUpTo(bodies, k)[1 + p] = flat[p]
    BY <1>3, <2>2, <2>3, <2>4
  <2> QED
    BY <2>5 DEF flat
<1>12. \A idx \in 1..n : Offset(bodies, idx) = 1 + off[idx - 1]
  <2> TAKE idx \in 1..n
  <2>1. idx - 1 \in 0..n
    BY <1>1
  <2> QED
    BY <1>11, <2>1 DEF Offset
<1>13. n \in 0..n
  BY <1>1
<1>14. /\ AList(objects) /\ Len(objects) = 1 + off[n]
       /\ \A p \in 1..off[n] : objects[1 + p] = FlattenSeq(objs)[p]
  BY <1>10, <1>11, <1>13
<1> HIDE DEF objects
<1> DEFINE f1 == objects \o xref
           f2 == f1 \o table
<1>15. /\ AList(f1) /\ Len(f1) = Len(objects) + Len(xref)
       /\ \A i \in 1..Len(objects) : f1[i] = objects[i]
  <2>1. AList(objects) /\ AList(xref)
    BY <1>3, <1>14
  <2> QED
    BY ONLY <2>1, ListsJoined
<1>16. file = f2 \o trailer
  BY <1>2
<1> HIDE DEF f1
<1>17. /\ AList(f2) /\ Len(f2) = Len(f1) + Len(table)
       /\ \A i \in 1..Len(f1) : f2[i] = f1[i]
       /\ \A i \in 1..Len(table) : f2[Len(f1) + i] = table[i]
  <2>1. AList(f1) /\ AList(table)
    BY <1>4, <1>15
  <2> QED
    BY ONLY <2>1, ListsJoined
<1> HIDE DEF f2
<1>18. /\ AList(file) /\ Len(file) = Len(f2) + Len(trailer)
       /\ \A i \in 1..Len(f2) : file[i] = f2[i]
       /\ \A i \in 1..Len(trailer) : file[Len(f2) + i] = trailer[i]
  <2>1. AList(f2) /\ AList(trailer)
    BY <1>3, <1>17
  <2> QED
    BY ONLY <2>1, <1>16, ListsJoined
<1>19. PICK l : l = Len(objects)
  OBVIOUS
<1>20. PICK e : e = off[n]
  OBVIOUS
<1>21. /\ e \in Nat /\ l = 1 + e /\ l \in Nat /\ Len(f1) = l + 4 /\ Len(f2) = l + 4 + n
       /\ Len(file) = l + 4 + n + 8
  <2>1. e \in Nat /\ l = 1 + e
    BY <1>9, <1>13, <1>14, <1>19, <1>20
  <2>2. Len(f1) = l + 4
    BY <1>3, <1>15, <1>19
  <2>3. Len(f2) = l + 4 + n
    BY <1>4, <1>17, <2>2
  <2>4. Len(file) = l + 4 + n + 8
    BY <1>3, <1>18, <2>3
  <2> QED
    BY <2>1, <2>2, <2>3, <2>4
<1>22. \A p \in 1..e : file[1 + p] = FlattenSeq(objs)[p]
  <2> TAKE p \in 1..e
  <2>1. 1 + p \in 1..l /\ 1 + p \in 1..(l + 4) /\ 1 + p \in 1..(l + 4 + n)
    BY <1>1, <1>21
  <2>2. file[1 + p] = f2[1 + p]
    BY <1>18, <1>21, <2>1
  <2>3. f2[1 + p] = f1[1 + p]
    BY <1>17, <1>21, <2>1
  <2>4. f1[1 + p] = objects[1 + p]
    BY <1>15, <1>19, <2>1
  <2>5. objects[1 + p] = FlattenSeq(objs)[p]
    BY <1>14, <1>20
  <2> QED
    BY <2>2, <2>3, <2>4, <2>5
<1>23. \A k \in 1..n : file[l + 4 + k] = Number(1 + off[k - 1])
  <2> TAKE k \in 1..n
  <2>1. l + 4 + k \in 1..(l + 4 + n)
    BY <1>1, <1>21
  <2> QED
    BY <1>4, <1>12, <1>17, <1>18, <1>21, <2>1
<1>24. file[Len(file) - 1] = Number(l)
  <2>1. Len(file) - 1 = (l + 4 + n) + 7 /\ 7 \in 1..8
    BY <1>1, <1>21
  <2> QED
    BY <1>3, <1>18, <1>19, <1>21, <2>1
<1> DEFINE o == [idx \in 1..n |-> 1 + off[idx - 1]]
<1>25. ASSUME NEW idx \in 1..n PROVE ObjectAt(file, idx, o[idx], bodies[idx])
  <2>1. PICK b : b = off[idx - 1]
    OBVIOUS
  <2>2. PICK m : m = Len(bodies[idx])
    OBVIOUS
  <2>3. /\ off[idx - 1] \in Nat /\ off[idx] \in Nat /\ Len(objs[idx]) \in Nat
        /\ off[idx] = off[idx - 1] + Len(objs[idx]) /\ off[idx] <= Len(FlattenSeq(objs))
    BY <1>1, <1>7, <1>8, LaidPlaces
  <2>4. Len(FlattenSeq(objs)) = e
    BY <1>9, <1>10, <1>13, <1>20
  <2>5. /\ AList(bodies[idx]) /\ m \in Nat /\ Len(objs[idx]) = m + 3
        /\ objs[idx][1] = Number(idx) /\ objs[idx][2] = Word("obj")
        /\ \A q \in 1..m : objs[idx][2 + q] = bodies[idx][q]
    <3>1. AList(bodies[idx])
      BY DEF EachAList
    <3>2. m \in Nat
      BY <2>2, <3>1 DEF AList
    <3> QED
      BY <1>5, <2>2, <3>1, <3>2, ObjectTokens
  <2>6. b \in Nat /\ b + m + 3 <= e
    BY <2>1, <2>3, <2>4, <2>5
  <2>7. \A j \in 1..(m + 3) : FlattenSeq(objs)[b + j] = objs[idx][j]
    BY <1>8, <2>1, <2>5 DEF Laid
  <2>8. ASSUME NEW j \in 1..(m + 3) PROVE file[1 + b + j] = objs[idx][j]
    <3>1. b + j \in 1..e /\ 1 + (b + j) = 1 + b + j
      BY <1>21, <2>5, <2>6
    <3> QED
      BY <1>22, <2>7, <3>1
  <2>9. /\ 1 \in 1..(m + 3) /\ 2 \in 1..(m + 3)
        /\ \A q \in 1..m : 2 + q \in 1..(m + 3) /\ 1 + b + (2 + q) = 1 + b + 2 + q
    BY <2>5, <2>6
  <2>10. /\ file[1 + b + 1] = Number(idx) /\ file[1 + b + 2] = Word("obj")
         /\ \A q \in 1..m : file[1 + b + 2 + q] = bodies[idx][q]
    BY <2>5, <2>8, <2>9
  <2>11. OffsetOf(file, idx) = 1 + b
    <3>1. /\ l + 3 + idx \in 0..(Len(file) - 1) /\ l + 3 + idx + 1 = l + 4 + idx
      BY <1>1, <1>21
    <3>2. file[Len(file) - 1].n = l /\ file[l + 4 + idx].n = 1 + b
      <4>1. \A k : Number(k).n = k
        BY DEF Number
      <4>2. file[l + 4 + idx] = Number(1 + b)
        BY <1>23, <2>1
      <4>3. file[Len(file) - 1].n = l
        BY <1>24, <4>1
      <4> QED
        BY <4>1, <4>2, <4>3
    <3> QED
      BY <3>1, <3>2 DEF OffsetOf, AtOffset
  <2>12. 1 + b \in Nat /\ 1 + b + m + 3 <= Len(file)
    <3>1. Len(file) >= e
      BY <1>1, <1>21
    <3>2. b \in Nat /\ m \in Nat /\ Len(file) = (1 + e) + 4 + n + 8
      BY <1>21, <2>5, <2>6
    <3> QED
      BY <1>1, <1>21, <2>6, <3>2
  <2>13. o[idx] = 1 + b
    BY <2>1
  <2> QED
    BY <1>18, <2>2, <2>5, <2>10, <2>11, <2>12, <2>13 DEF ObjectAt
<1> HIDE DEF o
<1> QED
  BY <1>25 DEF file

-----------------------------------------------------------------------------
\* Three lists, one after the other.
LEMMA ThreeJoined ==
    ASSUME NEW a, NEW b, NEW c, AList(a), AList(b), AList(c)
    PROVE  /\ AList(a \o b \o c) /\ Len(a \o b \o c) = Len(a) + Len(b) + Len(c)
           /\ \A i \in 1..Len(a) : (a \o b \o c)[i] = a[i]
           /\ \A i \in 1..Len(b) : (a \o b \o c)[Len(a) + i] = b[i]
           /\ \A i \in 1..Len(c) : (a \o b \o c)[Len(a) + Len(b) + i] = c[i]
<1> DEFINE ab == a \o b
<1>1. /\ AList(ab) /\ Len(ab) = Len(a) + Len(b)
      /\ \A i \in 1..Len(a) : ab[i] = a[i]
      /\ \A i \in 1..Len(b) : ab[Len(a) + i] = b[i]
  BY ONLY AList(a), AList(b), ListsJoined
<1> HIDE DEF ab
<1>2. /\ AList(ab \o c) /\ Len(ab \o c) = Len(ab) + Len(c)
      /\ \A i \in 1..Len(ab) : (ab \o c)[i] = ab[i]
      /\ \A i \in 1..Len(c) : (ab \o c)[Len(ab) + i] = c[i]
  <2>1. AList(ab) /\ AList(c)
    BY <1>1
  <2> QED
    BY ONLY <2>1, ListsJoined
<1>3. Len(a) \in Nat /\ Len(b) \in Nat /\ Len(c) \in Nat
  BY DEF AList
<1>4. /\ \A i \in 1..Len(a) : i \in 1..Len(ab)
      /\ \A i \in 1..Len(b) : Len(a) + i \in 1..Len(ab)
  BY <1>1, <1>3
<1>5. /\ AList(ab \o c) /\ Len(ab \o c) = Len(a) + Len(b) + Len(c)
      /\ \A i \in 1..Len(a) : (ab \o c)[i] = a[i]
      /\ \A i \in 1..Len(b) : (ab \o c)[Len(a) + i] = b[i]
      /\ \A i \in 1..Len(c) : (ab \o c)[Len(a) + Len(b) + i] = c[i]
  BY <1>1, <1>2, <1>4
<1> QED
  BY <1>5 DEF ab

\* The body of the content of a page, between its length and its end.
ContentIs(body, stream) ==
    /\ AList(body) /\ Len(body) = Len(stream) + 4
    /\ body[1] = Word("/Length") /\ body[2] = Number(Len(stream)) /\ body[3] = Word("stream")
    /\ \A q \in 1..Len(stream) : body[3 + q] = stream[q]
    /\ body[Len(stream) + 4] = Word("endstream")

\* The body of a content stream.
LEMMA ContentTokens ==
    ASSUME NEW page, AList(PageStream(page))
    PROVE  ContentIs(ContentBody(page), PageStream(page))
<1> DEFINE stream == PageStream(page)
           head == <<Word("/Length"), Number(Len(stream)), Word("stream")>>
           tail == <<Word("endstream")>>
           body == head \o stream \o tail
<1>1. /\ AList(head) /\ Len(head) = 3 /\ head[1] = Word("/Length")
      /\ head[2] = Number(Len(stream)) /\ head[3] = Word("stream")
      /\ AList(tail) /\ Len(tail) = 1 /\ tail[1] = Word("endstream") /\ Len(stream) \in Nat
  BY DEF AList
<1>2. ContentBody(page) = body
  BY DEF ContentBody
<1> HIDE DEF head, tail, stream
<1>3. AList(stream)
  BY DEF stream
<1>4. /\ AList(body) /\ Len(body) = Len(head) + Len(stream) + Len(tail)
      /\ \A i \in 1..Len(head) : body[i] = head[i]
      /\ \A i \in 1..Len(stream) : body[Len(head) + i] = stream[i]
      /\ \A i \in 1..Len(tail) : body[Len(head) + Len(stream) + i] = tail[i]
  <2>1. AList(head) /\ AList(stream) /\ AList(tail)
    BY <1>1, <1>3
  <2> QED
    BY ONLY <2>1, ThreeJoined
<1> HIDE DEF body
<1>5. /\ 1 \in 1..3 /\ 2 \in 1..3 /\ 3 \in 1..3 /\ 1 \in 1..1
      /\ 3 + Len(stream) + 1 = Len(stream) + 4
  BY <1>1
<1>6. ContentIs(body, stream)
  BY <1>1, <1>4, <1>5 DEF ContentIs
<1> QED
  BY <1>2, <1>6 DEF stream

\* The body of the tree of the pages.
TreeIs(body, n) ==
    /\ AList(body) /\ Len(body) = n + 3
    /\ body[1] = Word("/Kids")
    /\ \A i \in 1..n : body[1 + i] = Number(PageBase(n) + i - 1)
    /\ body[n + 2] = Word("/Count") /\ body[n + 3] = Number(n)

\* The body of the page tree.
LEMMA TreeTokens ==
    ASSUME NEW n \in Nat
    PROVE  TreeIs(<<Word("/Kids")>> \o [i \in 1..n |-> Number(PageBase(n) + i - 1)]
                      \o <<Word("/Count"), Number(n)>>, n)
<1> DEFINE head == <<Word("/Kids")>>
           kids == [i \in 1..n |-> Number(PageBase(n) + i - 1)]
           tail == <<Word("/Count"), Number(n)>>
           body == head \o kids \o tail
<1>1. /\ AList(head) /\ Len(head) = 1 /\ head[1] = Word("/Kids")
      /\ AList(tail) /\ Len(tail) = 2 /\ tail[1] = Word("/Count") /\ tail[2] = Number(n)
  BY DEF AList
<1>2. AList(kids) /\ Len(kids) = n /\ \A i \in 1..n : kids[i] = Number(PageBase(n) + i - 1)
  BY FunctionIsList
<1> HIDE DEF head, kids, tail
<1>3. /\ AList(body) /\ Len(body) = Len(head) + Len(kids) + Len(tail)
      /\ \A i \in 1..Len(head) : body[i] = head[i]
      /\ \A i \in 1..Len(kids) : body[Len(head) + i] = kids[i]
      /\ \A i \in 1..Len(tail) : body[Len(head) + Len(kids) + i] = tail[i]
  <2>1. AList(head) /\ AList(kids) /\ AList(tail)
    BY <1>1, <1>2
  <2> QED
    BY ONLY <2>1, ThreeJoined
<1> HIDE DEF body
<1>4. /\ 1 \in 1..1 /\ 1 \in 1..2 /\ 2 \in 1..2 /\ 1 + n + 1 = n + 2 /\ 1 + n + 2 = n + 3
  OBVIOUS
<1>5. TreeIs(body, n)
  BY <1>1, <1>2, <1>3, <1>4 DEF TreeIs
<1> QED
  BY <1>5 DEF body, head, kids, tail

\* The objects of the pages.
LEMMA BodiesAre ==
    ASSUME NEW pages, AList(pages), \A i \in 1..Len(pages) : AList(PageStream(pages[i]))
    PROVE  LET n == Len(pages)
               bodies == Bodies(pages)
           IN  /\ n \in Nat /\ AList(bodies) /\ Len(bodies) = n + n + 3
               /\ EachAList(bodies, Len(bodies))
               /\ bodies[1] = <<Word("/Catalog"), Word("/Pages"), Number(2)>>
               /\ TreeIs(bodies[2], n)
               /\ \A i \in 1..n : ContentIs(bodies[3 + i], PageStream(pages[i]))
               /\ \A i \in 1..n : bodies[n + 3 + i]
                    = <<Word("/Page"), Word("/Contents"), Number(3 + i)>>
<1> DEFINE n == Len(pages)
           catalog == <<Word("/Catalog"), Word("/Pages"), Number(2)>>
           tree == <<Word("/Kids")>> \o [i \in 1..n |-> Number(PageBase(n) + i - 1)]
                      \o <<Word("/Count"), Number(n)>>
           font == <<Word("/Font")>>
           fixed == <<catalog, tree, font>>
           contents == [i \in 1..n |-> ContentBody(pages[i])]
           leaves == [i \in 1..n |->
                        <<Word("/Page"), Word("/Contents"), Number(ContentBase + i - 1)>>]
           bodies == Bodies(pages)
<1>1. n \in Nat
  BY DEF AList
<1>2. bodies = fixed \o contents \o leaves
  BY DEF Bodies
<1>3. TreeIs(tree, n)
  BY <1>1, TreeTokens
<1>4. AList(catalog) /\ AList(font)
  BY DEF AList
<1>5. \A i \in 1..n : ContentIs(contents[i], PageStream(pages[i]))
  <2> TAKE i \in 1..n
  <2>1. ContentIs(ContentBody(pages[i]), PageStream(pages[i]))
    BY ContentTokens
  <2> QED
    BY <2>1
<1>6. ASSUME NEW i \in 1..n
      PROVE  leaves[i] = <<Word("/Page"), Word("/Contents"), Number(3 + i)>> /\ AList(leaves[i])
  <2>1. ContentBase + i - 1 = 3 + i
    BY <1>1 DEF ContentBase
  <2>2. \A a, b, c : AList(<<a, b, c>>)
    BY DEF AList
  <2> QED
    BY <2>1, <2>2
<1>7. AList(contents) /\ Len(contents) = n /\ AList(leaves) /\ Len(leaves) = n
  BY <1>1, FunctionIsList
<1> HIDE DEF catalog, tree, font, contents, leaves
<1>8. /\ AList(fixed) /\ Len(fixed) = 3
      /\ fixed[1] = catalog /\ fixed[2] = tree /\ fixed[3] = font
  BY DEF AList
<1> HIDE DEF fixed, bodies
<1>9. /\ AList(bodies) /\ Len(bodies) = Len(fixed) + Len(contents) + Len(leaves)
      /\ \A i \in 1..Len(fixed) : bodies[i] = fixed[i]
      /\ \A i \in 1..Len(contents) : bodies[Len(fixed) + i] = contents[i]
      /\ \A i \in 1..Len(leaves) : bodies[Len(fixed) + Len(contents) + i] = leaves[i]
  <2>1. AList(fixed) /\ AList(contents) /\ AList(leaves)
    BY <1>7, <1>8
  <2> QED
    BY ONLY <2>1, <1>2, ThreeJoined
<1>10. /\ Len(bodies) = n + n + 3 /\ bodies[1] = catalog /\ bodies[2] = tree /\ bodies[3] = font
       /\ \A i \in 1..n : bodies[3 + i] = contents[i]
       /\ \A i \in 1..n : bodies[n + 3 + i] = leaves[i]
  <2>1. 1 \in 1..3 /\ 2 \in 1..3 /\ 3 \in 1..3 /\ 3 + n = n + 3 /\ 3 + n + n = n + n + 3
    BY <1>1
  <2> QED
    BY <1>7, <1>8, <1>9, <2>1
<1>11. ASSUME NEW k \in 1..Len(bodies) PROVE AList(bodies[k])
  <2>1. k \in 1..(n + n + 3)
    BY <1>10
  <2>2. k = 1 \/ k = 2 \/ k = 3 \/ k - 3 \in 1..n \/ k - (n + 3) \in 1..n
    BY <1>1, <2>1
  <2>3. CASE k = 1 \/ k = 2 \/ k = 3
    BY <1>3, <1>4, <1>10, <2>3 DEF TreeIs
  <2>4. CASE k - 3 \in 1..n
    <3>1. bodies[3 + (k - 3)] = contents[k - 3] /\ 3 + (k - 3) = k
      BY <1>1, <1>10, <2>1, <2>4
    <3> QED
      BY <1>5, <2>4, <3>1 DEF ContentIs
  <2>5. CASE k - (n + 3) \in 1..n
    <3>1. bodies[n + 3 + (k - (n + 3))] = leaves[k - (n + 3)] /\ n + 3 + (k - (n + 3)) = k
      BY <1>1, <1>10, <2>1, <2>5
    <3> QED
      BY <1>6, <2>5, <3>1
  <2> QED
    BY <2>2, <2>3, <2>4, <2>5
<1>12. EachAList(bodies, Len(bodies))
  BY <1>11 DEF EachAList
<1>13. /\ bodies[1] = <<Word("/Catalog"), Word("/Pages"), Number(2)>>
       /\ TreeIs(bodies[2], n)
       /\ \A i \in 1..n : ContentIs(bodies[3 + i], PageStream(pages[i]))
       /\ \A i \in 1..n : bodies[n + 3 + i] = <<Word("/Page"), Word("/Contents"), Number(3 + i)>>
  BY <1>3, <1>5, <1>6, <1>10 DEF catalog
<1> QED
  BY <1>1, <1>9, <1>10, <1>12, <1>13 DEF bodies

\* From the root to the contents of each page.
LEMMA FileRead ==
    ASSUME NEW pages, AList(pages), \A i \in 1..Len(pages) : AList(PageStream(pages[i]))
    PROVE  LET n == Len(pages)
               file == FileOf(Bodies(pages))
           IN  /\ n \in Nat /\ Kids(file) = [i \in 1..n |-> n + 3 + i]
               /\ \A i \in 1..n : /\ IsObject(file, n + 3 + i)
                                  /\ StreamOf(file, n + 3 + i) = PageStream(pages[i])
<1> DEFINE n == Len(pages)
           bodies == Bodies(pages)
           file == FileOf(bodies)
<1>1. /\ n \in Nat /\ AList(bodies) /\ Len(bodies) = n + n + 3
      /\ EachAList(bodies, Len(bodies))
      /\ bodies[1] = <<Word("/Catalog"), Word("/Pages"), Number(2)>>
      /\ TreeIs(bodies[2], n)
      /\ \A i \in 1..n : ContentIs(bodies[3 + i], PageStream(pages[i]))
      /\ \A i \in 1..n : bodies[n + 3 + i] = <<Word("/Page"), Word("/Contents"), Number(3 + i)>>
  BY BodiesAre
<1> HIDE DEF n, bodies
<1>2. PICK o : \A idx \in 1..Len(bodies) : ObjectAt(file, idx, o[idx], bodies[idx])
  BY <1>1, FileHolds
<1> HIDE DEF file
<1>3. 1 \in 1..Len(bodies) /\ 2 \in 1..Len(bodies)
  BY <1>1
<1>4. ObjectAt(file, 1, o[1], bodies[1]) /\ ObjectAt(file, 2, o[2], bodies[2])
  BY <1>2, <1>3
<1>5. ValueAfter(file, 1, "/Pages") = 2
  <2>1. /\ Len(bodies[1]) = 3 /\ bodies[1][1] = Word("/Catalog")
        /\ bodies[1][2] = Word("/Pages") /\ bodies[1][3] = Number(2)
    BY <1>1
  <2>2. FirstIn(bodies[1], "/Pages", 2)
    <3>1. \A q \in 1..(2 - 1) : q = 1
      OBVIOUS
    <3>2. 2 \in 1..3
      OBVIOUS
    <3>3. Word("/Catalog").t = "/Catalog" /\ Word("/Pages").t = "/Pages"
      BY DEF Word
    <3> QED
      BY <2>1, <3>1, <3>2, <3>3 DEF FirstIn
  <2>3. 2 + 1 <= Len(bodies[1]) /\ 2 + 1 = 3
    BY <2>1
  <2>4. ValueAfter(file, 1, "/Pages") = bodies[1][2 + 1].n
    BY <1>4, <2>2, <2>3, ValueFound
  <2> QED
    BY <2>1, <2>3, <2>4 DEF Number
<1>6. /\ AList(bodies[2]) /\ Len(bodies[2]) = n + 3
      /\ bodies[2][1] = Word("/Kids")
      /\ \A i \in 1..n : bodies[2][1 + i] = Number(PageBase(n) + i - 1)
      /\ bodies[2][n + 2] = Word("/Count") /\ bodies[2][n + 3] = Number(n)
  BY <1>1 DEF TreeIs
<1>7. After(file, 2, "/Kids") = o[2] + 2 + 1
  <2>1. FirstIn(bodies[2], "/Kids", 1)
    <3>1. 1 \in 1..(n + 3) /\ \A q : ~ (q \in 1..(1 - 1))
      BY <1>1
    <3>2. Word("/Kids").t = "/Kids"
      BY DEF Word
    <3> QED
      BY <1>6, <3>1, <3>2 DEF FirstIn
  <2> QED
    BY <1>4, <2>1, WordFound
<1>8. ValueAfter(file, 2, "/Count") = n
  <2>1. FirstIn(bodies[2], "/Count", n + 2)
    <3>1. n + 2 \in 1..(n + 3)
      BY <1>1
    <3>2. Word("/Count").t = "/Count" /\ Word("/Kids").t = "/Kids" /\ \A k : Number(k).t = "number"
      BY DEF Word, Number
    <3>3. ASSUME NEW q \in 1..(n + 2 - 1) PROVE bodies[2][q].t # "/Count"
      <4>1. CASE q = 1
        BY <1>6, <3>2, <4>1
      <4>2. CASE q # 1
        <5>1. q - 1 \in 1..n /\ 1 + (q - 1) = q
          BY <1>1, <4>2
        <5>2. bodies[2][q] = Number(PageBase(n) + (q - 1) - 1)
          BY <1>6, <5>1
        <5> QED
          BY <3>2, <5>2
      <4> QED
        BY <4>1, <4>2
    <3>4. bodies[2][n + 2].t = "/Count"
      BY <1>6, <3>2
    <3>5. n + 2 \in 1..Len(bodies[2])
      BY <1>6, <3>1
    <3>6. PICK m : m = n + 2
      OBVIOUS
    <3>7. /\ m \in 1..Len(bodies[2]) /\ bodies[2][m].t = "/Count"
          /\ \A q \in 1..(m - 1) : bodies[2][q].t # "/Count"
      BY <1>1, <3>3, <3>4, <3>5, <3>6
    <3>8. FirstIn(bodies[2], "/Count", m)
      BY <3>7 DEF FirstIn
    <3> QED
      BY <3>6, <3>8
  <2>2. (n + 2) + 1 <= Len(bodies[2]) /\ (n + 2) + 1 = n + 3
    BY <1>1, <1>6
  <2>3. ValueAfter(file, 2, "/Count") = bodies[2][(n + 2) + 1].n
    BY <1>4, <2>1, <2>2, ValueFound
  <2> QED
    BY <1>6, <2>2, <2>3 DEF Number
<1>9. ASSUME NEW i \in 1..n
      PROVE  AtOffset(file, (o[2] + 2 + 1) + i - 1).n = n + 3 + i
  <2>1. /\ Len(file) \in Nat /\ o[2] \in Nat /\ o[2] + (n + 3) + 3 <= Len(file)
        /\ \A q \in 1..(n + 3) : file[o[2] + 2 + q] = bodies[2][q]
    BY <1>4, <1>6 DEF ObjectAt, AList
  <2>2. PICK b : b = o[2]
    OBVIOUS
  <2>3. /\ (b + 2 + 1) + i - 1 \in 0..(Len(file) - 1) /\ (b + 2 + 1) + i - 1 + 1 = b + 2 + (1 + i)
        /\ 1 + i \in 1..(n + 3)
    <3>1. b \in Nat /\ n \in Nat /\ i \in 1..n /\ b + (n + 3) + 3 <= Len(file) /\ Len(file) \in Nat
      BY <1>1, <2>1, <2>2
    <3> QED
      BY <3>1
  <2>4. file[b + 2 + (1 + i)] = Number(PageBase(n) + i - 1)
    BY <1>6, <2>1, <2>2, <2>3
  <2>5. PageBase(n) + i - 1 = n + 3 + i
    BY <1>1 DEF PageBase, ContentBase
  <2> QED
    BY <2>2, <2>3, <2>4, <2>5 DEF AtOffset, Number
<1>10. Kids(file) = [i \in 1..n |-> n + 3 + i]
  <2>1. Kids(file) = [i \in 1..n |-> AtOffset(file, (o[2] + 2 + 1) + i - 1).n]
    BY <1>5, <1>7, <1>8 DEF Kids
  <2> QED
    BY <1>9, <2>1
<1>11. ASSUME NEW i \in 1..n
       PROVE  IsObject(file, n + 3 + i) /\ StreamOf(file, n + 3 + i) = PageStream(pages[i])
  <2>1. n + 3 + i \in 1..Len(bodies) /\ 3 + i \in 1..Len(bodies)
    BY <1>1
  <2> DEFINE p == n + 3 + i
             stream == PageStream(pages[i])
             pbody == bodies[p]
             body == bodies[3 + i]
  <2>2. ObjectAt(file, p, o[p], pbody) /\ ObjectAt(file, 3 + i, o[3 + i], body)
    BY <1>2, <2>1
  <2>3. pbody = <<Word("/Page"), Word("/Contents"), Number(3 + i)>> /\ ContentIs(body, stream)
    BY <1>1
  <2>4. AList(stream)
    BY DEF n
  <2> HIDE DEF p, stream, pbody, body
  <2>5. IsObject(file, p)
    BY <2>2, ObjectFound
  <2>6. /\ Len(pbody) = 3 /\ pbody[1] = Word("/Page")
        /\ pbody[2] = Word("/Contents") /\ pbody[3] = Number(3 + i) /\ pbody[3].n = 3 + i
    BY <2>3 DEF Number
  <2>7. FirstIn(pbody, "/Contents", 2)
    <3>1. \A q \in 1..(2 - 1) : q = 1
      OBVIOUS
    <3>2. 2 \in 1..3
      OBVIOUS
    <3>3. Word("/Page").t = "/Page" /\ Word("/Contents").t = "/Contents"
      BY DEF Word
    <3> QED
      BY <2>6, <3>1, <3>2, <3>3 DEF FirstIn
  <2>8. /\ AList(body) /\ Len(body) = Len(stream) + 4
        /\ body[1] = Word("/Length") /\ body[2] = Number(Len(stream)) /\ body[3] = Word("stream")
        /\ \A q \in 1..Len(stream) : body[3 + q] = stream[q]
        /\ body[Len(stream) + 4] = Word("endstream")
    BY <2>3 DEF ContentIs
  <2>9. Len(stream) \in Nat
    BY <2>4 DEF AList
  <2>10. /\ Word("/Length").t = "/Length" /\ Word("stream").t = "stream"
         /\ \A k : Number(k).t = "number" /\ Number(k).n = k
    BY DEF Word, Number
  <2>11. FirstIn(body, "/Length", 1)
    <3>1. 1 \in 1..Len(body) /\ \A q : ~ (q \in 1..(1 - 1))
      BY <2>8, <2>9
    <3> QED
      BY <2>8, <2>10, <3>1 DEF FirstIn
  <2>12. FirstIn(body, "stream", 3)
    <3>1. 3 \in 1..Len(body) /\ \A q \in 1..(3 - 1) : q = 1 \/ q = 2
      BY <2>8, <2>9
    <3> QED
      BY <2>8, <2>10, <3>1 DEF FirstIn
  <2>13. ObjectAt(file, pbody[3].n, o[3 + i], body)
    BY <2>2, <2>6
  <2>14. body[2].n = Len(stream)
    BY <2>8, <2>10
  <2>15. StreamOf(file, p) = stream
    BY <2>2, <2>4, <2>6, <2>7, <2>8, <2>11, <2>12, <2>13, <2>14, StreamFound
  <2> QED
    BY <2>5, <2>15 DEF p, stream
<1> QED
  BY <1>1, <1>10, <1>11 DEF file, n, bodies

-----------------------------------------------------------------------------
\* The lesser of two numbers.
LEMMA LesserOf ==
    ASSUME NEW a \in Nat \ {0}, NEW b \in Nat \ {0}
    PROVE  Min({a, b}) = IF a <= b THEN a ELSE b
<1>1. {a, b} \in SUBSET (1..(a + b)) /\ a + b \in Nat
  OBVIOUS
<1>2. CASE a <= b
  <2>1. a \in {a, b} /\ \A x \in {a, b} : a <= x
    BY <1>2
  <2>2. Min({a, b}) = a
    BY <1>1, <2>1, MinIs
  <2> QED
    BY <1>2, <2>2
<1>3. CASE ~ (a <= b)
  <2>1. b \in {a, b} /\ \A x \in {a, b} : b <= x
    BY <1>3
  <2>2. Min({a, b}) = b
    BY <1>1, <2>1, MinIs
  <2> QED
    BY <1>3, <2>2
<1> QED
  BY <1>2, <1>3

\* The pages are the lines, some on each.
LEMMA PagesLaid ==
    ASSUME NEW lines, AList(lines)
    PROVE  LET pages == Pages(lines)
           IN  /\ AList(pages) /\ EachAList(pages, Len(pages))
               /\ \E off : Laid(lines, pages, off, Len(pages))
<1> DEFINE d == LinesPerPage
           l == Len(lines)
           n == (l + d - 1) \div d
           pages == Pages(lines)
           off == [i \in 0..n |-> IF i = n THEN l ELSE i * d]
<1>1. d \in Nat /\ d # 0 /\ l \in Nat
  BY PdfAssumption DEF AList
<1>2. n \in Nat /\ l <= n * d /\ (n # 0 => (n - 1) * d < l)
  BY <1>1, Pieces
<1>3. pages = [p \in 1..n |-> SubSeq(lines, (p - 1) * d + 1, Min({p * d, l}))]
  BY DEF Pages
<1> HIDE DEF d, l, n, pages
<1>4. AList(pages) /\ Len(pages) = n
      /\ \A p \in 1..n : pages[p] = SubSeq(lines, (p - 1) * d + 1, Min({p * d, l}))
  BY <1>2, <1>3, FunctionIsList
<1>5. ASSUME NEW p \in 1..n
      PROVE  /\ off[p - 1] = (p - 1) * d /\ off[p] \in Nat /\ off[p - 1] \in Nat
             /\ off[p] = Min({p * d, l})
             /\ off[p - 1] < off[p] /\ off[p] <= l
  <2>1. off[p - 1] = (p - 1) * d
    BY <1>2
  <2>2. (p - 1) * d \in Nat /\ p * d = (p - 1) * d + d /\ p * d \in Nat /\ p * d # 0
    BY <1>1, <1>2, SMT
  <2>3. CASE p = n
    <3>1. (p - 1) * d < l /\ l <= p * d /\ l # 0
      BY <1>1, <1>2, <2>2, <2>3
    <3>2. Min({p * d, l}) = l
      <4>1. Min({p * d, l}) = IF p * d <= l THEN p * d ELSE l
        BY <1>1, <2>2, <3>1, LesserOf
      <4> QED
        BY <1>1, <2>2, <3>1, <4>1
    <3>3. off[p] = l
      BY <1>2, <2>3
    <3> QED
      BY <1>1, <2>1, <2>2, <3>1, <3>2, <3>3
  <2>4. CASE p # n
    <3>1. p * d <= (n - 1) * d
      <4>1. p <= n - 1 /\ p \in Nat /\ n - 1 \in Nat
        BY <1>2, <2>4
      <4> QED
        BY <1>1, <4>1, SMT
    <3>2. (n - 1) * d < l /\ (n - 1) * d \in Int /\ l # 0
      BY <1>1, <1>2, SMT
    <3>3. p * d < l
      BY <1>1, <2>2, <3>1, <3>2
    <3>4. Min({p * d, l}) = p * d
      <4>1. Min({p * d, l}) = IF p * d <= l THEN p * d ELSE l
        BY <1>1, <2>2, <3>2, LesserOf
      <4> QED
        BY <1>1, <2>2, <3>3, <4>1
    <3>5. off[p] = p * d
      BY <1>2, <2>4
    <3> QED
      BY <1>1, <2>1, <2>2, <3>3, <3>4, <3>5
  <2> QED
    BY <2>3, <2>4
<1>6. off[0] = 0 /\ off[n] = l
  <2>1. 0 * d = 0
    BY <1>1
  <2>2. n = 0 => l = 0
    <3>1. n = 0 => n * d = 0
      BY <1>1
    <3> QED
      BY <1>1, <1>2, <3>1
  <2> QED
    BY <1>2, <2>1, <2>2
<1>7. off \in [0..n -> Nat]
  <2>1. \A i \in 0..n : i = n \/ (i + 1 \in 1..n /\ (i + 1) - 1 = i)
    BY <1>2
  <2>2. \A i \in 0..n : off[i] \in Nat
    BY <1>1, <1>5, <1>6, <2>1
  <2>3. off = [i \in 0..n |-> off[i]]
    OBVIOUS
  <2> HIDE DEF off
  <2> QED
    BY <2>2, <2>3
<1> HIDE DEF off
<1>8. ASSUME NEW p \in 1..n
      PROVE  /\ AList(pages[p]) /\ off[p] = off[p - 1] + Len(pages[p])
             /\ \A j \in 1..Len(pages[p]) : lines[off[p - 1] + j] = pages[p][j]
  <2>1. PICK a : a = off[p - 1]
    OBVIOUS
  <2>2. PICK b : b = off[p]
    OBVIOUS
  <2>3. /\ a \in Nat /\ b \in Nat /\ a < b /\ b <= l /\ l \in Nat
        /\ pages[p] = SubSeq(lines, a + 1, b)
    BY <1>1, <1>4, <1>5, <2>1, <2>2
  <2>4. PICK m : m = a + 1
    OBVIOUS
  <2>5. m \in Nat /\ 1 <= m /\ b <= Len(lines) /\ m <= b + 1 /\ b - m + 1 = b - a
    BY <2>3, <2>4 DEF l
  <2>6. /\ AList(SubSeq(lines, m, b)) /\ Len(SubSeq(lines, m, b)) = b - m + 1
        /\ \A j \in 1..(b - m + 1) : SubSeq(lines, m, b)[j] = lines[m + j - 1]
    BY <2>3, <2>5, PartOfList
  <2>7. AList(pages[p]) /\ Len(pages[p]) = b - a
    BY <2>3, <2>4, <2>5, <2>6
  <2>8. \A j \in 1..(b - a) : pages[p][j] = lines[a + j]
    <3> TAKE j \in 1..(b - a)
    <3>1. m + j - 1 = a + j
      BY <2>3, <2>4
    <3> QED
      BY <2>3, <2>4, <2>5, <2>6, <3>1
  <2>9. b = a + (b - a)
    BY <2>3
  <2> QED
    BY <2>1, <2>2, <2>7, <2>8, <2>9
<1>9. EachAList(pages, n)
  BY <1>8 DEF EachAList
<1>10. Laid(lines, pages, off, n)
  BY <1>6, <1>7, <1>8 DEF Laid, l
<1> QED
  BY <1>4, <1>9, <1>10 DEF pages

\* What PdfReadsBack says of the lines of a report.
ReadsBack(lines) ==
    LET file == RenderPdf(lines)
        kids == Kids(file)
    IN  /\ \A i \in DOMAIN kids : IsObject(file, kids[i])
        /\ ForEach(kids, LAMBDA page : RowsShown(StreamOf(file, page)))
                = [i \in DOMAIN lines |-> Folded(lines[i])]

\* It is so of every list of texts.
LEMMA FileReadsBack ==
    ASSUME NEW lines, Texts(lines)
    PROVE  ReadsBack(lines)
<1> DEFINE pages == Pages(lines)
           n == Len(pages)
           file == RenderPdf(lines)
           kids == Kids(file)
           folded == [i \in DOMAIN lines |-> Folded(lines[i])]
           rows == [i \in 1..n |-> [j \in 1..Len(pages[i]) |-> Folded(pages[i][j])]]
<1>1. AList(lines) /\ \A i \in 1..Len(lines) : Tokens(lines[i])
  BY DEF Texts
<1>2. AList(pages) /\ EachAList(pages, n) /\ \E off : Laid(lines, pages, off, n)
  BY <1>1, PagesLaid
<1>3. PICK off : Laid(lines, pages, off, n)
  BY <1>2
<1>4. file = FileOf(Bodies(pages))
  BY DEF RenderPdf, FileOf
<1>5. DOMAIN lines = 1..Len(lines) /\ Len(lines) \in Nat
  BY <1>1, ListIsSeq
<1>6. AList(folded) /\ Len(folded) = Len(lines)
      /\ \A i \in 1..Len(lines) : folded[i] = Folded(lines[i])
  BY <1>5, FunctionIsList
<1>7. n \in Nat
  BY <1>2 DEF AList
<1> HIDE DEF pages, n, file, folded
<1>8. \A i \in 1..n : AList(pages[i]) /\ Len(pages[i]) \in Nat
  BY <1>2 DEF EachAList, AList
<1>9. ASSUME NEW i \in 1..n
      PROVE  /\ off[i - 1] \in Nat /\ off[i] \in Nat /\ off[i] = off[i - 1] + Len(pages[i])
             /\ off[i] <= Len(lines)
             /\ \A j \in 1..Len(pages[i]) :
                    off[i - 1] + j \in 1..Len(lines) /\ lines[off[i - 1] + j] = pages[i][j]
  <2>1. /\ off[i - 1] \in Nat /\ off[i] \in Nat /\ off[i] = off[i - 1] + Len(pages[i])
        /\ off[i] <= Len(lines)
    BY <1>2, <1>3, <1>7, LaidPlaces
  <2>2. \A j \in 1..Len(pages[i]) : off[i - 1] + j \in 1..Len(lines)
    BY <1>5, <1>8, <2>1
  <2>3. \A j \in 1..Len(pages[i]) : lines[off[i - 1] + j] = pages[i][j]
    BY <1>3 DEF Laid
  <2> QED
    BY <2>1, <2>2, <2>3
<1>10. \A i \in 1..n : Texts(pages[i])
  <2> TAKE i \in 1..n
  <2>1. \A j \in 1..Len(pages[i]) : Tokens(pages[i][j])
    BY <1>1, <1>9
  <2> QED
    BY <1>8, <2>1 DEF Texts
<1>11. \A i \in 1..n : /\ AList(PageStream(pages[i]))
                       /\ RowsShown(PageStream(pages[i])) = rows[i]
  BY <1>10, PageReadsBack
<1>12. /\ AList(rows) /\ Len(rows) = n
       /\ \A i \in 1..n : rows[i] = [j \in 1..Len(pages[i]) |-> Folded(pages[i][j])]
  BY <1>7, FunctionIsList
<1> HIDE DEF rows
<1>13. ASSUME NEW i \in 1..n
       PROVE  /\ AList(rows[i]) /\ Len(rows[i]) = Len(pages[i])
              /\ \A j \in 1..Len(pages[i]) : rows[i][j] = Folded(pages[i][j])
  <2> DEFINE r == [j \in 1..Len(pages[i]) |-> Folded(pages[i][j])]
  <2>1. AList(r) /\ Len(r) = Len(pages[i])
        /\ \A j \in 1..Len(pages[i]) : r[j] = Folded(pages[i][j])
    BY <1>8, FunctionIsList
  <2>2. rows[i] = r
    BY <1>12
  <2> HIDE DEF r
  <2> QED
    BY <2>1, <2>2
<1>14. EachAList(rows, n)
  BY <1>13 DEF EachAList
<1>15. Laid(folded, rows, off, n)
  <2>1. /\ off \in [0..n -> Nat] /\ off[0] = 0 /\ Len(lines) = off[n]
    BY <1>3 DEF Laid
  <2>2. \A i \in 1..n : \A j \in 1..Len(rows[i]) : folded[off[i - 1] + j] = rows[i][j]
    BY <1>6, <1>9, <1>13
  <2>3. \A i \in 1..n : off[i] = off[i - 1] + Len(rows[i])
    BY <1>9, <1>13
  <2> QED
    BY <1>6, <2>1, <2>2, <2>3 DEF Laid
<1>16. FlattenSeq(rows) = folded
  BY <1>12, <1>14, <1>15, FlattenIs
<1>17. /\ kids = [i \in 1..n |-> n + 3 + i]
       /\ \A i \in 1..n : /\ IsObject(file, n + 3 + i)
                          /\ StreamOf(file, n + 3 + i) = PageStream(pages[i])
  BY <1>2, <1>4, <1>11, FileRead DEF n
<1> HIDE DEF kids
<1>18. DOMAIN kids = 1..n /\ \A i \in 1..n : kids[i] = n + 3 + i
  BY <1>17
<1>19. \A i \in DOMAIN kids : IsObject(file, kids[i])
  BY <1>17, <1>18
<1>20. ForEach(kids, LAMBDA page : RowsShown(StreamOf(file, page))) = FlattenSeq(rows)
  <2>1. \A i \in 1..n : RowsShown(StreamOf(file, kids[i])) = rows[i]
    BY <1>11, <1>17, <1>18
  <2>2. [i \in 1..n |-> RowsShown(StreamOf(file, kids[i]))] = [i \in 1..n |-> rows[i]]
    BY <2>1
  <2>3. rows = [i \in 1..n |-> rows[i]]
    BY <1>12 DEF AList
  <2>4. [i \in DOMAIN kids |-> RowsShown(StreamOf(file, kids[i]))] = rows
    BY <1>18, <2>2, <2>3
  <2> QED
    BY <2>4 DEF ForEach
<1> QED
  BY <1>16, <1>19, <1>20 DEF ReadsBack, file, kids, folded

\* A list of what another is of.
OfThose(part, s) == AList(part) /\ \A i \in 1..Len(part) : \E j \in 1..Len(s) : part[i] = s[j]

\* A part of a list is one, also where nothing is in it.
LEMMA AnyPart ==
    ASSUME NEW s, AList(s), NEW m \in Nat, NEW k \in Nat, 1 <= m, k <= Len(s)
    PROVE  OfThose(SubSeq(s, m, k), s)
<1> DEFINE S == {s[i] : i \in 1..Len(s)}
<1>1. s \in Seq(S) /\ Len(s) \in Nat
  BY ListIsSeq
<1>2. \A x : x \in S <=> \E j \in 1..Len(s) : x = s[j]
  OBVIOUS
<1> HIDE DEF S
<1>3. SubSeq(s, m, k) \in Seq(S)
  BY <1>1
<1> DEFINE part == SubSeq(s, m, k)
<1>5. part \in Seq(S)
  BY <1>3
<1> HIDE DEF part
<1>6. AList(part) /\ \A i \in 1..Len(part) : part[i] \in S
  BY <1>5, SeqIsList
<1>7. OfThose(part, s)
  BY <1>2, <1>6 DEF OfThose
<1> QED
  BY <1>7 DEF part

-----------------------------------------------------------------------------
\* One text after another is a text, and so is one of texts.
LEMMA TokensJoined ==
    ASSUME NEW s, NEW t, Tokens(s), Tokens(t)
    PROVE  Tokens(s \o t)
<1>1. AList(s) /\ AList(t)
  BY DEF Tokens
<1>2. /\ AList(s \o t) /\ Len(s \o t) = Len(s) + Len(t)
      /\ \A i \in 1..Len(s) : (s \o t)[i] = s[i]
      /\ \A i \in 1..Len(t) : (s \o t)[Len(s) + i] = t[i]
  BY ONLY <1>1, ListsJoined
<1>3. Len(s) \in Nat /\ Len(t) \in Nat
  BY <1>1 DEF AList
<1>4. ASSUME NEW i \in 1..(Len(s) + Len(t)) PROVE IsToken((s \o t)[i])
  <2>1. CASE i <= Len(s)
    <3>1. i \in 1..Len(s)
      BY <1>3, <2>1
    <3> QED
      BY <1>2, <3>1 DEF Tokens
  <2>2. CASE ~ (i <= Len(s))
    <3>1. i - Len(s) \in 1..Len(t) /\ Len(s) + (i - Len(s)) = i
      BY <1>3, <2>2
    <3>2. (s \o t)[i] = t[i - Len(s)]
      BY <1>2, <3>1
    <3> QED
      BY <3>1, <3>2 DEF Tokens
  <2> QED
    BY <2>1, <2>2
<1> QED
  BY <1>2, <1>4 DEF Tokens

\* Texts one after the other.
LEMMA TokensOfTexts ==
    ASSUME NEW pieces, Texts(pieces)
    PROVE  Tokens(FlattenSeq(pieces))
<1> DEFINE flat == FlattenSeq(pieces)
<1>1. AList(pieces) /\ Len(pieces) \in Nat /\ EachAList(pieces, Len(pieces))
  BY DEF Texts, Tokens, EachAList, AList
<1>2. AList(flat) /\ \E off : Laid(flat, pieces, off, Len(pieces))
  BY <1>1, FlattenLaid
<1>3. PICK off : Laid(flat, pieces, off, Len(pieces))
  BY <1>2
<1> HIDE DEF flat
<1>5. ASSUME NEW p \in 1..Len(flat) PROVE IsToken(flat[p])
  <2> DEFINE k == Len(pieces)
  <2>1. k \in Nat /\ EachAList(pieces, k) /\ Laid(flat, pieces, off, k)
    BY <1>1, <1>3
  <2> HIDE DEF k
  <2>2. PICK i \in 1..k : \E j \in 1..Len(pieces[i]) :
            p = off[i - 1] + j /\ flat[p] = pieces[i][j]
    BY <2>1, LaidPlaces
  <2> QED
    BY <2>2 DEF Texts, Tokens, k
<1>6. Tokens(flat)
  BY <1>2, <1>5 DEF Tokens
<1> QED
  BY <1>6 DEF flat

\* What is written of each element, one after the other.
LEMMA TokensOfEach ==
    ASSUME NEW n \in Nat, NEW pieces, pieces = [i \in 1..n |-> pieces[i]],
           \A i \in 1..n : Tokens(pieces[i])
    PROVE  Tokens(FlattenSeq(pieces))
<1>1. AList(pieces) /\ Len(pieces) = n
  BY FunctionIsList
<1>2. Texts(pieces)
  BY <1>1 DEF Texts
<1> QED
  BY <1>2, TokensOfTexts

\* A few tokens.
LEMMA FewTokens ==
    ASSUME NEW a, NEW b, NEW c, IsToken(a), IsToken(b), IsToken(c)
    PROVE  /\ Tokens(<<>>) /\ Tokens(<<a>>) /\ Tokens(<<a, b>>) /\ Tokens(<<a, b, c>>)
BY DEF Tokens, AList

\* What the report is written with.
LEMMA TokensWritten ==
    /\ \A s : IsToken(Word(s))
    /\ \A k : IsToken(Number(k))
    /\ IsToken(Newline) /\ IsToken(Space) /\ IsToken(Bar) /\ IsToken(Backslash) /\ IsToken(EmDash)
BY DEF IsToken, Newline, Space, Bar, Backslash, EmDash

\* A line of a text.
LEMMA LineTokens ==
    ASSUME NEW text, Tokens(text)
    PROVE  Tokens(Line(text))
<1> DEFINE S == {text[i] : i \in 1..Len(text)} \cup {Newline}
<1>1. AList(text)
  BY DEF Tokens
<1>2. text \in Seq(S) /\ Newline \in S /\ Len(text) \in Nat
  BY <1>1, ListIsSeq
<1>3. \A x \in S : IsToken(x)
  BY TokensWritten DEF Tokens
<1> HIDE DEF S
<1>4. Line(text) \in Seq(S)
  BY <1>2 DEF Line
<1>5. \A i \in 1..Len(Line(text)) : Line(text)[i] \in S
  BY <1>4
<1> QED
  BY <1>3, <1>4, <1>5, SeqIsList DEF Tokens

\* Replacing one character by a text.
LEMMA ReplacedTokens ==
    ASSUME NEW text, Tokens(text), NEW c, NEW by, Tokens(by)
    PROVE  Tokens(Replaced(text, c, by))
<1> DEFINE n == Len(text)
           pieces == [i \in 1..n |-> ReplacedChar(text[i], c, by)]
<1>1. AList(text) /\ n \in Nat /\ AList(by)
  BY DEF Tokens, AList
<1>2. pieces = [i \in 1..n |-> pieces[i]]
      /\ \A i \in 1..n : pieces[i] = ReplacedChar(text[i], c, by)
  OBVIOUS
<1>3. Replaced(text, c, by) = FlattenSeq(pieces)
  BY <1>1, ReplacedEach
<1> HIDE DEF pieces
<1>4. \A i \in 1..n : Tokens(pieces[i])
  BY <1>2, FewTokens DEF ReplacedChar, Tokens
<1> QED
  BY <1>1, <1>2, <1>3, <1>4, TokensOfEach

-----------------------------------------------------------------------------
(***************************************************************************)
(* The report is a text, whatever the evidence says.                       *)
(***************************************************************************)
LEMMA SpellTokens ==
    ASSUME NEW x \in Names \cup Locators
    PROVE  Tokens(Spell(x))
<1> DEFINE n == Len(Spelling[x])
<1>1. n \in Nat /\ DOMAIN Spelling[x] = 1..n
  BY SpellingAssumption
<1>2. Spell(x) = [i \in 1..n |-> Word(Spelling[x][i])]
  BY <1>1 DEF Spell
<1>3. AList(Spell(x)) /\ Len(Spell(x)) = n
      /\ \A i \in 1..n : Spell(x)[i] = Word(Spelling[x][i])
  <2> DEFINE s == [i \in 1..n |-> Word(Spelling[x][i])]
  <2>1. s = [i \in 1..n |-> s[i]] /\ \A i \in 1..n : s[i] = Word(Spelling[x][i])
    OBVIOUS
  <2> HIDE DEF s
  <2>2. AList(s) /\ Len(s) = n
    BY <1>1, <2>1, FunctionIsList
  <2>3. Spell(x) = s
    BY <1>2 DEF s
  <2> QED
    BY <2>1, <2>2, <2>3
<1> QED
  BY <1>3, TokensWritten DEF Tokens

\* An instant is written with twelve tokens.
LEMMA StampTokens ==
    ASSUME NEW stamp
    PROVE  Tokens(StampText(stamp))
<1> DEFINE s == StampText(stamp)
<1>1. AList(s) /\ Len(s) = 12
  BY DEF StampText, AList
<1>2. /\ IsToken(s[1]) /\ IsToken(s[2]) /\ IsToken(s[3]) /\ IsToken(s[4])
      /\ IsToken(s[5]) /\ IsToken(s[6]) /\ IsToken(s[7]) /\ IsToken(s[8])
      /\ IsToken(s[9]) /\ IsToken(s[10]) /\ IsToken(s[11]) /\ IsToken(s[12])
  BY TokensWritten DEF StampText
<1> HIDE DEF s
<1>3. \A i \in 1..12 : i = 1 \/ i = 2 \/ i = 3 \/ i = 4 \/ i = 5 \/ i = 6 \/ i = 7 \/ i = 8
                       \/ i = 9 \/ i = 10 \/ i = 11 \/ i = 12
  OBVIOUS
<1>4. \A i \in 1..12 : IsToken(s[i])
  BY <1>2, <1>3
<1>5. Tokens(s)
  BY <1>1, <1>4 DEF Tokens
<1> QED
  BY <1>5 DEF s

\* A value, whichever of the two it is.
LEMMA ValueTokens ==
    ASSUME NEW v \in Value
    PROVE  Tokens(RenderValue(v))
<1>1. CASE IsText(v)
  <2>1. v.text \in Names
    BY <1>1 DEF Value, IsText
  <2> QED
    BY <1>1, <2>1, SpellTokens DEF RenderValue
<1>2. CASE ~ IsText(v)
  BY <1>2, StampTokens DEF RenderValue
<1> QED
  BY <1>1, <1>2

\* A cell of the table.
LEMMA CellTokens ==
    ASSUME NEW text, Tokens(text)
    PROVE  Tokens(Cell(text))
<1>1. Tokens(<<Backslash, Bar>>)
  BY FewTokens, TokensWritten
<1> QED
  BY <1>1, ReplacedTokens DEF Cell

\* A row of cells.
LEMMA TableRowTokens ==
    ASSUME NEW cells, Texts(cells)
    PROVE  Tokens(TableRow(cells))
<1> DEFINE n == Len(cells)
           pieces == [i \in 1..n |-> <<Space>> \o cells[i] \o <<Space, Bar>>]
<1>1. n \in Nat /\ DOMAIN cells = 1..n /\ \A i \in 1..n : Tokens(cells[i])
  BY ListIsSeq DEF Texts
<1>2. ForEach(cells, LAMBDA cell : <<Space>> \o cell \o <<Space, Bar>>) = FlattenSeq(pieces)
  BY <1>1 DEF ForEach
<1>3. Tokens(<<Space>>) /\ Tokens(<<Space, Bar>>) /\ Tokens(<<Bar>>)
  BY FewTokens, TokensWritten
<1>4. ASSUME NEW i \in 1..n PROVE Tokens(pieces[i])
  <2>1. Tokens(<<Space>> \o cells[i])
    BY <1>1, <1>3, TokensJoined
  <2>2. Tokens((<<Space>> \o cells[i]) \o <<Space, Bar>>)
    BY <1>3, <2>1, TokensJoined
  <2> QED
    BY <2>2
<1>5. pieces = [i \in 1..n |-> pieces[i]]
  OBVIOUS
<1> HIDE DEF pieces
<1>6. Tokens(FlattenSeq(pieces))
  BY <1>1, <1>4, <1>5, TokensOfEach
<1>7. Tokens(<<Bar>> \o FlattenSeq(pieces))
  BY <1>3, <1>6, TokensJoined
<1> QED
  BY <1>2, <1>7 DEF TableRow

\* The row of a value.
LEMMA RowTokens ==
    ASSUME NEW row \in ReportRow
    PROVE  Tokens(RowText(row))
<1>1. row.value \in Value /\ row.locator \in Locators
  BY DEF ReportRow
<1> DEFINE a == <<Word(row.attribute)>>
           b == <<Word(row.consistency)>>
           c == Cell(RenderValue(row.value))
           d == <<Word(row.source)>>
           e == Cell(Spell(row.locator))
           cells == <<a, b, c, d, e>>
<1>2. Tokens(a) /\ Tokens(b) /\ Tokens(d)
  BY FewTokens, TokensWritten
<1>3. Tokens(c) /\ Tokens(e)
  BY <1>1, ValueTokens, SpellTokens, CellTokens
<1> HIDE DEF a, b, c, d, e
<1>4. /\ AList(cells) /\ Len(cells) = 5
      /\ cells[1] = a /\ cells[2] = b /\ cells[3] = c /\ cells[4] = d /\ cells[5] = e
  BY DEF AList
<1> HIDE DEF cells
<1>5. \A i \in 1..5 : i = 1 \/ i = 2 \/ i = 3 \/ i = 4 \/ i = 5
  OBVIOUS
<1>6. Texts(cells)
  BY <1>2, <1>3, <1>4, <1>5 DEF Texts
<1>7. Tokens(TableRow(cells))
  BY <1>6, TableRowTokens
<1> QED
  BY <1>7 DEF RowText, cells, a, b, c, d, e

\* The heading of a device.
LEMMA HeadingTokens ==
    ASSUME NEW device \in Names
    PROVE  Tokens(Heading(device))
BY FewTokens, TokensWritten, SpellTokens, TokensJoined DEF Heading

\* The table of a device.
LEMMA DeviceTokens ==
    ASSUME NEW table, table.device \in Names, table.rows \in Seq(ReportRow)
    PROVE  Tokens(DeviceText(table))
<1> DEFINE n == Len(table.rows)
           pieces == [i \in 1..n |-> Line(RowText(table.rows[i]))]
           a == Line(Line(Heading(table.device)))
           b == Line(<<Word("| Attribute | Consistency | Value | Source | Locator |")>>)
           c == Line(<<Word("|---|---|---|---|---|")>>)
<1>1. n \in Nat /\ DOMAIN table.rows = 1..n /\ \A i \in 1..n : table.rows[i] \in ReportRow
  OBVIOUS
<1>2. \A i \in 1..n : Tokens(pieces[i])
  BY <1>1, RowTokens, LineTokens
<1>3. pieces = [i \in 1..n |-> pieces[i]]
  OBVIOUS
<1>4. ForEach(table.rows, LAMBDA row : Line(RowText(row))) = FlattenSeq(pieces)
  BY <1>1 DEF ForEach
<1> HIDE DEF pieces, n
<1>5. Tokens(FlattenSeq(pieces))
  BY <1>1, <1>2, <1>3, TokensOfEach
<1>6. Tokens(a)
  BY HeadingTokens, LineTokens
<1>7. Tokens(b) /\ Tokens(c)
  BY FewTokens, TokensWritten, LineTokens
<1>8. Tokens(Line(<<>>))
  BY FewTokens, TokensWritten, LineTokens
<1> HIDE DEF a, b, c
<1>9. Tokens(a \o b)
  BY <1>6, <1>7, TokensJoined
<1>10. Tokens((a \o b) \o c)
  BY <1>7, <1>9, TokensJoined
<1>11. Tokens(((a \o b) \o c) \o FlattenSeq(pieces))
  BY <1>5, <1>10, TokensJoined
<1>12. Tokens((((a \o b) \o c) \o FlattenSeq(pieces)) \o Line(<<>>))
  BY <1>8, <1>11, TokensJoined
<1> QED
  BY <1>4, <1>12 DEF DeviceText, a, b, c

\* What the note of a finding names.
IsNoted(f) ==
    IF f.code = "USB-VOLUME-REFORMATTED"
    THEN f.label \in Names /\ f.serials \in SUBSET Names /\ IsFiniteSet(f.serials)
    ELSE f.device \in Names

\* A quoted label.
LEMMA DebugTokens ==
    ASSUME NEW text, Tokens(text)
    PROVE  Tokens(DebugText(text))
<1> DEFINE a == Replaced(text, "\\", <<Backslash, Backslash>>)
           b == Replaced(a, "\"", <<Backslash, Word("\"")>>)
           c == Replaced(b, "\n", <<Backslash, Word("n")>>)
           q == <<Word("\"")>>
<1>1. /\ Tokens(<<Backslash, Backslash>>) /\ Tokens(<<Backslash, Word("\"")>>)
      /\ Tokens(<<Backslash, Word("n")>>) /\ Tokens(q)
  BY FewTokens, TokensWritten
<1>2. Tokens(a)
  BY <1>1, ReplacedTokens
<1> HIDE DEF a
<1>3. Tokens(b)
  BY <1>1, <1>2, ReplacedTokens
<1> HIDE DEF b
<1>4. Tokens(c)
  BY <1>1, <1>3, ReplacedTokens
<1> HIDE DEF c, q
<1>5. Tokens(q \o c)
  BY <1>1, <1>4, TokensJoined
<1>6. Tokens((q \o c) \o q)
  BY <1>1, <1>5, TokensJoined
<1> QED
  BY <1>6 DEF DebugText, a, b, c, q

\* The members of a set of names, one after the other.
LEMMA NamesTokens ==
    ASSUME NEW S \in SUBSET Names, IsFiniteSet(S)
    PROVE  Tokens(ForEach(AsSeq(S), Spell))
<1>1. PICK list : list = AsSeq(S)
  OBVIOUS
<1>2. list \in Seq(S)
  BY <1>1, AsSeqMembers
<1> DEFINE n == Len(list)
           pieces == [i \in 1..n |-> Spell(list[i])]
<1>3. n \in Nat /\ DOMAIN list = 1..n /\ \A i \in 1..n : list[i] \in S
  BY <1>2
<1>4. ForEach(list, Spell) = FlattenSeq(pieces)
  BY <1>3 DEF ForEach
<1>5. \A i \in 1..n : Tokens(pieces[i])
  BY <1>3, SpellTokens
<1>6. pieces = [i \in 1..n |-> pieces[i]]
  OBVIOUS
<1> HIDE DEF pieces
<1>7. Tokens(FlattenSeq(pieces))
  BY <1>3, <1>5, <1>6, TokensOfEach
<1> QED
  BY <1>1, <1>4, <1>7

\* The note of a finding.
LEMMA NoteTokens ==
    ASSUME NEW f, IsNoted(f)
    PROVE  Tokens(Note(f))
<1>1. CASE f.code = "USB-VOLUME-REFORMATTED"
  <2> DEFINE a == <<Word("volume ")>>
             b == DebugText(Spell(f.label))
             c == <<Space, Word("(")>>
             d == ForEach(AsSeq(f.serials), Spell)
             e == <<Word(")")>>
  <2>1. f.label \in Names /\ f.serials \in SUBSET Names /\ IsFiniteSet(f.serials)
    BY <1>1 DEF IsNoted
  <2>2. Tokens(a) /\ Tokens(c) /\ Tokens(e)
    BY FewTokens, TokensWritten
  <2>3. Tokens(b)
    BY <2>1, SpellTokens, DebugTokens
  <2>4. Tokens(d)
    BY <2>1, NamesTokens
  <2>5. Note(f) = ((((a \o b) \o c) \o d) \o e)
    BY <1>1 DEF Note
  <2> HIDE DEF a, b, c, d, e
  <2>6. Tokens(a \o b)
    BY <2>2, <2>3, TokensJoined
  <2>7. Tokens((a \o b) \o c)
    BY <2>2, <2>6, TokensJoined
  <2>8. Tokens(((a \o b) \o c) \o d)
    BY <2>4, <2>7, TokensJoined
  <2>9. Tokens((((a \o b) \o c) \o d) \o e)
    BY <2>2, <2>8, TokensJoined
  <2> QED
    BY <2>5, <2>9
<1>2. CASE f.code # "USB-VOLUME-REFORMATTED"
  <2>1. f.device \in Names /\ Note(f) = <<Word("device ")>> \o Spell(f.device)
    BY <1>2 DEF IsNoted, Note
  <2>2. Tokens(<<Word("device ")>>)
    BY FewTokens, TokensWritten
  <2>3. Tokens(Spell(f.device))
    BY <2>1, SpellTokens
  <2>4. Tokens(<<Word("device ")>> \o Spell(f.device))
    BY <2>2, <2>3, TokensJoined
  <2> QED
    BY <2>1, <2>4
<1> QED
  BY <1>1, <1>2

\* A finding.
LEMMA FindingTokens ==
    ASSUME NEW f, IsNoted(f)
    PROVE  Tokens(FindingText(f))
<1> DEFINE a == <<Word("- **["), Word(f.code), Word("]** ")>>
           b == <<EmDash, Space>>
           head == <<Word("- **["), Word(f.code), Word("]** "), EmDash, Space>>
<1>1. AList(head) /\ Len(head) = 5
  BY DEF AList
<1>2. /\ IsToken(head[1]) /\ IsToken(head[2]) /\ IsToken(head[3]) /\ IsToken(head[4])
      /\ IsToken(head[5])
  BY TokensWritten
<1> HIDE DEF head
<1>3. \A i \in 1..5 : i = 1 \/ i = 2 \/ i = 3 \/ i = 4 \/ i = 5
  OBVIOUS
<1>4. Tokens(head)
  BY <1>1, <1>2, <1>3 DEF Tokens
<1>5. Tokens(head \o Note(f))
  BY <1>4, NoteTokens, TokensJoined
<1>6. Tokens(Line(head \o Note(f)))
  BY <1>5, LineTokens
<1> QED
  BY <1>6 DEF FindingText, head

\* The findings, or that there are none.
LEMMA FindingsTokens ==
    ASSUME NEW findings, AList(findings), \A i \in 1..Len(findings) : IsNoted(findings[i])
    PROVE  Tokens(FindingsText(findings))
<1> DEFINE n == Len(findings)
           pieces == [i \in 1..n |-> FindingText(findings[i])]
           none == <<Word("No cross-source conflicts or corroborations surfaced.")>>
<1>1. n \in Nat /\ DOMAIN findings = 1..n
  BY ListIsSeq
<1>2. Tokens(Line(Line(none)))
  BY FewTokens, TokensWritten, LineTokens
<1>3. ForEach(findings, FindingText) = FlattenSeq(pieces)
  BY <1>1 DEF ForEach
<1>4. \A i \in 1..n : Tokens(pieces[i])
  BY FindingTokens
<1>5. pieces = [i \in 1..n |-> pieces[i]]
  OBVIOUS
<1> HIDE DEF pieces
<1>6. Tokens(FlattenSeq(pieces))
  BY <1>1, <1>4, <1>5, TokensOfEach
<1>7. Tokens(Line(<<>>))
  BY FewTokens, TokensWritten, LineTokens
<1>8. Tokens(FlattenSeq(pieces) \o Line(<<>>))
  BY <1>6, <1>7, TokensJoined
<1> QED
  BY <1>2, <1>3, <1>8 DEF FindingsText

\* The summary.
LEMMA SummaryTokens ==
    ASSUME NEW devices, NEW findings
    PROVE  Tokens(Summary(devices, findings))
<1> DEFINE s == Summary(devices, findings)
<1>1. AList(s) /\ Len(s) = 11
  BY DEF Summary, AList
<1>2. /\ IsToken(s[1]) /\ IsToken(s[2]) /\ IsToken(s[3]) /\ IsToken(s[4])
      /\ IsToken(s[5]) /\ IsToken(s[6]) /\ IsToken(s[7]) /\ IsToken(s[8])
      /\ IsToken(s[9]) /\ IsToken(s[10]) /\ IsToken(s[11])
  BY TokensWritten DEF Summary
<1> HIDE DEF s
<1>3. \A i \in 1..11 : i = 1 \/ i = 2 \/ i = 3 \/ i = 4 \/ i = 5 \/ i = 6 \/ i = 7 \/ i = 8
                       \/ i = 9 \/ i = 10 \/ i = 11
  OBVIOUS
<1>4. \A i \in 1..11 : IsToken(s[i])
  BY <1>2, <1>3
<1>5. Tokens(s)
  BY <1>1, <1>4 DEF Tokens
<1> QED
  BY <1>5 DEF s

\* The last section.
LEMMA MethodologyTokens == Tokens(ForEach(Methodology, LAMBDA item : Line(<<Word(item)>>)))
<1> DEFINE pieces == [i \in 1..3 |-> Line(<<Word(Methodology[i])>>)]
<1>1. DOMAIN Methodology = 1..3
  BY DEF Methodology
<1>2. ForEach(Methodology, LAMBDA item : Line(<<Word(item)>>)) = FlattenSeq(pieces)
  BY <1>1 DEF ForEach
<1>3. \A i \in 1..3 : Tokens(pieces[i])
  BY FewTokens, TokensWritten, LineTokens
<1>4. pieces = [i \in 1..3 |-> pieces[i]] /\ 3 \in Nat
  OBVIOUS
<1> HIDE DEF pieces
<1> QED
  BY <1>2, <1>3, <1>4, TokensOfEach

\* The rows of a device are rows of its entries.
LEMMA RowsTyped ==
    ASSUME NEW hs, AList(hs), \A k \in 1..Len(hs) : hs[k] \in HistoryEntry, NEW device
    PROVE  RowsFor(hs, device) \in Seq(ReportRow)
<1> DEFINE n == Len(hs)
           seqs == [k \in 1..n |-> IF hs[k].device = device THEN RowsOf(hs[k]) ELSE <<>>]
<1>1. n \in Nat /\ DOMAIN hs = 1..n
  BY ListIsSeq
<1>2. \A k \in 1..n : RowsOf(hs[k]) \in Seq(ReportRow)
  BY RowsOfEntry
<1>3. seqs \in [1..n -> Seq(ReportRow)]
  BY <1>2
<1>4. RowsFor(hs, device) = FlattenSeq(seqs)
  BY <1>1 DEF RowsFor
<1> HIDE DEF seqs
<1>5. seqs \in Seq(Seq(ReportRow))
  BY <1>1, <1>3, TupleIsSeq
<1> QED
  BY <1>4, <1>5, FlattenMembers

-----------------------------------------------------------------------------
(***************************************************************************)
(* What audit finds of a report is finite, and each finding names a device *)
(* or a label and its serials.                                             *)
(***************************************************************************)
LEMMA EntriesTyped ==
    ASSUME NEW hs \in Seq(HistoryEntry)
    PROVE  /\ Len(hs) \in Nat /\ DOMAIN hs = 1..Len(hs) /\ AList(hs)
           /\ \A i \in 1..Len(hs) : /\ hs[i] \in HistoryEntry /\ hs[i].device \in Names
                                    /\ hs[i].values \in Seq(ProvenancedValue)
<1>1. \A e \in HistoryEntry : e.device \in Names /\ e.values \in Seq(ProvenancedValue)
  BY DEF HistoryEntry
<1>2. Len(hs) \in Nat /\ DOMAIN hs = 1..Len(hs) /\ \A i \in 1..Len(hs) : hs[i] \in HistoryEntry
  OBVIOUS
<1> QED
  BY <1>1, <1>2, SeqIsList

\* The values of an attribute are finitely many.
LEMMA ValuesFinite ==
    ASSUME NEW hs \in Seq(HistoryEntry), NEW device, NEW attribute
    PROVE  /\ ValuesOf(hs, device, attribute) \in SUBSET Value
           /\ IsFiniteSet(ValuesOf(hs, device, attribute))
<1> DEFINE P == {j \in DOMAIN hs : GroupOf(hs[j]) = [device |-> device, attribute |-> attribute]}
           sets == {ReportedValues(hs[i].values) : i \in P}
<1>1. /\ Len(hs) \in Nat /\ DOMAIN hs = 1..Len(hs)
      /\ \A i \in 1..Len(hs) : hs[i] \in HistoryEntry /\ hs[i].values \in Seq(ProvenancedValue)
  BY EntriesTyped
<1>2. P \in SUBSET (1..Len(hs))
  BY <1>1
<1> HIDE DEF P
<1>3. IsFiniteSet(P)
  <2>1. IsFiniteSet(1..Len(hs))
    BY <1>1, FS_Interval
  <2> QED
    BY <1>2, <2>1, FS_Subset
<1>4. IsFiniteSet(sets)
  <2> DEFINE f == [i \in P |-> ReportedValues(hs[i].values)]
  <2>1. DOMAIN f = P /\ f = [x \in P |-> f[x]]
    OBVIOUS
  <2>2. sets = {f[x] : x \in P}
    OBVIOUS
  <2> HIDE DEF f, sets
  <2>3. IsFiniteSet({f[x] : x \in P})
    BY <1>3, <2>1, ImageFinite
  <2> QED
    BY <2>2, <2>3
<1>5. \A S \in sets : IsFiniteSet(S)
  BY <1>1, <1>2, ListFinite
<1>6. ASSUME NEW i \in P PROVE ReportedValues(hs[i].values) \in SUBSET Value
  <2> DEFINE values == hs[i].values
  <2>1. values \in Seq(ProvenancedValue)
    BY <1>1, <1>2
  <2> HIDE DEF values
  <2>2. \A k \in DOMAIN values : values[k] \in ProvenancedValue
    BY <2>1
  <2>3. \A pv \in ProvenancedValue : pv.value \in Value
    BY DEF ProvenancedValue
  <2>4. ReportedValues(values) \in SUBSET Value
    BY <2>2, <2>3 DEF ReportedValues, ToSet
  <2> QED
    BY <2>4 DEF values
<1>7. ValuesOf(hs, device, attribute) = UNION sets
  BY DEF ValuesOf, P
<1>8. UNION sets \in SUBSET Value
  BY <1>6
<1> HIDE DEF sets
<1>9. IsFiniteSet(UNION sets)
  BY <1>4, <1>5, FS_UNION
<1> QED
  BY <1>7, <1>8, <1>9

\* So are the texts among them.
LEMMA TextsFinite ==
    ASSUME NEW hs \in Seq(HistoryEntry), NEW device, NEW attribute
    PROVE  /\ TextValues(hs, device, attribute) \in SUBSET Names
           /\ IsFiniteSet(TextValues(hs, device, attribute))
<1> DEFINE V == ValuesOf(hs, device, attribute)
           T == {w \in V : IsText(w)}
           f == [v \in T |-> v.text]
<1>1. V \in SUBSET Value /\ IsFiniteSet(V)
  BY ValuesFinite
<1> HIDE DEF V
<1>2. IsFiniteSet(T) /\ T \in SUBSET Value /\ \A w \in T : IsText(w)
  BY <1>1, FS_Subset
<1>3. TextValues(hs, device, attribute) = {f[v] : v \in T}
  BY DEF TextValues, V
<1>4. \A v \in T : f[v] = v.text
  OBVIOUS
<1> HIDE DEF T
<1>5. DOMAIN f = T /\ f = [x \in T |-> f[x]]
  OBVIOUS
<1>6. \A v \in T : v.text \in Names
  BY <1>2 DEF Value, IsText
<1>7. \A v \in T : f[v] \in Names
  BY <1>6
<1> HIDE DEF f
<1>8. IsFiniteSet({f[v] : v \in T})
  BY <1>2, <1>5, ImageFinite
<1> QED
  BY <1>3, <1>7, <1>8

\* The devices of a report are finitely many.
LEMMA DevicesFinite ==
    ASSUME NEW hs \in Seq(HistoryEntry)
    PROVE  DevicesIn(hs) \in SUBSET Names /\ IsFiniteSet(DevicesIn(hs))
<1> DEFINE f == [i \in DOMAIN hs |-> hs[i].device]
<1>1. /\ Len(hs) \in Nat /\ DOMAIN hs = 1..Len(hs)
      /\ \A i \in 1..Len(hs) : hs[i].device \in Names
  BY EntriesTyped
<1>2. IsFiniteSet(DOMAIN hs)
  BY <1>1, FS_Interval
<1>3. DOMAIN f = DOMAIN hs /\ f = [x \in DOMAIN hs |-> f[x]]
  OBVIOUS
<1>4. DevicesIn(hs) = {f[x] : x \in DOMAIN hs}
  BY DEF DevicesIn
<1>5. DevicesIn(hs) \in SUBSET Names
  BY <1>1 DEF DevicesIn
<1> HIDE DEF f
<1>6. IsFiniteSet({f[x] : x \in DOMAIN hs})
  BY <1>2, <1>3, ImageFinite
<1> QED
  BY <1>4, <1>5, <1>6

\* A union of one finite set for each of finitely many is finite.
LEMMA UnionFinite ==
    ASSUME NEW S, IsFiniteSet(S), NEW f, DOMAIN f = S, f = [x \in S |-> f[x]],
           \A x \in S : IsFiniteSet(f[x])
    PROVE  IsFiniteSet(UNION {f[x] : x \in S})
<1> DEFINE sets == {f[x] : x \in S}
<1>1. IsFiniteSet(sets)
  BY ImageFinite
<1>2. \A T \in sets : IsFiniteSet(T)
  OBVIOUS
<1> HIDE DEF sets
<1>3. IsFiniteSet(UNION sets)
  BY <1>1, <1>2, FS_UNION
<1> QED
  BY <1>3 DEF sets

\* The serials seen with a label are finitely many.
LEMMA SeenFinite ==
    ASSUME NEW hs \in Seq(HistoryEntry), NEW label
    PROVE  SerialsSeenWith(hs, label) \in SUBSET Names /\ IsFiniteSet(SerialsSeenWith(hs, label))
<1> DEFINE D == {d \in DevicesIn(hs) : label \in TextValues(hs, d, "VolumeName")}
           f == [d \in D |-> TextValues(hs, d, "VolumeSerial")]
<1>1. IsFiniteSet(D)
  BY DevicesFinite, FS_Subset
<1>2. SerialsSeenWith(hs, label) = UNION {f[d] : d \in D}
  BY DEF SerialsSeenWith
<1> HIDE DEF D
<1>3. DOMAIN f = D /\ f = [x \in D |-> f[x]]
  OBVIOUS
<1>4. \A d \in D : IsFiniteSet(f[d]) /\ f[d] \in SUBSET Names
  BY TextsFinite
<1> HIDE DEF f
<1>5. IsFiniteSet(UNION {f[d] : d \in D})
  BY <1>1, <1>3, <1>4, UnionFinite
<1> QED
  BY <1>2, <1>4, <1>5

\* The findings of the grades.
LEMMA GradesNoted ==
    ASSUME NEW hs \in Seq(HistoryEntry)
    PROVE  IsFiniteSet(GradeFindings(hs)) /\ \A f \in GradeFindings(hs) : IsNoted(f)
<1> DEFINE P == {j \in DOMAIN hs : hs[j].consistency # "SingleSource"}
           f == [i \in P |-> [code |-> IF hs[i].consistency = "Conflicting"
                                       THEN "USB-TIMESTAMP-CONFLICT" ELSE "USB-DEVICE-HISTORY",
                              device |-> hs[i].device, attribute |-> hs[i].attribute]]
<1>1. /\ Len(hs) \in Nat /\ DOMAIN hs = 1..Len(hs)
      /\ \A i \in 1..Len(hs) : hs[i].device \in Names
  BY EntriesTyped
<1>2. P \in SUBSET (1..Len(hs))
  BY <1>1
<1>3. GradeFindings(hs) = {f[i] : i \in P}
  BY DEF GradeFindings
<1> HIDE DEF P
<1>4. IsFiniteSet(P)
  <2>1. IsFiniteSet(1..Len(hs))
    BY <1>1, FS_Interval
  <2> QED
    BY <1>2, <2>1, FS_Subset
<1>5. DOMAIN f = P /\ f = [x \in P |-> f[x]]
  OBVIOUS
<1>6. \A i \in P : f[i].code # "USB-VOLUME-REFORMATTED" /\ f[i].device = hs[i].device
  OBVIOUS
<1> HIDE DEF f
<1>7. IsFiniteSet({f[i] : i \in P})
  BY <1>4, <1>5, ImageFinite
<1>8. \A i \in P : IsNoted(f[i])
  BY <1>1, <1>2, <1>6 DEF IsNoted
<1> QED
  BY <1>3, <1>7, <1>8

\* A finding that is raised or not.
LEMMA RaisedNoted ==
    ASSUME NEW condition, NEW finding, finding.code # "USB-VOLUME-REFORMATTED",
           finding.device \in Names
    PROVE  /\ IsFiniteSet(RaisedWhen(condition, finding))
           /\ \A f \in RaisedWhen(condition, finding) : IsNoted(f)
<1>1. IsFiniteSet({finding}) /\ IsFiniteSet({})
  BY FS_Singleton, FS_EmptySet
<1> QED
  BY <1>1 DEF RaisedWhen, IsNoted

\* The findings of the kinds of encryption.
LEMMA KindsNoted ==
    ASSUME NEW hs \in Seq(HistoryEntry), NEW device \in Names
    PROVE  LET noted == {[code |-> "USB-VOLUME-ENCRYPTED", device |-> device, kind |-> kind] :
                            kind \in EncryptionKinds(hs, device)}
           IN  IsFiniteSet(noted) /\ \A f \in noted : IsNoted(f)
<1> DEFINE P == {i \in DOMAIN hs :
                    /\ GroupOf(hs[i]) = [device |-> device, attribute |-> "Encryption"]
                    /\ IsText(hs[i].values[1].value)}
           f == [i \in P |-> [code |-> "USB-VOLUME-ENCRYPTED", device |-> device,
                              kind |-> hs[i].values[1].value.text]]
           noted == {[code |-> "USB-VOLUME-ENCRYPTED", device |-> device, kind |-> kind] :
                            kind \in EncryptionKinds(hs, device)}
<1>1. Len(hs) \in Nat /\ DOMAIN hs = 1..Len(hs)
  BY EntriesTyped
<1>2. P \in SUBSET (1..Len(hs))
  BY <1>1
<1>3. EncryptionKinds(hs, device) = {hs[i].values[1].value.text : i \in P}
  BY DEF EncryptionKinds
<1> HIDE DEF P
<1>4. IsFiniteSet(P)
  <2>1. IsFiniteSet(1..Len(hs))
    BY <1>1, FS_Interval
  <2> QED
    BY <1>2, <2>1, FS_Subset
<1>5. DOMAIN f = P /\ f = [x \in P |-> f[x]]
  OBVIOUS
<1>6. \A i \in P : f[i].code # "USB-VOLUME-REFORMATTED" /\ f[i].device = device
  OBVIOUS
<1>7. noted = {f[i] : i \in P}
  <2>1. \A x : x \in noted <=> \E i \in P : x = f[i]
    BY <1>3
  <2> QED
    BY <2>1
<1> HIDE DEF f, noted
<1>8. IsFiniteSet({f[i] : i \in P})
  BY <1>4, <1>5, ImageFinite
<1>9. \A i \in P : IsNoted(f[i])
  BY <1>6 DEF IsNoted
<1>10. IsFiniteSet(noted) /\ \A x \in noted : IsNoted(x)
  BY <1>7, <1>8, <1>9
<1> QED
  BY <1>10 DEF noted

\* The findings of one device.
LEMMA DeviceNoted ==
    ASSUME NEW hs \in Seq(HistoryEntry), NEW device \in Names
    PROVE  IsFiniteSet(DeviceFindings(hs, device)) /\ \A f \in DeviceFindings(hs, device) : IsNoted(f)
<1> DEFINE x == [code |-> "USB-IMPOSSIBLE-ORDERING", device |-> device]
           y == [code |-> "USB-MTP-DEVICE", device |-> device]
           A == RaisedWhen(ImpossibleOrdering(hs, device), x)
           B == {[code |-> "USB-VOLUME-ENCRYPTED", device |-> device, kind |-> kind] :
                            kind \in EncryptionKinds(hs, device)}
           C == RaisedWhen(IsMtp(hs, device), y)
<1>1. /\ x.code # "USB-VOLUME-REFORMATTED" /\ x.device \in Names
      /\ y.code # "USB-VOLUME-REFORMATTED" /\ y.device \in Names
  OBVIOUS
<1> HIDE DEF x, y
<1>2. IsFiniteSet(A) /\ \A f \in A : IsNoted(f)
  BY <1>1, RaisedNoted
<1>3. IsFiniteSet(C) /\ \A f \in C : IsNoted(f)
  BY <1>1, RaisedNoted
<1>4. IsFiniteSet(B) /\ \A f \in B : IsNoted(f)
  BY KindsNoted
<1>5. DeviceFindings(hs, device) = (A \cup B) \cup C
  BY DEF DeviceFindings, x, y
<1> HIDE DEF A, B, C
<1>6. IsFiniteSet(A \cup B)
  BY <1>2, <1>4, FS_Union
<1>7. IsFiniteSet((A \cup B) \cup C)
  BY <1>3, <1>6, FS_Union
<1> QED
  BY <1>2, <1>3, <1>4, <1>5, <1>7

\* The findings of labels seen with two serials.
LEMMA ReformattingNoted ==
    ASSUME NEW hs \in Seq(HistoryEntry)
    PROVE  IsFiniteSet(ReformattingFindings(hs)) /\ \A f \in ReformattingFindings(hs) : IsNoted(f)
<1> DEFINE labels == [d \in DevicesIn(hs) |-> TextValues(hs, d, "VolumeName")]
           All == UNION {labels[d] : d \in DevicesIn(hs)}
           L == {l \in All : Cardinality(SerialsSeenWith(hs, l)) >= 2}
           f == [l \in L |-> [code |-> "USB-VOLUME-REFORMATTED", label |-> l,
                              serials |-> SerialsSeenWith(hs, l)]]
<1>1. IsFiniteSet(DevicesIn(hs))
  BY DevicesFinite
<1>2. DOMAIN labels = DevicesIn(hs) /\ labels = [x \in DevicesIn(hs) |-> labels[x]]
  OBVIOUS
<1>3. \A d \in DevicesIn(hs) : IsFiniteSet(labels[d]) /\ labels[d] \in SUBSET Names
  BY TextsFinite
<1>4. ReformattingFindings(hs) = {f[l] : l \in L}
  BY DEF ReformattingFindings
<1> HIDE DEF labels
<1>5. IsFiniteSet(All)
  BY <1>1, <1>2, <1>3, UnionFinite
<1>6. All \in SUBSET Names
  BY <1>3
<1> HIDE DEF All
<1>7. IsFiniteSet(L) /\ L \in SUBSET Names
  BY <1>5, <1>6, FS_Subset
<1> HIDE DEF L
<1>8. DOMAIN f = L /\ f = [x \in L |-> f[x]]
  OBVIOUS
<1>9. \A l \in L : /\ f[l].code = "USB-VOLUME-REFORMATTED" /\ f[l].label = l
                   /\ f[l].serials = SerialsSeenWith(hs, l)
  OBVIOUS
<1> HIDE DEF f
<1>10. IsFiniteSet({f[l] : l \in L})
  BY <1>7, <1>8, ImageFinite
<1>11. \A l \in L : IsNoted(f[l])
  BY <1>7, <1>9, SeenFinite DEF IsNoted
<1> QED
  BY <1>4, <1>10, <1>11

\* All findings.
LEMMA AuditNoted ==
    ASSUME NEW hs \in Seq(HistoryEntry)
    PROVE  IsFiniteSet(Audit(hs)) /\ \A f \in Audit(hs) : IsNoted(f)
<1> DEFINE found == [d \in DevicesIn(hs) |-> DeviceFindings(hs, d)]
           A == GradeFindings(hs)
           B == UNION {found[d] : d \in DevicesIn(hs)}
           C == ReformattingFindings(hs)
<1>1. IsFiniteSet(DevicesIn(hs)) /\ DevicesIn(hs) \in SUBSET Names
  BY DevicesFinite
<1>2. DOMAIN found = DevicesIn(hs) /\ found = [x \in DevicesIn(hs) |-> found[x]]
  OBVIOUS
<1>3. \A d \in DevicesIn(hs) : IsFiniteSet(found[d]) /\ \A f \in found[d] : IsNoted(f)
  BY <1>1, DeviceNoted
<1>4. Audit(hs) = (A \cup B) \cup C
  BY DEF Audit
<1> HIDE DEF found
<1>5. IsFiniteSet(B)
  BY <1>1, <1>2, <1>3, UnionFinite
<1>6. \A f \in B : IsNoted(f)
  BY <1>3
<1>7. IsFiniteSet(A) /\ \A f \in A : IsNoted(f)
  BY GradesNoted
<1>8. IsFiniteSet(C) /\ \A f \in C : IsNoted(f)
  BY ReformattingNoted
<1> HIDE DEF A, B, C
<1>9. IsFiniteSet(A \cup B)
  BY <1>5, <1>7, FS_Union
<1>10. IsFiniteSet((A \cup B) \cup C)
  BY <1>8, <1>9, FS_Union
<1> QED
  BY <1>4, <1>6, <1>7, <1>8, <1>10

\* The tables of a report, one after the other.
LEMMA TablesTokens ==
    ASSUME NEW cs \in Seq(Claim), NEW hs, IsReportOf(cs, hs)
    PROVE  Tokens(ForEach(ReportTables(hs), DeviceText))
<1> DEFINE devices == DevicesOf(hs)
           tables == ReportTables(hs)
           pieces == [i \in DOMAIN devices |-> DeviceText(tables[i])]
<1>1. PICK N \in Nat : /\ DOMAIN devices = 1..N
                       /\ \A n \in 1..N : \E k \in 1..Len(hs) : devices[n] = hs[k].device
  BY DevicesListed
<1>2. \A k \in 1..Len(hs) : hs[k] \in HistoryEntry /\ hs[k].device \in Names
  BY ReportEntries DEF HistoryEntry
<1>3. AList(hs)
  BY ReportEntries, SeqIsList DEF IsReportOf
<1>4. \A n \in 1..N : devices[n] \in Names
  BY <1>1, <1>2
<1>5. tables = [i \in DOMAIN devices |-> [device |-> devices[i], rows |-> RowsFor(hs, devices[i])]]
  BY DEF ReportTables
<1> HIDE DEF devices, tables
<1>6. /\ DOMAIN tables = 1..N
      /\ \A i \in 1..N : tables[i].device \in Names /\ tables[i].rows \in Seq(ReportRow)
  BY <1>1, <1>2, <1>3, <1>4, <1>5, RowsTyped
<1>7. \A i \in 1..N : Tokens(pieces[i])
  BY <1>1, <1>6, DeviceTokens
<1>8. ForEach(tables, DeviceText) = FlattenSeq(pieces)
  BY <1>1, <1>6 DEF ForEach
<1>9. pieces = [i \in 1..N |-> pieces[i]]
  BY <1>1
<1> HIDE DEF pieces
<1>10. Tokens(FlattenSeq(pieces))
  BY <1>7, <1>9, TokensOfEach
<1> QED
  BY <1>8, <1>10 DEF tables

\* The whole report.
LEMMA ReportTokens ==
    ASSUME NEW cs \in Seq(Claim), NEW hs, IsReportOf(cs, hs)
    PROVE  Tokens(RenderReport(hs))
<1> DEFINE findings == AsSeq(Audit(hs))
           tables == ReportTables(hs)
           a == Line(Line(<<Word("# USB Device History "), EmDash, Word(" Forensic Report")>>))
           b == Line(Line(<<Word("## Executive Summary")>>))
           c == Line(Line(Summary(Len(tables), Len(findings))))
           d == Line(Line(<<Word("## Devices")>>))
           e == ForEach(tables, DeviceText)
           f == Line(Line(<<Word("## Findings")>>))
           g == FindingsText(findings)
           h == Line(Line(<<Word("## Methodology "), Word("&"), Word(" Limitations")>>))
           m == ForEach(Methodology, LAMBDA item : Line(<<Word(item)>>))
<1>1. hs \in Seq(HistoryEntry)
  BY DEF IsReportOf
<1>2. AList(findings) /\ \A i \in 1..Len(findings) : IsNoted(findings[i])
  <2> DEFINE S == Audit(hs)
             list == AsSeq(S)
  <2>1. IsFiniteSet(S) /\ \A x \in S : IsNoted(x)
    BY <1>1, AuditNoted
  <2> HIDE DEF S
  <2>2. list \in Seq(S)
    BY <2>1, AsSeqMembers
  <2> HIDE DEF list
  <2>3. AList(list) /\ \A i \in 1..Len(list) : IsNoted(list[i])
    BY <2>1, <2>2, SeqIsList
  <2> QED
    BY <2>3 DEF list, S
<1>3. RenderReport(hs) = ((((((((a \o b) \o c) \o d) \o e) \o f) \o g) \o h) \o m)
  BY DEF RenderReport
<1>4. Tokens(a) /\ Tokens(b) /\ Tokens(d) /\ Tokens(f) /\ Tokens(h)
  BY FewTokens, TokensWritten, LineTokens
<1>5. Tokens(c)
  BY SummaryTokens, LineTokens
<1>6. Tokens(e)
  BY TablesTokens
<1>7. Tokens(g)
  BY <1>2, FindingsTokens
<1>8. Tokens(m)
  BY MethodologyTokens
<1> HIDE DEF findings, a, b, c, d, e, f, g, h, m
<1>9. Tokens((a \o b) \o c)
  BY <1>4, <1>5, TokensJoined
<1>10. Tokens(((a \o b) \o c) \o d)
  BY <1>4, <1>9, TokensJoined
<1>11. Tokens((((a \o b) \o c) \o d) \o e)
  BY <1>6, <1>10, TokensJoined
<1>12. Tokens(((((a \o b) \o c) \o d) \o e) \o f)
  BY <1>4, <1>11, TokensJoined
<1>13. Tokens((((((a \o b) \o c) \o d) \o e) \o f) \o g)
  BY <1>7, <1>12, TokensJoined
<1>14. Tokens(((((((a \o b) \o c) \o d) \o e) \o f) \o g) \o h)
  BY <1>4, <1>13, TokensJoined
<1>15. Tokens((((((((a \o b) \o c) \o d) \o e) \o f) \o g) \o h) \o m)
  BY <1>8, <1>14, TokensJoined
<1> QED
  BY <1>3, <1>15

-----------------------------------------------------------------------------
\* The places that pass a test are places of the list.
PlacesWithin(places, n) ==
    AList(places) /\ \A k \in 1..Len(places) : places[k] \in 1..n

\* Each place once or not at all.
LEMMA ChosenPlaces ==
    ASSUME NEW n \in Nat, NEW pieces, pieces = [i \in 1..n |-> pieces[i]],
           \A i \in 1..n : pieces[i] = <<i>> \/ pieces[i] = <<>>
    PROVE  PlacesWithin(FlattenSeq(pieces), n)
<1> DEFINE flat == FlattenSeq(pieces)
<1>1. AList(pieces) /\ Len(pieces) = n
  BY FunctionIsList
<1>2. \A x : AList(<<x>>) /\ Len(<<x>>) = 1 /\ <<x>>[1] = x
  BY DEF AList
<1>3. AList(<<>>) /\ Len(<<>>) = 0
  BY DEF AList
<1>4. EachAList(pieces, n)
  BY <1>2, <1>3 DEF EachAList
<1>5. AList(flat) /\ \E off : Laid(flat, pieces, off, n)
  BY <1>1, <1>4, FlattenLaid
<1>6. PICK off : Laid(flat, pieces, off, n)
  BY <1>5
<1> HIDE DEF flat
<1>7. ASSUME NEW p \in 1..Len(flat) PROVE flat[p] \in 1..n
  <2>1. PICK i \in 1..n : \E j \in 1..Len(pieces[i]) :
            p = off[i - 1] + j /\ flat[p] = pieces[i][j]
    <3>1. /\ n \in Nat /\ Laid(flat, pieces, off, n) /\ EachAList(pieces, n)
          /\ p \in 1..Len(flat)
      BY <1>4, <1>6
    <3> QED
      BY ONLY <3>1, LaidPlaces
  <2>2. PICK j \in 1..Len(pieces[i]) : flat[p] = pieces[i][j]
    BY <2>1
  <2>3. pieces[i] = <<i>>
    BY <1>3, <2>2
  <2>4. j = 1
    BY <1>2, <2>2, <2>3
  <2> QED
    BY <1>2, <2>2, <2>3, <2>4
<1>8. PlacesWithin(flat, n)
  BY <1>5, <1>7 DEF PlacesWithin
<1> QED
  BY <1>8 DEF flat

\* The lines of a text are texts.
LEMMA LinesTexts ==
    ASSUME NEW text, Tokens(text)
    PROVE  Texts(Lines(text))
<1> DEFINE n == Len(text)
           pieces == [i \in 1..n |-> IF text[i].t = "\n" THEN <<i>> ELSE <<>>]
           ends == FlattenSeq(pieces)
           From(k) == IF k = 1 THEN 1 ELSE ends[k - 1] + 1
           lines == [k \in 1..Len(ends) |-> SubSeq(text, From(k), ends[k] - 1)]
<1>1. n \in Nat /\ DOMAIN text = 1..n /\ AList(text) /\ \A i \in 1..n : IsToken(text[i])
  BY ListIsSeq DEF Tokens
<1>2. /\ pieces = [i \in 1..n |-> pieces[i]]
      /\ \A i \in 1..n : pieces[i] = <<i>> \/ pieces[i] = <<>>
  OBVIOUS
<1>3. PlacesOf(text, LAMBDA i : text[i].t = "\n") = ends
  BY <1>1 DEF PlacesOf
<1> HIDE DEF pieces
<1>4. PlacesWithin(ends, n)
  BY <1>1, <1>2, ChosenPlaces
<1>5. AList(ends) /\ DOMAIN ends = 1..Len(ends) /\ Len(ends) \in Nat
      /\ \A k \in 1..Len(ends) : ends[k] \in 1..n
  BY <1>4, ListIsSeq DEF PlacesWithin
<1>6. Lines(text) = lines
  BY <1>3, <1>5 DEF Lines
<1> HIDE DEF ends
<1>7. ASSUME NEW k \in 1..Len(ends) PROVE Tokens(SubSeq(text, From(k), ends[k] - 1))
  <2>1. From(k) \in Nat /\ 1 <= From(k)
    <3>1. k = 1 \/ k - 1 \in 1..Len(ends)
      BY <1>5
    <3> QED
      BY <1>1, <1>5, <3>1
  <2>2. PICK a : a = From(k)
    OBVIOUS
  <2>3. PICK b : b = ends[k] - 1
    OBVIOUS
  <2>4. b \in Nat /\ b <= Len(text)
    BY <1>1, <1>5, <2>3
  <2> HIDE DEF From
  <2>5. OfThose(SubSeq(text, a, b), text)
    <3>1. AList(text) /\ a \in Nat /\ b \in Nat /\ 1 <= a /\ b <= Len(text)
      BY <1>1, <2>1, <2>2, <2>4
    <3> QED
      BY ONLY <3>1, AnyPart
  <2>6. Tokens(SubSeq(text, a, b))
    <3> DEFINE part == SubSeq(text, a, b)
    <3>1. AList(part) /\ \A i \in 1..Len(part) : \E j \in 1..n : part[i] = text[j]
      BY <2>5 DEF OfThose
    <3> HIDE DEF part
    <3>2. Tokens(part)
      BY <1>1, <3>1 DEF Tokens
    <3> QED
      BY <3>2 DEF part
  <2> QED
    BY <2>2, <2>3, <2>6
<1>8. /\ lines = [k \in 1..Len(ends) |-> lines[k]]
      /\ \A k \in 1..Len(ends) : Tokens(lines[k])
  BY <1>7
<1> HIDE DEF lines
<1>9. AList(lines) /\ Len(lines) = Len(ends)
  BY <1>5, <1>8, FunctionIsList
<1> QED
  BY <1>6, <1>8, <1>9 DEF Texts

(***************************************************************************)
(* A reader of the PDF gets back every line of the report.                 *)
(***************************************************************************)
THEOREM PdfReadsBackAlways == Spec => []PdfReadsBack
<1>1. IInv => PdfReadsBack
  <2> SUFFICES ASSUME IInv, pc = "done"
               PROVE  ReadsBack(Lines(RenderReport(histories)))
    BY DEF PdfReadsBack, ReadsBack
  <2>1. IsReportOf(claims, histories) /\ claims \in Seq(Claim)
    BY LoopsReport DEF IInv, TypeOK
  <2>2. Tokens(RenderReport(histories))
    BY <2>1, ReportTokens
  <2> QED
    BY <2>2, LinesTexts, FileReadsBack
<1> QED
  BY <1>1, CorrelateInvariant, PTL
=============================================================================
