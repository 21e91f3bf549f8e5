----------------------------- MODULE Correlate -----------------------------
(***************************************************************************)
(* correlate (src/correlate.rs) as it runs: claims are pushed one by one   *)
(* into a sorted map of groups; the map is then consumed in key order,     *)
(* each group's values sorted and graded.                                  *)
(***************************************************************************)
EXTENDS Grading

CONSTANT Inputs     \* the claim lists handed over by reconciliation

ASSUME CorrelateAssumption == Inputs \subseteq Seq(Claim)

VARIABLES
    claims,     \* the input slice
    pc,         \* "push", "grade", "done"
    next,       \* index of the claim to push
    grouped,    \* group -> its values in arrival order (<<>>: no map entry)
    histories   \* the graded entries so far

vars == <<claims, pc, next, grouped, histories>>

\* The state of the two loops: claims pushed so far, groups left to grade.
TypeOK ==
    /\ claims \in Seq(Claim)
    /\ pc \in {"push", "grade", "done"}
    /\ next \in 1..(Len(claims) + 1)
    /\ grouped \in [Group -> Seq(ProvenancedValue)]
    /\ histories \in Seq(HistoryEntry)

Init ==
    /\ claims \in Inputs
    /\ pc = "push"
    /\ next = 1
    /\ grouped = [group \in Group |-> <<>>]
    /\ histories = <<>>

\* Mutant: a value already in the group is not pushed again.
PushNewClaim ==
    /\ pc = "push" /\ next <= Len(claims)
    /\ LET group == GroupOf(claims[next])
           pv == Provenanced(claims[next])
       IN  grouped' = [grouped EXCEPT ![group] = IF Contains(@, pv) THEN @ ELSE Append(@, pv)]
    /\ next' = next + 1
    /\ UNCHANGED <<claims, pc, histories>>

\* Mutant: insert in place of entry().or_default().push().
PushOverwrites ==
    /\ pc = "push" /\ next <= Len(claims)
    /\ grouped' = [grouped EXCEPT ![GroupOf(claims[next])] = <<Provenanced(claims[next])>>]
    /\ next' = next + 1
    /\ UNCHANGED <<claims, pc, histories>>

PushClaim ==
    /\ pc = "push" /\ next <= Len(claims)
    /\ grouped' = [grouped EXCEPT ![GroupOf(claims[next])] = Append(@, Provenanced(claims[next]))]
    /\ next' = next + 1
    /\ UNCHANGED <<claims, pc, histories>>

PushEnd ==
    /\ pc = "push" /\ next > Len(claims)
    /\ pc' = "grade"
    /\ UNCHANGED <<claims, next, grouped, histories>>

Pending == {group \in Group : grouped[group] # <<>>}

\* The map is consumed in key order: device, then attribute.
GradeGroup ==
    /\ pc = "grade"
    /\ \E group \in Pending : \E values \in Arrangements(grouped[group]) :
        /\ \A other \in Pending \ {group} : Before(GroupRank(group), GroupRank(other))
        /\ InOrder(values)
        /\ histories' = Append(histories, Entry(group, values))
        /\ grouped' = [grouped EXCEPT ![group] = <<>>]
    /\ UNCHANGED <<claims, pc, next>>

GradeEnd ==
    /\ pc = "grade" /\ Pending = {}
    /\ pc' = "done"
    /\ UNCHANGED <<claims, next, grouped, histories>>

Next == PushClaim \/ PushEnd \/ GradeGroup \/ GradeEnd

Spec == Init /\ [][Next]_vars

-----------------------------------------------------------------------------
\* The evidence of a group is in the map, or else in its one history entry.
EvidenceKept ==
    \A group \in Group :
        \/ /\ \A k \in DOMAIN histories : GroupOf(histories[k]) # group
           /\ HoldsUpTo(claims, next - 1, grouped[group], group)
        \/ /\ grouped[group] = <<>>
           /\ \E k \in DOMAIN histories :
                /\ GroupOf(histories[k]) = group
                /\ HoldsUpTo(claims, next - 1, histories[k].values, group)
                /\ \A m \in DOMAIN histories : GroupOf(histories[m]) = group => m = k

\* The report is in order, and what is still to come belongs behind it.
ReportInOrder ==
    /\ \A k, m \in DOMAIN histories :
          k < m => Before(GroupRank(histories[k]), GroupRank(histories[m]))
    /\ \A k \in DOMAIN histories :
          /\ histories[k].values # <<>> /\ InOrder(histories[k].values)
          /\ \A group \in Pending : Before(GroupRank(histories[k]), GroupRank(group))
    /\ pc = "done" => Pending = {}

(***************************************************************************)
(* What the two loops keep up (the inductive invariant of the proofs): no  *)
(* claim read is lost, doubled or filed under another group, whether it is *)
(* still in the map or already graded; each grade is that of the values    *)
(* shown with it; and the report grows in the documented order             *)
(* (correlate.rs:44-77).                                                   *)
(***************************************************************************)
IInv ==
    /\ TypeOK
    /\ pc = "push" => histories = <<>>
    /\ pc # "push" => next = Len(claims) + 1
    /\ EvidenceKept
    /\ \A k \in DOMAIN histories : histories[k].consistency = Grade(histories[k].values)
    /\ ReportInOrder

-----------------------------------------------------------------------------
\* What a grade says of the values it is given for.
Describes(grade, values) ==
    LET Without(container) == {pv \in ToSet(values) : Container(pv.source) # container}
    IN  CASE grade = "Corroborated" ->
                \E v \in ReportedValues(values) : \A container \in ArtifactContainer :
                    {pv.value : pv \in Without(container)} = {v}
          [] grade = "Conflicting" ->
                \E a, b \in ToSet(values) :
                    Container(a.source) # Container(b.source) /\ a.value # b.value
          [] grade = "SingleSource" ->
                \E container \in ArtifactContainer : Without(container) = {}

(***************************************************************************)
(* A description of the evidence (correlate.rs:79-88): a corroborated      *)
(* value outlives the loss of any one container, a conflict is between two *)
(* containers, and a single-source attribute hangs on one container alone. *)
(***************************************************************************)
GradeSound ==
    \A k \in DOMAIN histories : Describes(histories[k].consistency, histories[k].values)

\* What another value may do to a grade.
MayBecome(before, after) ==
    \/ before = "SingleSource"
    \/ before = "Corroborated" /\ after # "SingleSource"
    \/ after = "Conflicting"

(***************************************************************************)
(* Evidence is cumulative: while claims are pushed, another claim may      *)
(* corroborate a group or put it in conflict, but a conflict never goes    *)
(* away and a corroborated group never falls back to a single source.      *)
(***************************************************************************)
GradesOnlyRise ==
    [][pc = "push" => \A group \in Pending :
            MayBecome(Grade(grouped[group]), Grade(grouped'[group]))]_vars

(***************************************************************************)
(* Every value is retained (CorrelatedAttribute.values, correlate.rs:30):  *)
(* the histories hold each claim as many times as it was handed over,      *)
(* under its own device and attribute, and nothing else.                   *)
(***************************************************************************)
ClaimCount(c) == Cardinality({i \in DOMAIN claims : claims[i] = c})

Places == UNION {{<<i, j>> : j \in DOMAIN histories[i].values} : i \in DOMAIN histories}

EvidenceConserved ==
    pc = "done" =>
        /\ \A c \in ToSet(claims) :
            ClaimCount(c) = Cardinality({p \in Places :
                /\ GroupOf(histories[p[1]]) = GroupOf(c)
                /\ histories[p[1]].values[p[2]] = Provenanced(c)})
        /\ \A p \in Places : \E c \in ToSet(claims) :
                /\ GroupOf(histories[p[1]]) = GroupOf(c)
                /\ histories[p[1]].values[p[2]] = Provenanced(c)

(***************************************************************************)
(* "Output is deterministic (by device key, then attribute, then           *)
(* value+provenance)" (correlate.rs:44): the same claims with any two of   *)
(* them exchanged, and so in any other order, give the very same histories.*)
(***************************************************************************)
Exchanged(i, j) == [claims EXCEPT ![i] = claims[j], ![j] = claims[i]]

Reproducible ==
    pc = "done" =>
        \A i, j \in DOMAIN claims : i <= j => Correlated(Exchanged(i, j)) = histories

(***************************************************************************)
(* "Exactly one source reported the value" (lib.rs, Consistency).          *)
(***************************************************************************)
SingleSourceIsOneSource ==
    \A i \in DOMAIN histories :
        histories[i].consistency = "SingleSource" =>
            Cardinality({pv.source : pv \in ToSet(histories[i].values)}) = 1
=============================================================================
