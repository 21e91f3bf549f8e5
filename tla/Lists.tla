-------------------------------- MODULE Lists --------------------------------
(***************************************************************************)
(* Lists in order, as sort and filter leave them: the list is said by what *)
(* stands at each place of it, so that a proof can speak of it.            *)
(***************************************************************************)
EXTENDS Integers, Sequences, FiniteSets

\* Tuples of numbers compared component by component, as a derived Ord does.
Before(s, t) ==
    \E i \in DOMAIN s : s[i] < t[i] /\ \A j \in 1..(i - 1) : s[j] = t[j]

\* The members of DOMAIN rank in the order of their ranks, no two of which are
\* equal: k - 1 members come before the k-th.
ListedBy(rank) ==
    LET earlier == [x \in DOMAIN rank |->
                       Cardinality({y \in DOMAIN rank : Before(rank[y], rank[x])})]
    IN  [k \in 1..Cardinality(DOMAIN rank) |-> CHOOSE x \in DOMAIN rank : earlier[x] = k - 1]

\* Places of a list from the first to the last.
InTurn(places) == ListedBy([i \in places |-> <<i>>])

\* The first of some places.
Earliest(places) == CHOOSE i \in places : \A j \in places : i <= j

\* The elements at some places of a list, in the order of the list.
Kept(list, places) ==
    [k \in 1..Cardinality(places) |->
        list[CHOOSE i \in places : Cardinality({j \in places : j <= i}) = k]]
=============================================================================
