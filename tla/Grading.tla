------------------------------ MODULE Grading ------------------------------
(***************************************************************************)
(* The grading rule and the report order of src/correlate.rs, as operators *)
(* on lists of claims.  Strings are ordered by their place in NameOrder    *)
(* and LocatorOrder, which stands for their byte order.                    *)
(***************************************************************************)
EXTENDS Claims, Lists, SequencesExt

CONSTANTS
    NameOrder,      \* the strings of Names in byte order
    LocatorOrder    \* the locators in byte order

ASSUME OrderAssumption ==
    /\ NameOrder \in Seq(Names) /\ ToSet(NameOrder) = Names /\ IsInjective(NameOrder)
    /\ LocatorOrder \in Seq(Locators) /\ ToSet(LocatorOrder) = Locators
    /\ IsInjective(LocatorOrder)

\* The declaration order of the enums, which is their derived Ord.
AttributeOrder ==
    <<"FirstConnected", "LastConnected", "LastRemoved", "VolumeName", "VolumeSerial",
      "AccessedFile", "BrowsedFolder", "DriveLetter", "Encryption", "DeviceClass">>

SourceOrder ==
    <<"Usbstor", "MountedDevices", "SetupApi", "PartitionDiag", "KernelPnp",
      "DriverFramework", "Lnk", "JumpList", "LinuxKernelLog", "VolumeInfoCache",
      "MountPoints2", "Shellbag", "EmdMgmt", "DeviceImage", "AppleIPod", "MacosUsb",
      "MacosUnifiedLog">>

Rank(order, x) == CHOOSE i \in DOMAIN order : order[i] = x

\* Timestamps sort before texts; then source, then locator.
ValueRank(v) == IF IsText(v) THEN <<1, Rank(NameOrder, v.text)>> ELSE <<0, v.at>>

ProvenancedRank(pv) ==
    ValueRank(pv.value) \o <<Rank(SourceOrder, pv.source), Rank(LocatorOrder, pv.locator)>>

GroupRank(g) == <<Rank(NameOrder, g.device), Rank(AttributeOrder, g.attribute)>>

\* The lists of the same elements, each as often.
Arrangements(values) ==
    {[i \in DOMAIN values |-> values[f[i]]] : f \in Bijection(DOMAIN values, DOMAIN values)}

\* Mutant: in order by value alone, provenance anyhow.
InValueOrder(values) ==
    \A i, j \in DOMAIN values :
        i < j => ~ Before(ValueRank(values[j].value), ValueRank(values[i].value))

\* What sort leaves: no element before one that precedes it.
InOrder(values) ==
    \A i, j \in DOMAIN values :
        i < j => ~ Before(ProvenancedRank(values[j]), ProvenancedRank(values[i]))

ContainersOf(values) == {Container(pv.source) : pv \in ToSet(values)}
ReportedValues(values) == {pv.value : pv \in ToSet(values)}

\* Mutant: independence counted by recording mechanism, not by container.
GradeBySource(values) ==
    IF Cardinality({pv.source : pv \in ToSet(values)}) < 2 THEN "SingleSource"
    ELSE IF Cardinality(ReportedValues(values)) = 1 THEN "Corroborated"
    ELSE "Conflicting"

\* Mutant: two containers settle the grade, a third undoes it.
GradeExactlyTwo(values) ==
    IF Cardinality(ContainersOf(values)) # 2 THEN "SingleSource"
    ELSE IF Cardinality(ReportedValues(values)) = 1 THEN "Corroborated"
    ELSE "Conflicting"

Grade(values) ==
    IF Cardinality(ContainersOf(values)) < 2 THEN "SingleSource"
    ELSE IF Cardinality(ReportedValues(values)) = 1 THEN "Corroborated"
    ELSE "Conflicting"

Consistency == {"SingleSource", "Corroborated", "Conflicting"}

Group == [device : Names, attribute : Attribute]

Provenanced(c) == [value |-> c.value, source |-> c.source, locator |-> c.locator]

\* One attribute of one device's history.  A DeviceHistory of the code is the
\* run of consecutive entries that name its device.
Entry(group, values) ==
    [device |-> group.device, attribute |-> group.attribute,
     consistency |-> Grade(values), values |-> values]

GroupOf(c) == [device |-> c.device, attribute |-> c.attribute]

\* The values of a group, sorted; equal ones as they came.
EvidenceFor(cs, group) ==
    LET order == ListedBy([i \in {j \in DOMAIN cs : GroupOf(cs[j]) = group} |->
                              ProvenancedRank(Provenanced(cs[i])) \o <<i>>])
    IN  [k \in DOMAIN order |-> Provenanced(cs[order[k]])]

\* The members of a finite set in some order, one element at a time.
AsSeq(S) == FoldSet(LAMBDA x, list : Append(list, x), <<>>, S)

\* The histories of a claim list, in one step.
Correlated(cs) ==
    LET groups == ListedBy([group \in {GroupOf(c) : c \in ToSet(cs)} |-> GroupRank(group)])
    IN  [k \in DOMAIN groups |-> Entry(groups[k], EvidenceFor(cs, groups[k]))]

-----------------------------------------------------------------------------
HistoryEntry ==
    [device : Names, attribute : Attribute, consistency : Consistency,
     values : Seq(ProvenancedValue)]

\* Where the first n claims are this one, and where a list holds it.
ReadAs(cs, n, c) == {i \in 1..n : cs[i] = c}
PlacesIn(values, c) == {j \in DOMAIN values : values[j] = Provenanced(c)}

\* The list holds those of the first n claims that are of the group, each as
\* often, and nothing else.
HoldsUpTo(cs, n, values, group) ==
    /\ \A c \in ToSet(cs) : GroupOf(c) = group =>
            Cardinality(PlacesIn(values, c)) = Cardinality(ReadAs(cs, n, c))
    /\ \A j \in DOMAIN values : \E i \in 1..n :
            GroupOf(cs[i]) = group /\ values[j] = Provenanced(cs[i])

(***************************************************************************)
(* What correlate promises of the histories of a claim list, without       *)
(* saying how they are made: entries in order of device and attribute, one *)
(* for every group that has a claim, each with the evidence of its group   *)
(* in order and under its grade.                                           *)
(***************************************************************************)
IsReportOf(cs, hs) ==
    /\ hs \in Seq(HistoryEntry)
    /\ \A k, m \in DOMAIN hs : k < m => Before(GroupRank(hs[k]), GroupRank(hs[m]))
    /\ \A k \in DOMAIN hs :
        /\ hs[k].values # <<>> /\ InOrder(hs[k].values)
        /\ hs[k].consistency = Grade(hs[k].values)
        /\ HoldsUpTo(cs, Len(cs), hs[k].values, GroupOf(hs[k]))
    /\ \A i \in DOMAIN cs : \E k \in DOMAIN hs : GroupOf(hs[k]) = GroupOf(cs[i])
=============================================================================
