---------------------------- MODULE Canonicalize ----------------------------
(***************************************************************************)
(* canonicalize_mounted_volumes (src/reconcile.rs) as it runs: a loop over *)
(* the volumes names the partitions, a loop over the partitions in key     *)
(* order fills the remap table, a loop over the claims re-keys.            *)
(***************************************************************************)
EXTENDS MountedVolumes

CONSTANT Inputs     \* pairs of a claim list and a volume list

ASSUME CanonicalizeAssumption ==
    Inputs \subseteq [claims : Seq(Claim), volumes : Seq(MountedVolume)]

VARIABLES
    input,      \* the two argument slices
    pc,         \* "name", "bridge", "rekey", "done"
    next,       \* index into the slice the current loop runs over
    names,      \* partition -> identifiers that name it ({}: no map entry)
    canonical,  \* partition -> its GUID (None: no map entry)
    remap,      \* identifier -> canonical key (None: no map entry)
    out         \* the re-keyed claims so far

vars == <<input, pc, next, names, canonical, remap, out>>

Partitions == Signatures \X Offsets

Abstract == INSTANCE Bridging
    WITH bridged <- IF pc = "done" THEN out ELSE <<>>, done <- pc = "done"

\* Types: in particular no absent GUID ever becomes the key of a claim.
TypeOK ==
    /\ input \in Inputs
    /\ pc \in {"name", "bridge", "rekey", "done"}
    /\ next \in Nat \ {0}
    /\ names \in [Partitions -> SUBSET Names]
    /\ canonical \in [Partitions -> Names \cup {None}]
    /\ remap \in [Names -> Names \cup {None}]
    /\ out \in Seq(Claim)

Init ==
    /\ input \in Inputs
    /\ pc = "name"
    /\ next = 1
    /\ names = [p \in Partitions |-> {}]
    /\ canonical = [p \in Partitions |-> None]
    /\ remap = [x \in Names |-> None]
    /\ out = <<>>

Volume == input.volumes[next]
Current == input.claims[next]

\* Mutant: partitions told apart by offset alone, under the first signature.
NameByOffset ==
    /\ pc = "name" /\ next <= Len(input.volumes)
    /\ LET p == <<CHOOSE s \in Signatures : \A t \in Signatures : s <= t, Volume.offset>>
       IN  /\ names' = [names EXCEPT ![p] = @ \cup IdentifiersOf(Volume)]
           /\ canonical' = IF Volume.guid = None THEN canonical
                           ELSE [canonical EXCEPT ![p] = Volume.guid]
    /\ next' = next + 1
    /\ UNCHANGED <<input, pc, remap, out>>

\* Mutant: the GUID is a name of its partition only when there is no letter.
NameLetterOrGuid ==
    /\ pc = "name" /\ next <= Len(input.volumes)
    /\ names' = [names EXCEPT ![PartitionOf(Volume)] =
                    @ \cup IF Volume.letter = None THEN IdentifiersOf(Volume)
                           ELSE IdentifiersOf(Volume) \ {Volume.guid}]
    /\ canonical' = IF Volume.guid = None THEN canonical
                    ELSE [canonical EXCEPT ![PartitionOf(Volume)] = Volume.guid]
    /\ next' = next + 1
    /\ UNCHANGED <<input, pc, remap, out>>

\* First loop: collect the names of a partition; a GUID becomes its key.
NameVolume ==
    /\ pc = "name" /\ next <= Len(input.volumes)
    /\ names' = [names EXCEPT ![PartitionOf(Volume)] = @ \cup IdentifiersOf(Volume)]
    /\ canonical' = IF Volume.guid = None THEN canonical
                    ELSE [canonical EXCEPT ![PartitionOf(Volume)] = Volume.guid]
    /\ next' = next + 1
    /\ UNCHANGED <<input, pc, remap, out>>

NameEnd ==
    /\ pc = "name" /\ next > Len(input.volumes)
    /\ pc' = "bridge"
    /\ UNCHANGED <<input, next, names, canonical, remap, out>>

Named == {p \in Partitions : names[p] # {}}

\* Mutant: the partitions come in no order (a HashMap).
BridgeAnyPartition ==
    /\ pc = "bridge"
    /\ \E p \in Named :
        /\ remap' = IF canonical[p] = None THEN remap
                    ELSE [x \in Names |-> IF x \in names[p] THEN canonical[p] ELSE remap[x]]
        /\ names' = [names EXCEPT ![p] = {}]
    /\ UNCHANGED <<input, pc, next, canonical, out>>

\* Second loop, partitions in (signature, offset) order: every name of a
\* partition with a GUID is mapped to it, over whatever it was mapped to.
BridgePartition ==
    /\ pc = "bridge"
    /\ \E p \in Named :
        /\ \A q \in Named \ {p} : PartitionBefore(p, q)
        /\ remap' = IF canonical[p] = None THEN remap
                    ELSE [x \in Names |-> IF x \in names[p] THEN canonical[p] ELSE remap[x]]
        /\ names' = [names EXCEPT ![p] = {}]
    /\ UNCHANGED <<input, pc, next, canonical, out>>

BridgeEnd ==
    /\ pc = "bridge" /\ Named = {}
    /\ pc' = "rekey"
    /\ next' = 1
    /\ UNCHANGED <<input, names, canonical, remap, out>>

\* Mutant: the key is taken from the map without asking whether it is there.
RekeyUnchecked ==
    /\ pc = "rekey" /\ next <= Len(input.claims)
    /\ out' = Append(out, [Current EXCEPT !.device = remap[Current.device]])
    /\ next' = next + 1
    /\ UNCHANGED <<input, pc, names, canonical, remap>>

\* Third loop: a claim under a remapped name moves, any other is copied.
RekeyClaim ==
    /\ pc = "rekey" /\ next <= Len(input.claims)
    /\ out' = Append(out, IF remap[Current.device] = None THEN Current
                          ELSE [Current EXCEPT !.device = remap[Current.device]])
    /\ next' = next + 1
    /\ UNCHANGED <<input, pc, names, canonical, remap>>

RekeyEnd ==
    /\ pc = "rekey" /\ next > Len(input.claims)
    /\ pc' = "done"
    /\ UNCHANGED <<input, next, names, canonical, remap, out>>

Next ==
    \/ NameVolume \/ NameEnd \/ BridgePartition \/ BridgeEnd
    \/ RekeyClaim \/ RekeyEnd

Spec == Init /\ [][Next]_vars

-----------------------------------------------------------------------------
\* The entries that the first loop has read.
Read == IF pc = "name" THEN next - 1 ELSE Len(input.volumes)

\* The partitions that the second loop has passed: their names are used up.
Passed == {p \in Partitions : names[p] # MembersUpTo(input.volumes, Read, p)}

\* A map entry is the GUID of the last entry read that has one.
LastRead(p, guid) ==
    LET withGuid == GuidEntriesUpTo(input.volumes, Read, p)
    IN  \/ withGuid = {} /\ guid = None
        \/ \E i \in withGuid :
              (\A j \in withGuid : j <= i) /\ guid = input.volumes[i].guid

\* A remap entry is the GUID of the last partition passed that has this name.
LastPassed(x, guid) ==
    LET bridged == {p \in Passed :
                        x \in MembersAt(input.volumes, p) /\ canonical[p] # None}
    IN  \/ bridged = {} /\ guid = None
        \/ \E p \in bridged :
              (\A q \in bridged \ {p} : PartitionBefore(q, p)) /\ guid = canonical[p]

\* Both maps describe the entries read, as far as the second loop left them.
GroupsMatch ==
    /\ pc = "name" => next - 1 <= Len(input.volumes)
    /\ \A p \in Partitions :
        /\ LastRead(p, canonical[p])
        /\ p \in Passed => pc # "name" /\ names[p] = {}

\* The second loop goes through the partitions in order, to the end.
InOrder ==
    /\ \A p \in Passed, q \in Named : PartitionBefore(p, q)
    /\ pc \in {"rekey", "done"} => Named = {}

RemapMatches == \A x \in Names : LastPassed(x, remap[x])

\* The output is, claim by claim, what the rule says of the claims copied.
OutMatches ==
    /\ pc \in {"name", "bridge"} => out = <<>>
    /\ pc \in {"rekey", "done"} => Len(out) = next - 1 /\ next - 1 <= Len(input.claims)
    /\ pc = "done" => next = Len(input.claims) + 1
    /\ \A i \in 1..Len(out) : out[i] = Canonicalized(input.claims, input.volumes)[i]

(***************************************************************************)
(* What the three loops keep up (the inductive invariant of the proofs):   *)
(* the maps describe exactly the entries read, the remap table exactly the *)
(* partitions passed, and the output exactly the claims copied, each as    *)
(* the rule of MountedVolumes has it (reconcile.rs:68-114).                *)
(***************************************************************************)
IInv == TypeOK /\ GroupsMatch /\ InOrder /\ RemapMatches /\ OutMatches

(***************************************************************************)
(* Claims only ever move along the bridge: to a GUID recorded for a        *)
(* partition with the claim's old name, and never away from a name no      *)
(* partition with a GUID has ("a drive letter with no bridged volume GUID  *)
(* is left untouched", reconcile.rs:66).                                   *)
(***************************************************************************)
ImplementsBridging == Abstract!Spec

(***************************************************************************)
(* "A drive-letter fact and a volume-GUID fact collapse onto one canonical *)
(* device key" (reconcile.rs:62-67): two claims under any two names of one *)
(* partition end under one key, even when the partition was given two      *)
(* GUIDs, as long as neither name is also that of another partition.       *)
(***************************************************************************)
PartitionsNamed(x) ==
    {PartitionOf(input.volumes[i]) : i \in {j \in DOMAIN input.volumes :
        x \in IdentifiersOf(input.volumes[j])}}

SameVolumeSameKey ==
    pc = "done" =>
        \A i, j \in DOMAIN input.claims : \A p \in Partitions :
            /\ PartitionsNamed(input.claims[i].device) = {p}
            /\ PartitionsNamed(input.claims[j].device) = {p}
            /\ CanonicalAt(input.volumes, p) # None
            => out[i].device = out[j].device

(***************************************************************************)
(* The order in which the volumes were read from the hives does not        *)
(* matter, unless two hives give one partition different GUIDs.            *)
(***************************************************************************)
OneGuidPerPartition ==
    \A i, j \in DOMAIN input.volumes :
        /\ PartitionOf(input.volumes[i]) = PartitionOf(input.volumes[j])
        /\ None \notin {input.volumes[i].guid, input.volumes[j].guid}
        => input.volumes[i].guid = input.volumes[j].guid

\* In another order each entry is read at some place.
Orders == {f \in [DOMAIN input.volumes -> DOMAIN input.volumes] :
              \A i \in DOMAIN input.volumes : \E j \in DOMAIN input.volumes : f[j] = i}

VolumeOrderIrrelevant ==
    pc = "done" /\ OneGuidPerPartition =>
        \A f \in Orders :
            out = Canonicalized(input.claims, [i \in DOMAIN input.volumes |-> input.volumes[f[i]]])

(***************************************************************************)
(* "Imaging the stick attributes it to the volume" (reconcile.rs:86-88):   *)
(* the serial of a device image, which is that of its first FAT partition, *)
(* ends under the GUID of that partition and of no other.                  *)
(***************************************************************************)
ImageOnItsOwnVolume ==
    pc = "done" =>
        \A i \in DOMAIN input.claims : \A v \in {input.volumes[j] : j \in DOMAIN input.volumes} :
            /\ input.claims[i].source = "DeviceImage"
            /\ input.claims[i].device = DiskName(v.signature)
            /\ \A j \in DOMAIN input.volumes :
                input.volumes[j].signature = v.signature => v.offset <= input.volumes[j].offset
            /\ CanonicalAt(input.volumes, PartitionOf(v)) # None
            => out[i].device = CanonicalAt(input.volumes, PartitionOf(v))
=============================================================================
