-------------------------- MODULE MountedVolumes --------------------------
(***************************************************************************)
(* The rule of canonicalize_mounted_volumes (src/reconcile.rs), as         *)
(* operators on the whole list of MountedDevices volumes.                  *)
(***************************************************************************)
EXTENDS Claims, Sequences

CONSTANTS
    Signatures,     \* MBR disk signatures
    Offsets,        \* partition offsets
    DiskName(_)     \* the string "disk-XXXXXXXX" of a signature

ASSUME MountedVolumesAssumption ==
    /\ Signatures \subseteq Nat /\ Offsets \subseteq Nat
    /\ \A s \in Signatures : DiskName(s) \in Names

\* One MBR-form value of MountedDevices, read by peripheral-core.
MountedVolume ==
    [signature : Signatures, offset : Offsets,
     letter : Names \cup {None}, guid : Names \cup {None}]

\* Volumes that share a partition are one volume.
PartitionOf(v) == <<v.signature, v.offset>>

\* The identifiers under which one entry names its volume.
IdentifiersOf(v) == ({v.letter, v.guid} \ {None}) \cup {DiskName(v.signature)}

\* The first n entries that name the partition, and those with a GUID.
EntriesUpTo(volumes, n, partition) == {i \in 1..n : PartitionOf(volumes[i]) = partition}

GuidEntriesUpTo(volumes, n, partition) ==
    {i \in EntriesUpTo(volumes, n, partition) : volumes[i].guid # None}

MembersUpTo(volumes, n, partition) ==
    UNION {IdentifiersOf(volumes[i]) : i \in EntriesUpTo(volumes, n, partition)}

\* The GUID of the last entry that has one: insert overwrites.
CanonicalUpTo(volumes, n, partition) ==
    LET withGuid == GuidEntriesUpTo(volumes, n, partition)
    IN  IF withGuid = {} THEN None
        ELSE volumes[CHOOSE i \in withGuid : \A j \in withGuid : j <= i].guid

EntriesAt(volumes, partition) == EntriesUpTo(volumes, Len(volumes), partition)
MembersAt(volumes, partition) == MembersUpTo(volumes, Len(volumes), partition)
CanonicalAt(volumes, partition) == CanonicalUpTo(volumes, Len(volumes), partition)

PartitionBefore(p, q) == p[1] < q[1] \/ (p[1] = q[1] /\ p[2] < q[2])

\* The partitions with this name and a GUID to move it to.
BridgesOf(volumes, key) ==
    {p \in {PartitionOf(volumes[i]) : i \in 1..Len(volumes)} :
        key \in MembersAt(volumes, p) /\ CanonicalAt(volumes, p) # None}

\* The key a claim keyed by `key` ends under: the canonical GUID of the last
\* such partition in (signature, offset) order.
CanonicalKey(volumes, key) ==
    LET bridges == BridgesOf(volumes, key)
    IN  IF bridges = {} THEN key
        ELSE CanonicalAt(volumes,
                CHOOSE p \in bridges : \A q \in bridges \ {p} : PartitionBefore(q, p))

Canonicalized(cs, volumes) ==
    [i \in DOMAIN cs |-> [cs[i] EXCEPT !.device = CanonicalKey(volumes, @)]]
=============================================================================
