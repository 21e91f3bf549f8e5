------------------------- MODULE DeviceImage_proofs -------------------------
(***************************************************************************)
(* For disks of any number of partitions, sectors of any length and every  *)
(* way of splitting the reads: analyse_device_image returns the medium's   *)
(* sector, the most definite encryption state and the first short serial.  *)
(***************************************************************************)
EXTENDS DeviceImage, TLAPS

-----------------------------------------------------------------------------
\* What the proofs need of the encryption kinds.

\* An absent kind ranks below every kind.
LEMMA RankBounds ==
    /\ Rank(None) = 0
    /\ \A kind \in EncryptionKind : Rank(kind) \in Int /\ Rank(kind) > 0
BY DeviceImageAssumption DEF Rank, EncryptionKind

\* Whatever a partition holds, it has a kind or none.
LEMMA KindType ==
    ASSUME NEW p \in Partition
    PROVE  KindOf(p) \in EncryptionKind \cup {None}
BY DeviceImageAssumption DEF KindOf, EncryptionOf, EncryptionKind, Partition

LEMMA RankType ==
    ASSUME NEW kind \in EncryptionKind \cup {None}
    PROVE  Rank(kind) \in Int /\ Rank(kind) >= 0
BY RankBounds

LEMMA ReportType ==
    ASSUME report \in Reports
    PROVE  /\ report \in Report
           /\ Len(report.partitions) \in Nat
           /\ \A j \in 1..Len(report.partitions) : report.partitions[j] \in Partition
BY ReportsAssumption DEF Report

LEMMA MediumType ==
    ASSUME medium \in Media
    PROVE  /\ Len(medium) \in Nat /\ Len(medium) <= SectorLen
           /\ \A i \in 1..Len(medium) : medium[i] \in Bytes
           /\ SectorLen \in Nat \ {0} /\ Zero \in Bytes
BY DeviceImageAssumption

-----------------------------------------------------------------------------
\* The folds, one partition further.

\* Passing a partition adds it to those that count, or nothing.
LEMMA CountedStep ==
    ASSUME NEW n \in 1..Len(report.partitions), Len(report.partitions) \in Nat
    PROVE  CountedBefore(n + 1) =
               CountedBefore(n) \cup (IF Counts(report.partitions[n]) THEN {n} ELSE {})
<1>1. \A j \in 1..Len(report.partitions) : j < n + 1 <=> j < n \/ j = n
  OBVIOUS
<1> QED BY <1>1 DEF CountedBefore

LEMMA CountedBelow ==
    ASSUME NEW n, NEW j \in CountedBefore(n)
    PROVE  j \in 1..Len(report.partitions) /\ j < n
BY DEF CountedBefore

\* At the first partition there is nothing behind.
LEMMA NothingBeforeFirst == CountedBefore(1) = {}
<1>1. \A j \in 1..Len(report.partitions) : ~ (j < 1)
  OBVIOUS
<1> QED BY <1>1 DEF CountedBefore

\* Recording a partition keeps the encryption state the most definite one.
LEMMA DefiniteStep ==
    ASSUME report \in Reports,
           NEW n \in 1..Len(report.partitions), Counts(report.partitions[n]),
           NEW kind \in EncryptionKind \cup {None}, IsMostDefinite(kind, n),
           NEW new, new = KindOf(report.partitions[n])
    PROVE  IsMostDefinite(IF Rank(new) > Rank(kind) THEN new ELSE kind, n + 1)
<1> DEFINE K(j) == KindOf(report.partitions[j])
<1>1. /\ Len(report.partitions) \in Nat
      /\ \A j \in 1..Len(report.partitions) : Rank(K(j)) \in Int /\ Rank(K(j)) >= 0
      /\ new \in EncryptionKind \cup {None}
      /\ Rank(new) \in Int /\ Rank(kind) \in Int /\ Rank(kind) >= 0
  BY ReportType, KindType, RankType
<1>2. CountedBefore(n + 1) = CountedBefore(n) \cup {n}
  BY CountedStep, <1>1
<1>3. \A j \in CountedBefore(n) :
          j \in 1..Len(report.partitions) /\ Rank(K(j)) \in Int /\ Rank(K(j)) <= Rank(kind)
  BY <1>1, CountedBelow DEF IsMostDefinite
<1>4. CASE Rank(new) > Rank(kind)
  <2>1. \A j \in CountedBefore(n + 1) : Rank(K(j)) <= Rank(new)
    BY <1>1, <1>2, <1>3, <1>4
  <2>2. Holds(new, n + 1)
    <3>1. n \in CountedBefore(n + 1)
      BY <1>2
    <3>2. \A k \in CountedBefore(n) : Rank(K(k)) < Rank(new)
      BY <1>1, <1>3, <1>4
    <3> QED BY <3>1, <3>2 DEF Holds
  <2> QED BY <1>4, <2>1, <2>2 DEF IsMostDefinite
<1>5. CASE ~ (Rank(new) > Rank(kind))
  <2>1. \A j \in CountedBefore(n + 1) : Rank(K(j)) <= Rank(kind)
    BY <1>1, <1>2, <1>3, <1>5
  <2>2. kind # None => Holds(kind, n + 1)
    BY <1>2 DEF IsMostDefinite, Holds
  <2> QED BY <1>5, <2>1, <2>2 DEF IsMostDefinite
<1> QED BY <1>4, <1>5

\* Recording a partition keeps the first short serial.
LEMMA SerialStep ==
    ASSUME report \in Reports,
           NEW n \in 1..Len(report.partitions), Counts(report.partitions[n]),
           NEW serial \in Serials \cup {None}, IsFirstSerial(serial, n),
           NEW new, new = report.partitions[n].volume_serial
    PROVE  IsFirstSerial(IF serial = None /\ new \in Serials THEN new ELSE serial, n + 1)
<1>1. CountedBefore(n + 1) = CountedBefore(n) \cup {n}
  BY CountedStep, ReportType
<1>2. CASE serial = None /\ new \in Serials
  <2>1. \A k \in CountedBefore(n) : report.partitions[k].volume_serial \notin Serials
    BY <1>2 DEF IsFirstSerial
  <2>2. new # None
    BY <1>2, DeviceImageAssumption
  <2> QED BY <1>1, <1>2, <2>1, <2>2 DEF IsFirstSerial
<1>3. CASE serial = None /\ new \notin Serials
  BY <1>1, <1>3 DEF IsFirstSerial
<1>4. CASE serial # None
  BY <1>1, <1>4 DEF IsFirstSerial
<1> QED BY <1>2, <1>3, <1>4

\* Skipping a partition that does not count changes neither.
LEMMA SkipStep ==
    ASSUME NEW n \in 1..Len(report.partitions), Len(report.partitions) \in Nat,
           ~ Counts(report.partitions[n]),
           NEW kind, IsMostDefinite(kind, n), NEW serial, IsFirstSerial(serial, n)
    PROVE  IsMostDefinite(kind, n + 1) /\ IsFirstSerial(serial, n + 1)
<1>1. CountedBefore(n + 1) = CountedBefore(n)
  BY CountedStep
<1> QED BY <1>1 DEF IsMostDefinite, Holds, IsFirstSerial

-----------------------------------------------------------------------------
\* The start: nothing read, nothing recorded.
LEMMA InitIInv == Init => IInv
<1> SUFFICES ASSUME Init PROVE IInv
  OBVIOUS
<1>1. /\ Len(report.partitions) \in Nat
      /\ Len(medium) \in Nat /\ SectorLen \in Nat \ {0} /\ Zero \in Bytes
  BY ReportType, MediumType DEF Init
<1>2. TypeOK
  BY <1>1 DEF Init, TypeOK, Buffer
<1>3. buf = [i \in 1..SectorLen |-> IF i <= filled THEN medium[i] ELSE Zero]
  BY <1>1 DEF Init
<1>4. IsMostDefinite(encryption, next) /\ IsFirstSerial(fat_volume_serial, next)
  BY NothingBeforeFirst DEF Init, IsMostDefinite, IsFirstSerial
<1> QED BY <1>2, <1>3, <1>4 DEF Init, IInv

\* No step changes the report, so the folds may be read on either side of it.
LEMMA SameReport ==
    ASSUME report' = report
    PROVE  /\ IsMostDefinite(encryption, next)' <=> IsMostDefinite(encryption', next')
           /\ IsFirstSerial(fat_volume_serial, next)' <=> IsFirstSerial(fat_volume_serial', next')
BY DEF IsMostDefinite, Holds, IsFirstSerial, CountedBefore, Counts, KindOf

\* The loops preserve the invariant, action by action.
LEMMA NextIInv == IInv /\ [Next]_vars => IInv'
<1> SUFFICES ASSUME IInv, [Next]_vars PROVE IInv'
  OBVIOUS
<1> USE DEF IInv, TypeOK
<1> DEFINE n == Len(report.partitions)
<1>1. /\ n \in Nat
      /\ \A j \in 1..n : report.partitions[j] \in Partition
      /\ Len(medium) \in Nat /\ Len(medium) <= SectorLen
      /\ \A i \in 1..Len(medium) : medium[i] \in Bytes
      /\ SectorLen \in Nat \ {0} /\ Zero \in Bytes
  BY ReportType, MediumType
<1>2. CASE RejectScheme
  BY <1>1, <1>2, SameReport DEF RejectScheme
<1>3. CASE AcceptScheme
  BY <1>1, <1>3, SameReport DEF AcceptScheme
<1>4. CASE ReadSome
  <2>1. PICK k \in 1..(Len(medium) - filled) :
            /\ buf' = [i \in 1..SectorLen |->
                          IF i \in (filled + 1)..(filled + k) THEN medium[i] ELSE buf[i]]
            /\ filled' = filled + k
    BY <1>4 DEF ReadSome
  <2>2. buf' = [i \in 1..SectorLen |-> IF i <= filled' THEN medium[i] ELSE Zero]
    BY <1>1, <2>1
  <2>3. buf' \in Buffer /\ filled' \in 0..SectorLen /\ filled' <= Len(medium)
    BY <1>1, <2>1 DEF Buffer
  <2> QED BY <1>1, <1>4, <2>2, <2>3, SameReport DEF ReadSome
<1>5. CASE ReadError
  BY <1>1, <1>5, SameReport DEF ReadError
<1>6. CASE ReadEnd
  BY <1>1, <1>6, SameReport DEF ReadEnd
<1>7. CASE RecordPartition
  <2>1. next \in 1..n /\ Counts(report.partitions[next]) /\ next' = next + 1 /\ report' = report
    BY <1>1, <1>7 DEF RecordPartition, Here
  <2>2. KindOf(report.partitions[next]) \in EncryptionKind \cup {None}
    BY <1>1, <2>1, KindType
  <2>3. IsMostDefinite(encryption', next + 1)
    BY <2>1, <1>7, DefiniteStep DEF RecordPartition, Here
  <2>4. IsFirstSerial(fat_volume_serial', next + 1)
    BY <2>1, <1>7, SerialStep DEF RecordPartition, Here
  <2>5. encryption' \in EncryptionKind \cup {None} /\ fat_volume_serial' \in Serials \cup {None}
    BY <2>2, <1>7 DEF RecordPartition, Here
  <2> QED BY <1>1, <1>7, <2>1, <2>3, <2>4, <2>5, SameReport DEF RecordPartition
<1>8. CASE SkipUnused
  <2>1. next \in 1..n /\ ~ Counts(report.partitions[next])
    BY <1>1, <1>8 DEF SkipUnused, Here
  <2>2. IsMostDefinite(encryption, next + 1) /\ IsFirstSerial(fat_volume_serial, next + 1)
    BY <1>1, <2>1, SkipStep
  <2> QED BY <1>1, <1>8, <2>1, <2>2, SameReport DEF SkipUnused
<1>9. CASE RecordEnd
  <2>1. next = n + 1 /\ report.disk_serial \in Signatures
    BY <1>1, <1>9, ReportType DEF RecordEnd, Report
  <2>2. result' \in DecodedImage
    BY <1>9, <2>1 DEF RecordEnd, DecodedImage
  <2> QED BY <1>1, <1>9, <2>1, <2>2, SameReport DEF RecordEnd
<1>10. CASE UNCHANGED vars
  BY <1>10, SameReport DEF vars
<1> QED
  BY <1>2, <1>3, <1>4, <1>5, <1>6, <1>7, <1>8, <1>9, <1>10 DEF Next

-----------------------------------------------------------------------------
(***************************************************************************)
(* The loop invariant of read_region and of the fold over the partitions.  *)
(***************************************************************************)
THEOREM ImageInvariant == Spec => []IInv
BY InitIInv, NextIInv, PTL DEF Spec

(***************************************************************************)
(* The exported boot sector is that of the medium (device_image.rs:98).    *)
(***************************************************************************)
THEOREM SectorIsTheMediumAlways == Spec => []SectorIsTheMedium
<1>1. IInv => SectorIsTheMedium
  <2> SUFFICES ASSUME IInv, result # None PROVE result.mbr = Padded
    BY DEF SectorIsTheMedium
  <2>1. Len(medium) \in Nat /\ Len(medium) <= SectorLen /\ SectorLen \in Nat
    BY MediumType DEF IInv, TypeOK
  <2> QED BY <2>1 DEF IInv, TypeOK, Padded
<1> QED BY <1>1, ImageInvariant, PTL

(***************************************************************************)
(* The most definite encryption state is the one reported, for every       *)
(* number and order of partitions (device_image.rs:75-76).                 *)
(***************************************************************************)
THEOREM MostDefiniteSurfacedAlways == Spec => []MostDefiniteSurfaced
<1>1. IInv => MostDefiniteSurfaced
  BY DEF IInv, MostDefiniteSurfaced
<1> QED BY <1>1, ImageInvariant, PTL

(***************************************************************************)
(* The serial reported is the first short one (device_image.rs:92).        *)
(***************************************************************************)
THEOREM FirstSerialKeptAlways == Spec => []FirstSerialKept
<1>1. IInv => FirstSerialKept
  BY DEF IInv, FirstSerialKept
<1> QED BY <1>1, ImageInvariant, PTL

(***************************************************************************)
(* A verdict once reached only hardens (device_image.rs:134-143).          *)
(***************************************************************************)
THEOREM VerdictOnlyHardensAlways == Spec => VerdictOnlyHardens
<1> DEFINE Hardens ==
        /\ Rank(encryption') >= Rank(encryption)
        /\ Rank(encryption') = Rank(encryption) => encryption' = encryption
        /\ fat_volume_serial # None => fat_volume_serial' = fat_volume_serial
<1>1. IInv /\ [Next]_vars => Hardens
  <2> SUFFICES ASSUME IInv, [Next]_vars PROVE Hardens
    OBVIOUS
  <2>1. Rank(encryption) \in Int
    BY RankType DEF IInv, TypeOK
  <2>2. CASE RecordPartition
    <3>1. next \in 1..Len(report.partitions)
      BY <2>2, ReportType DEF RecordPartition, IInv, TypeOK
    <3>2. Rank(KindOf(Here)) \in Int
      BY <3>1, ReportType, KindType, RankType DEF IInv, TypeOK, Here
    <3> QED BY <2>1, <2>2, <3>2 DEF RecordPartition
  <2>3. CASE ~ RecordPartition
    <3>1. UNCHANGED <<encryption, fat_volume_serial>>
      BY <2>3 DEF Next, vars, RejectScheme, AcceptScheme, ReadSome, ReadError, ReadEnd,
                  SkipUnused, RecordEnd
    <3> QED BY <2>1, <3>1
  <2> QED BY <2>2, <2>3
<1> QED BY <1>1, ImageInvariant, PTL DEF Spec, VerdictOnlyHardens
=============================================================================
