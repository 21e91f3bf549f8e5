---------------------------- MODULE DeviceImage ----------------------------
(***************************************************************************)
(* analyse_device_image (src/sources/device_image.rs): the boot sector is  *)
(* read through a reader that may return fewer bytes than asked, end early *)
(* or fail; then the identity of the medium is folded out of its           *)
(* partitions.  The partition table itself is decoded by the disk_forensic *)
(* crate, whose report is an input here.                                   *)
(***************************************************************************)
EXTENDS Integers, Sequences

CONSTANTS
    None,           \* Option::None
    Serials,        \* the 4-byte (short) volume serials
    Long,           \* any 8-byte serial: its value is never looked at
    Signatures,     \* MBR disk signatures
    Bytes, Zero,    \* what a sector consists of
    SectorLen,      \* 512 in the code
    Reports,        \* what disk_forensic makes of an image
    Media           \* what the medium holds where its first sector should be

ASSUME DeviceImageAssumption ==
    /\ None \notin Serials /\ Long \notin Serials
    /\ None \notin {"BitLocker", "BitLockerToGo", "Luks", "UnrecognizedFilesystem"}
    /\ Zero \in Bytes
    /\ SectorLen \in Nat \ {0}
    /\ \A medium \in Media : medium \in Seq(Bytes) /\ Len(medium) <= SectorLen

EncryptionKind == {"BitLocker", "BitLockerToGo", "Luks", "UnrecognizedFilesystem"}

Partition ==
    [used : BOOLEAN,                                        \* of a GPT entry
     volume_serial : Serials \cup {Long, None},
     encryption : {"BitLocker", "BitLockerToGo", None},     \* forensicnomicon's verdict
     detected_fs : {"Luks", "Unknown", "Known", None}]

Report ==
    [scheme : {"Mbr", "Gpt", "Apm", "Unreadable"}, disk_serial : Signatures,
     partitions : Seq(Partition)]

ASSUME ReportsAssumption == Reports \subseteq Report

\* How definite a kind is; an absent one ranks below every kind.
Rank(kind) ==
    IF kind \in {"BitLocker", "BitLockerToGo"} THEN 3
    ELSE IF kind = "Luks" THEN 2
    ELSE IF kind = "UnrecognizedFilesystem" THEN 1
    ELSE 0

\* encryption_of: a positive identification, else what the filesystem suggests.
EncryptionOf(enc, fs) ==
    IF enc # None THEN enc
    ELSE IF fs = "Luks" THEN "Luks"
    ELSE IF fs = "Unknown" THEN "UnrecognizedFilesystem"
    ELSE None

VARIABLES
    report, medium, \* the inputs
    pc,             \* "analyse", "read" (read_region), "record" (the fold), "done"
    buf, filled,    \* read_region: the zeroed buffer and how much of it is read
    next,           \* index of the partition to record
    fat_volume_serial, encryption,
    result          \* the decoded image, or None

vars == <<report, medium, pc, buf, filled, next, fat_volume_serial, encryption, result>>

Buffer == [1..SectorLen -> Bytes]

DecodedImage ==
    [disk_signature : Signatures, fat_volume_serial : Serials \cup {None},
     encryption : EncryptionKind \cup {None}, mbr : Buffer]

\* Types: the read stays inside the buffer, the fold inside the partition list.
TypeOK ==
    /\ report \in Reports /\ medium \in Media
    /\ pc \in {"analyse", "read", "record", "done"}
    /\ buf \in Buffer
    /\ filled \in 0..SectorLen /\ filled <= Len(medium)
    /\ next \in 1..(Len(report.partitions) + 1)
    /\ fat_volume_serial \in Serials \cup {None}
    /\ encryption \in EncryptionKind \cup {None}
    /\ result \in DecodedImage \cup {None}

Init ==
    /\ report \in Reports /\ medium \in Media
    /\ pc = "analyse"
    /\ buf = [i \in 1..SectorLen |-> Zero]
    /\ filled = 0
    /\ next = 1
    /\ fat_volume_serial = None /\ encryption = None
    /\ result = None

\* No partition scheme, or an Apple partition map: `?` and return None.
RejectScheme ==
    /\ pc = "analyse"
    /\ report.scheme \in {"Apm", "Unreadable"}
    /\ pc' = "done"
    /\ UNCHANGED <<report, medium, buf, filled, next, fat_volume_serial, encryption, result>>

AcceptScheme ==
    /\ pc = "analyse"
    /\ report.scheme \in {"Mbr", "Gpt"}
    /\ pc' = "read"
    /\ UNCHANGED <<report, medium, buf, filled, next, fat_volume_serial, encryption, result>>

\* Mutant: every read goes to the start of the buffer.
ReadToStart ==
    /\ pc = "read" /\ filled < SectorLen
    /\ \E n \in 1..(Len(medium) - filled) :
        /\ buf' = [i \in 1..SectorLen |-> IF i \in 1..n THEN medium[filled + i] ELSE buf[i]]
        /\ filled' = filled + n
    /\ UNCHANGED <<report, medium, pc, next, fat_volume_serial, encryption, result>>

\* One read: some of the bytes that are left, put behind those read before.
ReadSome ==
    /\ pc = "read" /\ filled < SectorLen
    /\ \E n \in 1..(Len(medium) - filled) :
        /\ buf' = [i \in 1..SectorLen |->
                      IF i \in (filled + 1)..(filled + n) THEN medium[i] ELSE buf[i]]
        /\ filled' = filled + n
    /\ UNCHANGED <<report, medium, pc, next, fat_volume_serial, encryption, result>>

\* A failed seek or read, an interrupted one included: the image is given up.
ReadError ==
    /\ pc = "read" /\ filled < SectorLen
    /\ pc' = "done"
    /\ UNCHANGED <<report, medium, buf, filled, next, fat_volume_serial, encryption, result>>

\* The buffer is full, or the reader is at its end: something was read, or not.
ReadEnd ==
    /\ pc = "read"
    /\ filled = SectorLen \/ filled = Len(medium)
    /\ pc' = IF filled # 0 THEN "record" ELSE "done"
    /\ UNCHANGED <<report, medium, buf, filled, next, fat_volume_serial, encryption, result>>

Here == report.partitions[next]

\* GPT entries in use; every entry of an MBR table.
Counts(p) == report.scheme = "Gpt" => p.used

\* A GPT entry has no detected filesystem.
KindOf(p) == EncryptionOf(p.encryption, IF report.scheme = "Gpt" THEN None ELSE p.detected_fs)

\* Mutant: the last kind wins, however vague.
RecordLastKind ==
    /\ pc = "record" /\ next <= Len(report.partitions)
    /\ Counts(Here)
    /\ encryption' = IF KindOf(Here) # None THEN KindOf(Here) ELSE encryption
    /\ fat_volume_serial' = IF fat_volume_serial = None /\ Here.volume_serial \in Serials
                            THEN Here.volume_serial ELSE fat_volume_serial
    /\ next' = next + 1
    /\ UNCHANGED <<report, medium, pc, buf, filled, result>>

\* Mutant: the serial of the first partition is taken, or none.
RecordFirstOnly ==
    /\ pc = "record" /\ next <= Len(report.partitions)
    /\ Counts(Here)
    /\ encryption' = IF Rank(KindOf(Here)) > Rank(encryption) THEN KindOf(Here) ELSE encryption
    /\ fat_volume_serial' = IF next = 1 /\ Here.volume_serial \in Serials
                            THEN Here.volume_serial ELSE fat_volume_serial
    /\ next' = next + 1
    /\ UNCHANGED <<report, medium, pc, buf, filled, result>>

\* Mutant: a later short serial replaces the one recorded.
RecordLastSerial ==
    /\ pc = "record" /\ next <= Len(report.partitions)
    /\ Counts(Here)
    /\ encryption' = IF Rank(KindOf(Here)) > Rank(encryption) THEN KindOf(Here) ELSE encryption
    /\ fat_volume_serial' = IF Here.volume_serial \in Serials
                            THEN Here.volume_serial ELSE fat_volume_serial
    /\ next' = next + 1
    /\ UNCHANGED <<report, medium, pc, buf, filled, result>>

\* The closure `record`: a more definite kind replaces the one recorded, and
\* the first short serial stays.
RecordPartition ==
    /\ pc = "record" /\ next <= Len(report.partitions)
    /\ Counts(Here)
    /\ encryption' = IF Rank(KindOf(Here)) > Rank(encryption) THEN KindOf(Here) ELSE encryption
    /\ fat_volume_serial' = IF fat_volume_serial = None /\ Here.volume_serial \in Serials
                            THEN Here.volume_serial ELSE fat_volume_serial
    /\ next' = next + 1
    /\ UNCHANGED <<report, medium, pc, buf, filled, result>>

\* An unused GPT entry is filtered out.
SkipUnused ==
    /\ pc = "record" /\ next <= Len(report.partitions)
    /\ ~ Counts(Here)
    /\ next' = next + 1
    /\ UNCHANGED <<report, medium, pc, buf, filled, fat_volume_serial, encryption, result>>

RecordEnd ==
    /\ pc = "record" /\ next > Len(report.partitions)
    /\ result' = [disk_signature |-> report.disk_serial, fat_volume_serial |-> fat_volume_serial,
                  encryption |-> encryption, mbr |-> buf]
    /\ pc' = "done"
    /\ UNCHANGED <<report, medium, buf, filled, next, fat_volume_serial, encryption>>

Next ==
    \/ RejectScheme \/ AcceptScheme \/ ReadSome \/ ReadError \/ ReadEnd
    \/ RecordPartition \/ SkipUnused \/ RecordEnd

Spec == Init /\ [][Next]_vars

-----------------------------------------------------------------------------
\* The partitions before index n that count.
CountedBefore(n) ==
    {j \in 1..Len(report.partitions) : j < n /\ Counts(report.partitions[j])}

Holds(kind, n) ==
    \E j \in CountedBefore(n) :
        /\ KindOf(report.partitions[j]) = kind
        /\ \A k \in CountedBefore(j) : Rank(KindOf(report.partitions[k])) < Rank(kind)

\* kind is the first of the most definite kinds before n, or none has a kind.
IsMostDefinite(kind, n) ==
    /\ \A j \in CountedBefore(n) : Rank(KindOf(report.partitions[j])) <= Rank(kind)
    /\ kind # None => Holds(kind, n)

\* serial is the first short one before n, or there is none.
IsFirstSerial(serial, n) ==
    IF serial = None
    THEN \A j \in CountedBefore(n) : report.partitions[j].volume_serial \notin Serials
    ELSE \E j \in CountedBefore(n) :
            /\ report.partitions[j].volume_serial = serial
            /\ \A k \in CountedBefore(j) : report.partitions[k].volume_serial \notin Serials

Padded == [i \in 1..SectorLen |-> IF i <= Len(medium) THEN medium[i] ELSE Zero]

(***************************************************************************)
(* What the loops maintain: the buffer is the part of the medium read so   *)
(* far, the two folds describe the partitions passed.                      *)
(***************************************************************************)
IInv ==
    /\ TypeOK
    /\ buf = [i \in 1..SectorLen |-> IF i <= filled THEN medium[i] ELSE Zero]
    /\ pc \in {"analyse", "read"} => next = 1
    /\ pc = "record" => filled = SectorLen \/ filled = Len(medium)
    /\ IsMostDefinite(encryption, next)
    /\ IsFirstSerial(fat_volume_serial, next)
    /\ result # None =>
        /\ next = Len(report.partitions) + 1
        /\ filled = SectorLen \/ filled = Len(medium)
        /\ result = [disk_signature |-> report.disk_serial,
                     fat_volume_serial |-> fat_volume_serial,
                     encryption |-> encryption, mbr |-> buf]

(***************************************************************************)
(* "The raw 512-byte MBR sector, retained for export/verification"         *)
(* (device_image.rs:98): however the reads were split, the exported sector *)
(* is what the medium holds, zero padded if it ends early.                 *)
(***************************************************************************)
SectorIsTheMedium == result # None => result.mbr = Padded

(***************************************************************************)
(* "When several partitions carry different states the most definite one   *)
(* is surfaced" (device_image.rs:75-76): whatever the order of the         *)
(* partitions, and of unused GPT entries nothing is ever reported.         *)
(***************************************************************************)
MostDefiniteSurfaced ==
    result # None => IsMostDefinite(result.encryption, Len(report.partitions) + 1)

(***************************************************************************)
(* "FAT volume serial of the first FAT partition, when present"            *)
(* (device_image.rs:92): the serial that ties the medium to the host's     *)
(* records is not lost to NTFS or unused partitions before it and not      *)
(* replaced by a later one.                                                *)
(***************************************************************************)
FirstSerialKept ==
    result # None => IsFirstSerial(result.fat_volume_serial, Len(report.partitions) + 1)

(***************************************************************************)
(* Once a partition has been identified as encrypted, no later partition   *)
(* makes the verdict vaguer, nor changes the serial recorded.              *)
(***************************************************************************)
VerdictOnlyHardens ==
    [][ /\ Rank(encryption') >= Rank(encryption)
        /\ Rank(encryption') = Rank(encryption) => encryption' = encryption
        /\ fat_volume_serial # None => fat_volume_serial' = fat_volume_serial ]_vars
=============================================================================
