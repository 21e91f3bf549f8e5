--------------------------- MODULE MCDeviceImage ---------------------------
(***************************************************************************)
(* Disks of at most three partitions of nine kinds, in every order, under  *)
(* both partition schemes, on media that end inside the sector, at its end *)
(* or before it.                                                           *)
(***************************************************************************)
EXTENDS DeviceImage, FiniteSets

CONSTANT MaxPartitions

P(used, serial, enc, fs) ==
    [used |-> used, volume_serial |-> serial, encryption |-> enc, detected_fs |-> fs]

Partitions ==
    {P(TRUE, "s1", None, "Known"), P(TRUE, "s2", "BitLockerToGo", "Known"),
     P(TRUE, Long, "BitLocker", "Known"), P(TRUE, None, None, "Luks"),
     P(TRUE, None, None, "Unknown"), P(TRUE, Long, None, "Known"), P(TRUE, None, None, None),
     P(FALSE, "s2", None, "Known"), P(FALSE, "s1", "BitLocker", None)}

MCReports ==
    [scheme : {"Mbr", "Gpt"}, disk_serial : Signatures,
     partitions : UNION {[1..n -> Partitions] : n \in 0..MaxPartitions}]
    \cup [scheme : {"Apm", "Unreadable"}, disk_serial : Signatures, partitions : {<<>>}]

MCMedia == {<<>>, <<"a">>, <<"a", "b">>, <<"a", "b", "c">>}
=============================================================================
