--------------------------- MODULE MCInvestigation ---------------------------
(***************************************************************************)
(* Two sticks whose volumes may be clones, a host two hours east of UTC,   *)
(* and every sub-collection of its artifacts.                              *)
(***************************************************************************)
EXTENDS Investigation

CONSTANT Sticks, Files

MCSerialNumber == [d \in Sticks |-> IF d = 1 THEN "SN1" ELSE "SN2"]
MCDiskNameOf == [d \in Sticks |-> IF d = 1 THEN "disk-00000001" ELSE "disk-00000002"]
MCSignatureOf == [d \in Sticks |-> d]
MCGuidOf == [d \in Sticks |-> IF d = 1 THEN "{G1}" ELSE "{G2}"]
MCFileOn == [d \in Sticks |-> IF d = 1 THEN "E:\\plan.doc" ELSE "E:\\song.mp3"]
MCFolderOn == [d \in Sticks |-> IF d = 1 THEN "E:\\photos" ELSE "E:\\tax"]
MCNoFolders == <<>>

\* The second stick starts as a clone of the first and is formatted apart.
MCVolumeSerials ==
    [d \in Sticks |-> IF d = 1 THEN <<"AAAA-0001", "AAAA-0002">> ELSE <<"AAAA-0001", "BBBB-0002">>]

MCNameOrder ==
    <<"", "AAAA-0001", "AAAA-0002", "BACKUP", "BBBB-0002", "E:", "E:\\photos", "E:\\plan.doc",
      "E:\\song.mp3", "E:\\tax", "KINGSTON", "MTP", "SN1", "SN2", "disk-00000001", "disk-00000002",
      "{G1}", "{G2}">>
MCNames == ToSet(MCNameOrder)
MCLocatorOrder == <<"NTUSER", "SOFTWARE", "SYSTEM", "evtx", "image", "jumplist", "lnk", "setupapi">>
MCLocators == ToSet(MCLocatorOrder)
MCSignatures == Sticks
MCOffsets == {0}
MCDiskName(s) == MCDiskNameOf[s]
MCCollections == SUBSET Files

\* Collected folder by folder: two hives in the system's, everything of the
\* user in the user's profile.
SameFolder == {{"SYSTEM", "SOFTWARE"}, {"NTUSER", "lnk", "jumplist"}}
MCCollectionsByFolder ==
    {S \in SUBSET Files : \A folder \in SameFolder : folder \subseteq S \/ folder \cap S = {}}

\* The names of these sticks meet the conditions of the theorems on them.
ASSUME SticksAssumption == NamesApart /\ SticksApart
=============================================================================
