---------------------------- MODULE MCReconcile ----------------------------
(***************************************************************************)
(* Claim lists the adapters produce around one volume serial and one drive *)
(* letter: two physical devices that may each report either, the pseudo-   *)
(* devices of a shell link, a ReadyBoost record and a cached volume label, *)
(* and a plain connection time.                                            *)
(***************************************************************************)
EXTENDS Reconcile

CONSTANT MaxClaims      \* length of the longest claim list

MCNames == {"", "MTP", "SN1", "SN2", "DEAD-BEEF", "E:", "report.doc", "KINGSTON"}
MCLocators == {"loc"}

From(source, device, attribute, value) ==
    [device |-> device, attribute |-> attribute, value |-> value,
     source |-> source, locator |-> "loc"]

Emitted ==
    {From("PartitionDiag", sn, "VolumeSerial", Text("DEAD-BEEF")) : sn \in {"SN1", "SN2"}}
        \cup {From("Usbstor", sn, "DriveLetter", Text("E:")) : sn \in {"SN1", "SN2"}}
        \cup {From("Usbstor", "SN1", "LastConnected", Timestamp(7)),
              From("Lnk", "DEAD-BEEF", "VolumeSerial", Text("DEAD-BEEF")),
              From("Lnk", "DEAD-BEEF", "AccessedFile", Text("report.doc")),
              From("EmdMgmt", "DEAD-BEEF", "VolumeName", Text("KINGSTON")),
              From("VolumeInfoCache", "E:", "VolumeName", Text("KINGSTON"))}

MCInputs == UNION {[1..n -> Emitted] : n \in 0..MaxClaims}
=============================================================================
