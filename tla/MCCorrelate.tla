---------------------------- MODULE MCCorrelate ----------------------------
(***************************************************************************)
(* Claims about the last connection of one device from five mechanisms in  *)
(* three containers, two of them with a second value or a second record,   *)
(* beside a volume serial, opened files and another device.  The two times *)
(* are the last second of February 2000 and the one after it.              *)
(***************************************************************************)
EXTENDS Pdf, Docx

CONSTANT MaxClaims      \* length of the longest claim list

MCNameOrder == <<"", "DEAD-BEEF", "E:\\plan.doc", "MTP", "SN1", "SN2">>
MCNames == ToSet(MCNameOrder)
MCLocatorOrder == <<"record 1", "record 2">>
MCLocators == ToSet(MCLocatorOrder)

\* Characters that the table, the PDF or the XML treat specially, in a path, a
\* locator and a device key.
MCSpelling ==
    [x \in MCNames \cup MCLocators |->
        CASE x = "E:\\plan.doc" ->
                <<"E:", "\\", "plan ", ")", "1", "|", "2", "e acute", ".doc">>
          [] x = "record 2" -> <<"record ", "\"", "2", "<", "|">>
          [] x = "SN2" -> <<"SN2", "&", "0">>
          [] OTHER -> <<x>>]

MCCrc32(data) == 7 * Len(data) + Cardinality(ToSet(data))

From(source, locator, device, attribute, value) ==
    [device |-> device, attribute |-> attribute, value |-> value,
     source |-> source, locator |-> locator]

Connected(source, locator, at) ==
    From(source, locator, "SN1", "LastConnected", Timestamp(at))

Emitted ==
    {Connected("Usbstor", "record 1", 951868799), Connected("SetupApi", "record 1", 951868799),
     Connected("SetupApi", "record 2", 951868800), Connected("KernelPnp", "record 1", 951868799),
     Connected("PartitionDiag", "record 1", 951868799), Connected("PartitionDiag", "record 2", 951868800),
     From("PartitionDiag", "record 1", "SN1", "VolumeSerial", Text("DEAD-BEEF")),
     From("JumpList", "record 2", "SN1", "AccessedFile", Text("E:\\plan.doc")),
     From("Lnk", "record 1", "SN2", "AccessedFile", Text("E:\\plan.doc")),
     From("Usbstor", "record 1", "SN2", "LastConnected", Timestamp(951868799))}

MCInputs == UNION {[1..n -> Emitted] : n \in 0..MaxClaims}
=============================================================================
