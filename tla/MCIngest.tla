------------------------------ MODULE MCIngest ------------------------------
(***************************************************************************)
(* Every list of at most three of sixteen files: one of each kind, some    *)
(* damaged, some with the boot signature of a disk at the end of their     *)
(* first sector by accident, one that cannot be read.                      *)
(***************************************************************************)
EXTENDS Ingest

CONSTANT MaxPaths

Usb(enumerator) == [enumerator |-> enumerator, serial |-> "SN1"]

Pnp(id, enumerator, at, meaning) ==
    [provider |-> "Kernel-PnP", event_id |-> id, instance |-> Usb(enumerator), time |-> at,
     meaning |-> meaning, children |-> <<>>]

Umdf(id, child, at, meaning) ==
    [provider |-> "DriverFrameworks", event_id |-> id, instance |-> None, time |-> at,
     meaning |-> meaning, children |-> <<[attribute |-> None, element |-> None], child>>]

ByAttribute(enumerator) == [attribute |-> Usb(enumerator), element |-> None]
ByElement(enumerator) == [attribute |-> None, element |-> Usb(enumerator)]

PnpLog ==
    <<Pnp(400, "ROOT_HUB", 1, "nothing"), Pnp(400, "USB", 2, "configured"),
      Pnp(420, "USB", 3, "nothing"), Pnp(430, "USBSTOR", 4, "configured"),
      Pnp(400, "PCI", 5, "nothing"), Pnp(410, "USB", None, "nothing")>>

UmdfLog ==
    <<Umdf(2003, ByAttribute("USB"), 2, "arrived"), Umdf(2100, ByAttribute("USB"), 3, "nothing"),
      Umdf(2003, ByAttribute("ROOT_HUB"), 4, "nothing"), Umdf(2102, ByElement("USBSTOR"), 5, "removed"),
      Umdf(2003, ByAttribute("SWD"), 6, "nothing"), Pnp(2003, "USB", 7, "nothing")>>

Line(message, at, stick) == [message |-> message, timestamp |-> at, stick |-> stick]
Enumerated(vid, name) == [vid |-> vid, pid |-> 1, name |-> name]

\* Two sticks of one model, the second at 9:00 two hours east of UTC.
LogLines ==
    <<Line(None, [local |-> 1, offset |-> 0], None),
      Line(Enumerated(1, "Ultra"), [local |-> 9, offset |-> 2], "black"),
      Line(Enumerated(None, None), [local |-> 9, offset |-> 2], None),
      Line(Enumerated(1, "Ultra"), [local |-> 3, offset |-> -5], "red"),
      Line(Enumerated(1, "Ultra"), None, "red")>>

Node(product, serial, name, media, stick, items) ==
    [has_product_id |-> product, has_serial_num |-> serial # None, serial_num |-> serial,
     name |-> name, media |-> media, stick |-> stick, items |-> items]

Black == Node(TRUE, "SN1", "Ultra", TRUE, "black", <<>>)
Red == Node(TRUE, "SN2", "Ultra", TRUE, "red", <<>>)
Mouse == Node(TRUE, None, "", FALSE, "mouse", <<>>)
Pad == Node(FALSE, "SN3", "iPad", FALSE, "pad", <<>>)
Dock == Node(TRUE, "SN4", "Dock", FALSE, "dock", <<Red, Mouse>>)
Hub == Node(FALSE, None, "Hub", FALSE, None, <<Dock, Pad>>)
Bus == Node(FALSE, None, "USB31Bus", FALSE, None, <<Hub, Black>>)
Idle == Node(FALSE, None, "USB31Bus", FALSE, None, <<>>)

MCTreeNodes == {Black, Red, Mouse, Pad, Dock, Hub, Bus, Idle}

Entry(serial, id, product, at, stick) ==
    [is_dictionary |-> TRUE, key |-> "KEY", id |-> id, serial_number |-> serial,
     product_type |-> product, device_class |-> "iPad", connected |-> at, stick |-> stick]

PlistEntries ==
    <<Entry("SN3", "ID3", "iPad14,6", 7, "pad"),
      [Entry(None, None, None, None, None) EXCEPT !.is_dictionary = FALSE],
      Entry("SN5", None, None, 8, "phone"), Entry(None, None, None, None, "pod")>>

Nothing == [o \in Origin |-> <<>>]

F(kind, markers, holds) ==
    [kind |-> kind, markers |-> markers, holds |-> holds, saw |-> {},
     readable |-> TRUE, intact |-> TRUE]

Whole(kind, markers, origin) == F(kind, markers, [Nothing EXCEPT ![origin] = <<"a">>])

Capture(kind, markers, origin, raw, saw) ==
    [F(kind, markers, [Nothing EXCEPT ![origin] = raw]) EXCEPT !.saw = saw]

\* A definition of its own, so that TLC evaluates it once.
Files ==
    [jumplist |-> Whole("compound", {"compound"}, "jumplists"),
     lnk |-> Whole("link", {"link", "boot"}, "lnk"),
     hive |-> F("hive", {"hive", "boot"},
                [o \in Origin |-> IF o \in HiveOrigins THEN <<"a", "b">> ELSE <<>>]),
     badhive |-> [F("hive", {"hive"}, Nothing) EXCEPT !.intact = FALSE],
     capture |-> Capture("unified_log", {"unified_log"}, "mac_log", LogLines,
                         {<<"black", 7>>, <<"red", 8>>}),
     profiler |-> Capture("profiler", {"profiler", "plist"}, "mac_usb", <<Idle, Bus>>,
                          {<<stick, None>> : stick \in {"black", "red", "mouse", "pad", "dock"}}),
     idle |-> Capture("profiler", {"profiler"}, "mac_usb", <<Idle>>, {}),
     plist |-> Capture("plist", {"plist", "boot"}, "apple_devices", PlistEntries,
                       {<<"pad", 7>>, <<"phone", 8>>, <<"pod", None>>}),
     badplist |-> [F("plist", {"plist"}, Nothing) EXCEPT !.intact = FALSE],
     e01 |-> Whole("e01", {"e01", "boot"}, "device_images"),
     raw |-> Whole("boot", {"boot"}, "device_images"),
     evtx |-> F("evtx", {"evtx"},
                [Nothing EXCEPT !["partition_diag"] = <<"a">>, !["kernel_pnp"] = PnpLog,
                                !["driver_framework"] = UmdfLog]),
     badevtx |-> [F("evtx", {"evtx"}, Nothing) EXCEPT !.intact = FALSE],
     syslog |-> Whole("syslog", {"usb_found"}, "linux"),
     setupapi |-> Whole("setupapi", {}, "setupapi"),
     missing |-> [F("setupapi", {}, Nothing) EXCEPT !.readable = FALSE]]

MCFileAt == Files
MCPaths == DOMAIN Files

Arg(name, value) == [name |-> name, value |-> value]

Options ==
    {<<>>, <<Arg("year", None), Arg("year", 2024), Arg("year", 2025), Arg("tz-offset", 7200),
       Arg("docx", None)>>}

\* No year that parses, and two output flags: with shorter lists of files.
OtherOptions == <<Arg("table", None), Arg("year", None), Arg("pdf", None)>>

PathArgs(list) == [i \in DOMAIN list |-> Arg("path", list[i])]
Lists(longest) == UNION {[1..n -> MCPaths] : n \in 0..longest}

MCArgLists ==
    {options \o PathArgs(list) : options \in Options, list \in Lists(MaxPaths)}
    \cup {OtherOptions \o PathArgs(list) : list \in Lists(MaxPaths - 1)}
    \cup {<<Arg("path", "hive"), Arg("version", None)>>}

\* What the theorems take for granted of the files.
ASSUME FilesAssumption == FilesAreTrue
ASSUME SerialsAssumption == SerialsTellSticks
=============================================================================
