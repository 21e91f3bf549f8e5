---------------------------- MODULE MCUnifiedLog ----------------------------
(***************************************************************************)
(* Captures of at most four enumerations, in any order of time, of three   *)
(* sticks, two of which are of one model.                                  *)
(***************************************************************************)
EXTENDS UnifiedLog

CONSTANTS MaxEvents, Times, Model

MCUsbName == [id \in Ids |-> IF id = 1 THEN "usb-0781-55AB" ELSE "usb-05AC-12A8"]
MCNames == {"", "MTP", "SanDisk 3.2Gen1", "usb-0781-55AB", "usb-05AC-12A8"}
MCModelOf == [stick \in Sticks |-> IF stick = "phone" THEN 2 ELSE 1]
MCProduct == [id \in Ids |-> IF id = 1 THEN "SanDisk 3.2Gen1" ELSE ""]

MCEvents ==
    {[id |-> Model[stick], name |-> MCProduct[Model[stick]], when |-> at, stick |-> stick] :
        stick \in Sticks, at \in Times}

MCCaptures == UNION {[1..n -> MCEvents] : n \in 0..MaxEvents}
=============================================================================
