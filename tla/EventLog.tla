------------------------------ MODULE EventLog ------------------------------
(***************************************************************************)
(* The event-log decoders (kernel_pnp.rs and driver_framework.rs): which   *)
(* records of an .evtx witness a USB device, and of what.  A record is the *)
(* JSON of one event with its fields already located: an instance id is an *)
(* enumerator and the serial behind it; a missing field is None.           *)
(***************************************************************************)
EXTENDS Claims, Lists, SequencesExt

\* Mutant: the host's own hubs pass for devices.
IsUsbOrHub(instance) == instance.enumerator \in {"USB", "USBSTOR", "ROOT_HUB"}

\* is_usb_instance: USB\ or USBSTOR\, root hubs (an enumerator of their own
\* here) and everything internal excluded.
IsUsbInstance(instance) == instance.enumerator \in {"USB", "USBSTOR"}

IsConfigEvent(id) == id \in {400, 410, 430}

\* kernel_pnp_event: a configuration event of a USB device that has a time.
IsKernelPnpEvent(record) ==
    /\ record.provider = "Kernel-PnP"
    /\ IsConfigEvent(record.event_id)
    /\ record.instance # None /\ IsUsbInstance(record.instance)
    /\ record.time # None

\* instance_id of DriverFrameworks: the first child of UserData that has an
\* instance attribute or, failing that, an InstanceId element.
ChildInstance(child) == IF child.attribute # None THEN child.attribute ELSE child.element

NamedInstance(children) ==
    LET naming == {i \in DOMAIN children : ChildInstance(children[i]) # None}
    IN  IF naming = {} THEN None ELSE ChildInstance(children[Earliest(naming)])

\* driver_framework_event: arrival (2003) or final removal (2102).
IsDriverFrameworkEvent(record) ==
    /\ record.provider = "DriverFrameworks"
    /\ record.event_id \in {2003, 2102}
    /\ NamedInstance(record.children) # None
    /\ IsUsbInstance(NamedInstance(record.children))
    /\ record.time # None

\* The events in the order of the records; damaged records were dropped.
KernelPnpEvents(records) ==
    LET kept == Kept(records, {i \in DOMAIN records : IsKernelPnpEvent(records[i])})
    IN  [i \in DOMAIN kept |-> [serial |-> kept[i].instance.serial, at |-> kept[i].time]]

DriverFrameworkEvents(records) ==
    LET kept == Kept(records, {i \in DOMAIN records : IsDriverFrameworkEvent(records[i])})
    IN  [i \in DOMAIN kept |->
            [serial |-> NamedInstance(kept[i].children).serial, at |-> kept[i].time,
             disconnect |-> kept[i].event_id = 2102]]
=============================================================================
