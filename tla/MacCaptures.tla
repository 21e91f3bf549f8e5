---------------------------- MODULE MacCaptures ----------------------------
(***************************************************************************)
(* The three macOS captures (macos_unified_log.rs, macos_usb.rs,           *)
(* apple_ipod.rs): the decoders, on JSON and plists whose fields are       *)
(* already located (one that is missing or of another type is None), and   *)
(* the claims of the last two; those of the first are module UnifiedLog.   *)
(* Every record says which stick it is of, which the code cannot see.      *)
(***************************************************************************)
EXTENDS Adapters, Lists, SequencesExt

CONSTANTS
    TreeNodes,      \* the nodes of system_profiler trees, with all below them
    MassStorage     \* the string "MassStorage"

\* What is below a node are nodes, and JSON is no deeper than it is long: of any
\* nodes there is one with none of them right below it.
ASSUME TreeAssumption ==
    /\ \A node \in TreeNodes : node.items \in Seq(TreeNodes)
    /\ \A S \in SUBSET TreeNodes : S # {} => \E node \in S : ToSet(node.items) \cap S = {}

\* parse_log_timestamp: local time and offset, None when the text is not both.
LogTime(timestamp) == timestamp.local - timestamp.offset

\* parse_unified_log: lines that say "enumerated", with ids, a name and a time.
IsEnumeration(line) ==
    /\ line.message # None
    /\ line.message.vid # None /\ line.message.pid # None /\ line.message.name # None
    /\ line.timestamp # None

UnifiedLogEvents(lines) ==
    LET kept == Kept(lines, {i \in DOMAIN lines : IsEnumeration(lines[i])})
    IN  [i \in DOMAIN kept |->
            [vid |-> kept[i].message.vid, pid |-> kept[i].message.pid,
             name |-> kept[i].message.name, when |-> LogTime(kept[i].timestamp),
             stick |-> kept[i].stick]]

\* A bus or a bare hub reports neither; a serial may be there and not be text.
IsDeviceNode(node) == node.has_product_id \/ node.has_serial_num

MacUsbDevice(node) ==
    [serial |-> node.serial_num, name |-> node.name, is_mass_storage |-> node.media,
     stick |-> node.stick]

\* walk: the node if it is a device, then what is below it, in order.
Walk[node \in TreeNodes] ==
    (IF IsDeviceNode(node) THEN <<MacUsbDevice(node)>> ELSE <<>>)
    \o FlattenSeq([i \in DOMAIN node.items |-> Walk[node.items[i]]])

\* parse_system_profiler: the trees of the capture, one after the other.
SystemProfilerDevices(trees) == FlattenSeq([i \in DOMAIN trees |-> Walk[trees[i]]])

\* system_time_to_epoch: a time before 1970 becomes 0.
EpochSeconds(t) == IF t = None \/ t >= 0 THEN t ELSE 0

OrElse(field, fallback) == IF field # None THEN field ELSE fallback

\* parse_ipod_plist: the entries under Devices that are dictionaries.
IPodDevices(entries) ==
    LET dicts == Kept(entries, {i \in DOMAIN entries : entries[i].is_dictionary})
    IN  [i \in DOMAIN dicts |->
            [serial |-> dicts[i].serial_number, id |-> OrElse(dicts[i].id, dicts[i].key),
             model |-> OrElse(dicts[i].product_type, dicts[i].device_class),
             last_connected |-> EpochSeconds(dicts[i].connected), stick |-> dicts[i].stick]]

-----------------------------------------------------------------------------
\* Keyed by the serial, else by the id of the plist entry.
AppleIPodClaims(dev, locator) ==
    LET key == OrElse(dev.serial, dev.id)
        Of(attribute, value) ==
            ClaimOf(key, attribute, value,
                    [source |-> "AppleIPod", locator |-> <<locator, dev.id>>])
    IN  IfPresent(dev.last_connected, Of("LastConnected", Timestamp(dev.last_connected)))
        \o IfPresent(dev.model, Of("VolumeName", Text(dev.model)))

\* The name, unless it is empty, and the class of a device.
MacUsbClaimsOf(key, dev, locator) ==
    LET Of(attribute, value) ==
            ClaimOf(key, attribute, value, [source |-> "MacosUsb", locator |-> locator])
    IN  (IF dev.name = Empty THEN <<>> ELSE <<Of("VolumeName", Text(dev.name))>>)
        \o (IF dev.is_mass_storage THEN <<Of("DeviceClass", Text(MassStorage))>> ELSE <<>>)

\* Mutant: the name is taken for the identity.
MacUsbClaimsByName(dev, locator) == MacUsbClaimsOf(dev.name, dev, locator)

\* Keyed by the serial, else by the product name, even an empty one.
MacUsbClaims(dev, locator) == MacUsbClaimsOf(OrElse(dev.serial, dev.name), dev, locator)
=============================================================================
