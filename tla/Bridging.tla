------------------------------ MODULE Bridging ------------------------------
(***************************************************************************)
(* What the MountedDevices bridge promises of each claim, whatever order   *)
(* the volumes were read in: a claim keyed by a name of a volume moves to  *)
(* a GUID of a partition with that name, a claim keyed by anything else    *)
(* stays (src/reconcile.rs, canonicalize_mounted_volumes).                 *)
(***************************************************************************)
EXTENDS MountedVolumes

CONSTANT Inputs     \* pairs of a claim list and a volume list

VARIABLES input, bridged, done

vars == <<input, bridged, done>>

GuidsFor(key) ==
    {input.volumes[i].guid : i \in {j \in DOMAIN input.volumes :
        \E k \in EntriesAt(input.volumes, PartitionOf(input.volumes[j])) :
            key \in IdentifiersOf(input.volumes[k])}} \ {None}

Targets(key) == IF GuidsFor(key) = {} THEN {key} ELSE GuidsFor(key)

Init ==
    /\ input \in Inputs
    /\ bridged = <<>>
    /\ done = FALSE

BridgeAll ==
    /\ ~done
    /\ done' = TRUE
    /\ DOMAIN bridged' = DOMAIN input.claims
    /\ \A i \in DOMAIN input.claims :
        \E target \in Targets(input.claims[i].device) :
            bridged'[i] = [input.claims[i] EXCEPT !.device = target]
    /\ UNCHANGED input

Next == BridgeAll

Spec == Init /\ [][Next]_vars
=============================================================================
