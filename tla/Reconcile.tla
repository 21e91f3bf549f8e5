----------------------------- MODULE Reconcile -----------------------------
(***************************************************************************)
(* reconcile_volume_serials (src/reconcile.rs) as it runs: one pass over   *)
(* the claims builds the identity -> devices map, a second pass re-keys.   *)
(***************************************************************************)
EXTENDS VolumeSerials

CONSTANT Inputs

VARIABLES
    claims,     \* the input slice
    pc,         \* "scan" (first loop), "rekey" (second loop), "done"
    next,       \* index of the claim the loop looks at
    carriers,   \* identity -> devices reported to carry it ({}: no map entry)
    out         \* the re-keyed claims so far

vars == <<claims, pc, next, carriers, out>>

Abstract == INSTANCE Attribution
    WITH attributed <- IF pc = "done" THEN out ELSE <<>>, done <- pc = "done"

ASSUME ReconcileAssumption == Inputs \subseteq Seq(Claim)

Current == claims[next]

\* Types: in particular the loop index stays inside the slice or just past it.
TypeOK ==
    /\ claims \in Seq(Claim)
    /\ pc \in {"scan", "rekey", "done"}
    /\ next \in 1..(Len(claims) + 1)
    /\ carriers \in [Names -> SUBSET Names]
    /\ out \in Seq(Claim)

Init ==
    /\ claims \in Inputs
    /\ pc = "scan"
    /\ next = 1
    /\ carriers = [identity \in Names |-> {}]
    /\ out = <<>>

\* Mutant: the map keeps the last device only, so no serial is ever ambiguous.
ScanLastCarrier ==
    /\ pc = "scan" /\ next <= Len(claims)
    /\ AssertsCarrier(Current)
    /\ carriers' = [carriers EXCEPT ![Current.value.text] = {Current.device}]
    /\ next' = next + 1
    /\ UNCHANGED <<claims, pc, out>>

\* First loop, a claim that asserts a carrier: enter the device in the map.
ScanCarrier ==
    /\ pc = "scan" /\ next <= Len(claims)
    /\ AssertsCarrier(Current)
    /\ carriers' = [carriers EXCEPT ![Current.value.text] = @ \cup {Current.device}]
    /\ next' = next + 1
    /\ UNCHANGED <<claims, pc, out>>

\* First loop, any other claim: continue.
ScanOther ==
    /\ pc = "scan" /\ next <= Len(claims)
    /\ ~ AssertsCarrier(Current)
    /\ next' = next + 1
    /\ UNCHANGED <<claims, pc, carriers, out>>

ScanEnd ==
    /\ pc = "scan" /\ next > Len(claims)
    /\ pc' = "rekey"
    /\ next' = 1
    /\ UNCHANGED <<claims, carriers, out>>

\* Mutant: the second loop re-keys serial claims only and leaves file accesses behind.
RekeyOnlySerials ==
    /\ pc = "rekey" /\ next <= Len(claims)
    /\ \E device \in carriers[Current.device] :
        /\ carriers[Current.device] = {device}
        /\ out' = Append(out, IF Current.attribute = "VolumeSerial"
                              THEN [Current EXCEPT !.device = device] ELSE Current)
    /\ next' = next + 1
    /\ UNCHANGED <<claims, pc, carriers>>

\* Second loop, a key with exactly one carrier: the claim moves to it.
RekeyToCarrier ==
    /\ pc = "rekey" /\ next <= Len(claims)
    /\ \E device \in carriers[Current.device] :
        /\ carriers[Current.device] = {device}
        /\ out' = Append(out, [Current EXCEPT !.device = device])
    /\ next' = next + 1
    /\ UNCHANGED <<claims, pc, carriers>>

\* Mutant: a claim whose key is ambiguous or unmatched is dropped.
RekeyDrop ==
    /\ pc = "rekey" /\ next <= Len(claims)
    /\ ~ \E device \in carriers[Current.device] : carriers[Current.device] = {device}
    /\ next' = next + 1
    /\ UNCHANGED <<claims, pc, carriers, out>>

\* Second loop, no carrier or several: the claim is copied as it is.
RekeyKeep ==
    /\ pc = "rekey" /\ next <= Len(claims)
    /\ ~ \E device \in carriers[Current.device] : carriers[Current.device] = {device}
    /\ out' = Append(out, Current)
    /\ next' = next + 1
    /\ UNCHANGED <<claims, pc, carriers>>

RekeyEnd ==
    /\ pc = "rekey" /\ next > Len(claims)
    /\ pc' = "done"
    /\ UNCHANGED <<claims, next, carriers, out>>

Next ==
    \/ ScanCarrier \/ ScanOther \/ ScanEnd
    \/ RekeyToCarrier \/ RekeyKeep \/ RekeyEnd

Spec == Init /\ [][Next]_vars

-----------------------------------------------------------------------------
\* The map holds exactly the carriers reported by the claims already scanned.
CarriersMatch ==
    \A identity \in Names : carriers[identity] =
        CarriersUpTo(claims, IF pc = "scan" THEN next - 1 ELSE Len(claims), identity)

\* The output is, claim by claim, what the rule says of the claims already copied.
OutMatches ==
    /\ pc = "scan" => out = <<>>
    /\ pc # "scan" => Len(out) = next - 1
    /\ pc = "done" => next = Len(claims) + 1
    /\ \A i \in 1..Len(out) : out[i] = Rekeyed(claims)[i]

(***************************************************************************)
(* The inductive invariant of the two loops of reconcile_volume_serials:   *)
(* after every iteration the carrier map is that of the scanned prefix,    *)
(* and the output is the re-keyed prefix.                                  *)
(***************************************************************************)
IInv == TypeOK /\ CarriersMatch /\ OutMatches

(***************************************************************************)
(* The two loops together do what the rule says in one step, and nothing   *)
(* is visible before the whole list is re-keyed.                           *)
(***************************************************************************)
ImplementsAttribution == Abstract!Spec

(***************************************************************************)
(* "The pass never guesses an attribution" (reconcile.rs:9-11): a claim    *)
(* changes its device only to one that some claim of the input reports as  *)
(* the carrier of the old key, and only when every such report names that  *)
(* device; nothing but the device of a claim ever changes.                 *)
(***************************************************************************)
NeverGuesses ==
    pc = "done" =>
        /\ Len(out) = Len(claims)
        /\ \A i \in 1..Len(claims) :
            /\ out[i] = [claims[i] EXCEPT !.device = out[i].device]
            /\ out[i].device # claims[i].device =>
                LET reports == {j \in 1..Len(claims) :
                        AssertsCarrier(claims[j]) /\ claims[j].value.text = claims[i].device}
                IN  /\ reports # {}
                    /\ \A j \in reports : claims[j].device = out[i].device

(***************************************************************************)
(* Claims that shared a key before the pass share one after it: a pseudo-  *)
(* device's file accesses and serial are never torn apart, whatever the    *)
(* position of the carrier's own claim in the list.                        *)
(***************************************************************************)
KeysMoveTogether ==
    \A i, j \in 1..Len(out) :
        claims[i].device = claims[j].device => out[i].device = out[j].device

\* No device that reports an identity is itself named by what another reports:
\* the adapters of src/sources key devices by instance serials, which are not
\* volume serials or drive letters.
DevicesAreNotIdentities ==
    \A i, j \in 1..Len(claims) :
        AssertsCarrier(claims[i]) /\ AssertsCarrier(claims[j]) =>
            claims[i].device # claims[j].value.text

(***************************************************************************)
(* The pass settles in one go (reconcile.rs:19-60 runs once): reconciling  *)
(* its own output changes nothing, so no claim is left behind under a key  *)
(* that the claims moved by the same pass would resolve.                   *)
(***************************************************************************)
Settled == pc = "done" /\ DevicesAreNotIdentities => Rekeyed(out) = out
=============================================================================
