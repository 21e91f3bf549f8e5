--------------------------- MODULE VolumeSerials ---------------------------
(***************************************************************************)
(* The rule of reconcile_volume_serials (src/reconcile.rs), as operators   *)
(* on a whole list of claims.                                              *)
(***************************************************************************)
EXTENDS Claims, Sequences

\* Mutant: a pseudo-device carries itself.
AssertsItself(c) ==
    /\ c.attribute \in {"VolumeSerial", "DriveLetter"}
    /\ IsText(c.value)

(***************************************************************************)
(* A claim asserts that a physical device carries an identity when it      *)
(* gives a volume serial or a drive letter other than its own key.  A      *)
(* shell link's serial names its own pseudo-device and asserts nothing.    *)
(***************************************************************************)
AssertsCarrier(c) ==
    /\ c.attribute \in {"VolumeSerial", "DriveLetter"}
    /\ IsText(c.value)
    /\ c.device # c.value.text

\* The devices the first n claims report as carrying identity.
CarriersUpTo(cs, n, identity) ==
    {cs[i].device : i \in {j \in 1..n :
        AssertsCarrier(cs[j]) /\ cs[j].value.text = identity}}

CarriersOf(cs, identity) == CarriersUpTo(cs, Len(cs), identity)

\* Mutant: with several carriers, one is picked.
ResolveGuess(devices, key) == IF devices # {} THEN CHOOSE d \in devices : TRUE ELSE key

\* The key a claim keyed by `key` ends under, given the carriers of `key`.
Resolve(devices, key) ==
    IF \E d \in devices : devices = {d}
    THEN CHOOSE d \in devices : devices = {d}
    ELSE key

Rekeyed(cs) ==
    [i \in 1..Len(cs) |->
        [cs[i] EXCEPT !.device = Resolve(CarriersOf(cs, cs[i].device), cs[i].device)]]
=============================================================================
