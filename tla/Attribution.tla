---------------------------- MODULE Attribution ----------------------------
(***************************************************************************)
(* What volume-serial reconciliation promises, said in one step: every     *)
(* claim keyed by an identity that exactly one physical device reports     *)
(* moves to that device; every other claim stays where it was              *)
(* (src/reconcile.rs, module documentation and reconcile_volume_serials).  *)
(* Reconcile.tla refines this specification loop by loop.                  *)
(***************************************************************************)
EXTENDS VolumeSerials

CONSTANT Inputs     \* the claim lists the adapters may hand over

VARIABLES
    claims,         \* the claims gathered from every source
    attributed,     \* the claims after the pass
    done

vars == <<claims, attributed, done>>

Init ==
    /\ claims \in Inputs
    /\ attributed = <<>>
    /\ done = FALSE

AttributeAll ==
    /\ ~done
    /\ attributed' = Rekeyed(claims)
    /\ done' = TRUE
    /\ UNCHANGED claims

Next == AttributeAll

Spec == Init /\ [][Next]_vars
=============================================================================
