-------------------------- MODULE Reconcile_proofs --------------------------
(***************************************************************************)
(* Reconciliation, for every claim list of every length: the two loops     *)
(* preserve the inductive invariant, which gives the properties the runs   *)
(* check and the refinement of Attribution.                                *)
(***************************************************************************)
EXTENDS Reconcile, TLAPS

\* A claim's device and, when it has one, its text are strings of the model.
LEMMA ClaimNames ==
    ASSUME NEW c \in Claim
    PROVE  /\ c.device \in Names
           /\ AssertsCarrier(c) => c.value.text \in Names
<1>1. c.device \in Names /\ c.value \in Value
  BY DEF Claim
<1>2. IsText(c.value) => c.value.text \in Names
  BY <1>1 DEF Value, IsText
<1> QED
  BY <1>1, <1>2 DEF AssertsCarrier

\* One more claim adds its device to the carriers of what it asserts, and
\* nothing else.
LEMMA CarriersStep ==
    ASSUME NEW cs, NEW n \in Nat, NEW identity
    PROVE  CarriersUpTo(cs, n + 1, identity) =
               CarriersUpTo(cs, n, identity) \cup
                   (IF AssertsCarrier(cs[n + 1]) /\ cs[n + 1].value.text = identity
                    THEN {cs[n + 1].device} ELSE {})
<1>1. 1..(n + 1) = (1..n) \cup {n + 1}
  OBVIOUS
<1> QED
  BY <1>1 DEF CarriersUpTo

\* Before the first claim nothing has a carrier.
LEMMA CarriersNone ==
    ASSUME NEW cs, NEW identity
    PROVE  CarriersUpTo(cs, 0, identity) = {}
BY DEF CarriersUpTo

\* A unique carrier is what Resolve picks; otherwise the key stays.
LEMMA ResolveCases ==
    ASSUME NEW devices, NEW key
    PROVE  /\ \A d : devices = {d} => Resolve(devices, key) = d
           /\ (~ \E d \in devices : devices = {d}) => Resolve(devices, key) = key
<1>1. ASSUME NEW d, devices = {d}
      PROVE  Resolve(devices, key) = d
  <2>1. \E e \in devices : devices = {e}
    BY <1>1
  <2>2. (CHOOSE e \in devices : devices = {e}) = d
    BY <1>1, <2>1
  <2> QED
    BY <2>1, <2>2 DEF Resolve
<1> QED
  BY <1>1 DEF Resolve

\* Carriers of claims are strings.
LEMMA CarriersAreNames ==
    ASSUME NEW cs \in Seq(Claim), NEW identity
    PROVE  CarriersOf(cs, identity) \in SUBSET Names
BY ClaimNames DEF CarriersOf, CarriersUpTo

\* Resolving a string among strings gives a string.
LEMMA ResolveName ==
    ASSUME NEW devices \in SUBSET Names, NEW key \in Names
    PROVE  Resolve(devices, key) \in Names
<1>1. CASE \E d \in devices : devices = {d}
  BY <1>1, ResolveCases
<1>2. CASE ~ \E d \in devices : devices = {d}
  BY <1>2, ResolveCases
<1> QED
  BY <1>1, <1>2

-----------------------------------------------------------------------------
\* The initial states satisfy the inductive invariant.
LEMMA InitIInv == Init => IInv
<1> SUFFICES ASSUME Init PROVE IInv
  OBVIOUS
<1>1. claims \in Seq(Claim) /\ Len(claims) \in Nat
  BY ReconcileAssumption DEF Init
<1>2. TypeOK
  BY <1>1 DEF Init, TypeOK
<1>3. CarriersMatch
  <2> SUFFICES ASSUME NEW identity \in Names
               PROVE  carriers[identity] = CarriersUpTo(claims, next - 1, identity)
    BY DEF Init, CarriersMatch
  <2>1. next - 1 = 0 /\ carriers[identity] = {}
    BY DEF Init
  <2>2. CarriersUpTo(claims, 0, identity) = {}
    BY CarriersNone
  <2> QED
    BY <2>1, <2>2
<1>4. OutMatches
  BY DEF Init, OutMatches
<1> QED
  BY <1>2, <1>3, <1>4 DEF IInv

\* Every iteration of either loop preserves the inductive invariant.
LEMMA NextIInv == IInv /\ [Next]_vars => IInv'
<1> SUFFICES ASSUME IInv, [Next]_vars PROVE IInv'
  OBVIOUS
<1> USE DEF IInv
<1>t. /\ claims \in Seq(Claim)
      /\ Len(claims) \in Nat
      /\ next \in Nat /\ next >= 1
      /\ \A i \in 1..Len(claims) : claims[i] \in Claim
  BY DEF TypeOK
<1>1. CASE ScanCarrier
  <2>1. Current \in Claim /\ Current.device \in Names /\ Current.value.text \in Names
    BY <1>1, <1>t, ClaimNames DEF ScanCarrier, Current
  <2>2. TypeOK'
    BY <1>1, <1>t, <2>1 DEF ScanCarrier, TypeOK
  <2>3. CarriersMatch'
    <3> SUFFICES ASSUME NEW identity \in Names
                 PROVE  carriers'[identity] = CarriersUpTo(claims, next, identity)
      BY <1>1, <1>t DEF ScanCarrier, CarriersMatch
    <3>1. carriers[identity] = CarriersUpTo(claims, next - 1, identity)
      BY <1>1 DEF ScanCarrier, CarriersMatch
    <3>2. CarriersUpTo(claims, next, identity) =
             CarriersUpTo(claims, next - 1, identity) \cup
                (IF Current.value.text = identity THEN {Current.device} ELSE {})
      BY <1>1, <1>t, CarriersStep DEF ScanCarrier, Current
    <3> QED
      BY <1>1, <2>1, <3>1, <3>2 DEF ScanCarrier, TypeOK
  <2>4. OutMatches'
    BY <1>1 DEF ScanCarrier, OutMatches
  <2> QED
    BY <2>2, <2>3, <2>4
<1>2. CASE ScanOther
  <2>1. TypeOK'
    BY <1>2, <1>t DEF ScanOther, TypeOK
  <2>2. CarriersMatch'
    <3> SUFFICES ASSUME NEW identity \in Names
                 PROVE  carriers[identity] = CarriersUpTo(claims, next, identity)
      BY <1>2, <1>t DEF ScanOther, CarriersMatch
    <3>1. CarriersUpTo(claims, next, identity) = CarriersUpTo(claims, next - 1, identity)
      <4>1. next - 1 \in Nat /\ (next - 1) + 1 = next
        BY <1>t
      <4>2. CarriersUpTo(claims, (next - 1) + 1, identity) =
               CarriersUpTo(claims, next - 1, identity) \cup
                   (IF AssertsCarrier(claims[(next - 1) + 1])
                       /\ claims[(next - 1) + 1].value.text = identity
                    THEN {claims[(next - 1) + 1].device} ELSE {})
        BY <4>1, CarriersStep
      <4>3. ~ AssertsCarrier(claims[next])
        BY <1>2 DEF ScanOther, Current
      <4> QED
        BY <4>1, <4>2, <4>3
    <3> QED
      BY <1>2, <3>1 DEF ScanOther, CarriersMatch
  <2>3. OutMatches'
    BY <1>2 DEF ScanOther, OutMatches
  <2> QED
    BY <2>1, <2>2, <2>3
<1>3. CASE ScanEnd
  <2>1. TypeOK'
    BY <1>3, <1>t DEF ScanEnd, TypeOK
  <2>2. next - 1 = Len(claims)
    BY <1>3, <1>t DEF ScanEnd, TypeOK
  <2>3. CarriersMatch'
    BY <1>3, <2>2 DEF ScanEnd, CarriersMatch
  <2>4. OutMatches'
    BY <1>3 DEF ScanEnd, OutMatches
  <2> QED
    BY <2>1, <2>3, <2>4
<1>4. CASE RekeyToCarrier \/ RekeyKeep
  <2>1. /\ pc = "rekey" /\ pc' = "rekey" /\ next <= Len(claims)
        /\ next' = next + 1
        /\ claims' = claims /\ carriers' = carriers
    BY <1>4 DEF RekeyToCarrier, RekeyKeep
  <2>2. Current \in Claim /\ Current.device \in Names
    BY <2>1, <1>t, ClaimNames DEF Current
  <2>3. carriers[Current.device] = CarriersOf(claims, Current.device)
    BY <2>1, <2>2 DEF CarriersMatch, CarriersOf
  <2>4. out' = Append(out,
                 [Current EXCEPT !.device = Resolve(carriers[Current.device], Current.device)])
    <3>1. CASE RekeyToCarrier
      BY <3>1, ResolveCases DEF RekeyToCarrier
    <3>2. CASE RekeyKeep
      <4>1. Resolve(carriers[Current.device], Current.device) = Current.device
        BY <3>2, ResolveCases DEF RekeyKeep
      <4>2. [Current EXCEPT !.device = Current.device] = Current
        BY <2>2 DEF Claim
      <4> QED
        BY <3>2, <4>1, <4>2 DEF RekeyKeep
    <3> QED
      BY <1>4, <3>1, <3>2
  <2>5. out' = Append(out, Rekeyed(claims)[next])
    BY <2>1, <2>3, <2>4, <1>t DEF Rekeyed, Current
  <2>6. Rekeyed(claims)[next] \in Claim
    <3>1. Resolve(carriers[Current.device], Current.device) \in Names
      BY <2>2, ResolveName DEF TypeOK
    <3>2. Rekeyed(claims)[next] =
             [Current EXCEPT !.device = Resolve(carriers[Current.device], Current.device)]
      BY <2>1, <2>3, <1>t DEF Rekeyed, Current
    <3> QED
      BY <2>2, <3>1, <3>2 DEF Claim
  <2>7. TypeOK'
    BY <2>1, <2>5, <2>6, <1>t DEF TypeOK
  <2>8. CarriersMatch'
    BY <2>1 DEF CarriersMatch
  <2>9. OutMatches'
    <3>1. out \in Seq(Claim) /\ Len(out) = next - 1
      BY <2>1 DEF TypeOK, OutMatches
    <3>2. Len(out') = next' - 1
      BY <2>1, <2>5, <2>6, <3>1, <1>t
    <3>3. ASSUME NEW i \in 1..Len(out') PROVE out'[i] = Rekeyed(claims)[i]
      BY <2>1, <2>5, <2>6, <3>1, <3>2, <1>t DEF OutMatches
    <3> QED
      BY <2>1, <3>2, <3>3 DEF OutMatches
  <2> QED
    BY <2>7, <2>8, <2>9
<1>5. CASE RekeyEnd
  <2>1. TypeOK'
    BY <1>5 DEF RekeyEnd, TypeOK
  <2>2. CarriersMatch'
    BY <1>5 DEF RekeyEnd, CarriersMatch
  <2>3. OutMatches'
    BY <1>5, <1>t DEF RekeyEnd, OutMatches, TypeOK
  <2> QED
    BY <2>1, <2>2, <2>3
<1>6. CASE UNCHANGED vars
  BY <1>6 DEF vars, TypeOK, CarriersMatch, OutMatches
<1> QED
  BY <1>1, <1>2, <1>3, <1>4, <1>5, <1>6 DEF Next

-----------------------------------------------------------------------------
(***************************************************************************)
(* The invariant of the two loops of reconcile_volume_serials holds for    *)
(* every claim list.                                                       *)
(***************************************************************************)
THEOREM LoopInvariant == Spec => []IInv
BY InitIInv, NextIInv, PTL DEF Spec

(***************************************************************************)
(* Every state of the pass is of its type: in particular a re-keyed claim  *)
(* is again a claim, with a device key among the strings of the input.     *)
(***************************************************************************)
THEOREM TypeCorrect == Spec => []TypeOK
<1>1. IInv => TypeOK
  BY DEF IInv
<1> QED
  BY <1>1, LoopInvariant, PTL

\* When every claim has been copied, the output is the re-keyed list, whole.
LEMMA AllCopiedIsRekeyed ==
    ASSUME IInv, Len(out) = Len(claims)
    PROVE  out = Rekeyed(claims)
<1>1. out \in Seq(Claim) /\ Len(claims) \in Nat
  BY DEF IInv, TypeOK
<1>2. out = [i \in 1..Len(out) |-> out[i]]
  BY <1>1
<1>3. Rekeyed(claims) = [i \in 1..Len(claims) |-> Rekeyed(claims)[i]]
  BY DEF Rekeyed
<1>4. \A i \in 1..Len(out) : out[i] = Rekeyed(claims)[i]
  BY DEF IInv, OutMatches
<1> QED
  BY <1>2, <1>3, <1>4

\* That is so when the pass is done.
LEMMA DoneIsRekeyed ==
    ASSUME IInv, pc = "done"
    PROVE  out = Rekeyed(claims) /\ Len(out) = Len(claims)
<1>1. Len(out) = Len(claims)
  BY DEF IInv, TypeOK, OutMatches
<1> QED
  BY <1>1, AllCopiedIsRekeyed

(***************************************************************************)
(* No attribution is guessed, for any number of claims, devices and        *)
(* serials: a claim moves only to the one device that every report about   *)
(* its old key names (reconcile.rs:9-11).                                  *)
(***************************************************************************)
THEOREM NeverGuessesAlways == Spec => []NeverGuesses
<1>1. IInv => NeverGuesses
  <2> SUFFICES ASSUME IInv, pc = "done",
                      NEW i \in 1..Len(claims)
               PROVE  /\ out[i] = [claims[i] EXCEPT !.device = out[i].device]
                      /\ out[i].device # claims[i].device =>
                          LET reports == {j \in 1..Len(claims) :
                                  AssertsCarrier(claims[j])
                                      /\ claims[j].value.text = claims[i].device}
                          IN  /\ reports # {}
                              /\ \A j \in reports : claims[j].device = out[i].device
    BY DoneIsRekeyed DEF NeverGuesses
  <2> DEFINE key == claims[i].device
             devices == CarriersOf(claims, key)
  <2>1. claims \in Seq(Claim) /\ claims[i] \in Claim
    BY DEF IInv, TypeOK
  <2>2. out[i] = [claims[i] EXCEPT !.device = Resolve(devices, key)]
    BY DoneIsRekeyed DEF Rekeyed
  <2>3. out[i].device = Resolve(devices, key)
    BY <2>1, <2>2 DEF Claim
  <2>4. ASSUME out[i].device # key
        PROVE  devices = {out[i].device}
    <3> HIDE DEF devices, key
    <3>1. PICK d \in devices : devices = {d}
      BY <2>3, <2>4, ResolveCases
    <3>2. Resolve(devices, key) = d
      BY <3>1, ResolveCases
    <3> QED
      BY <2>3, <3>1, <3>2
  <2>5. devices = {claims[j].device : j \in {k \in 1..Len(claims) :
                        AssertsCarrier(claims[k]) /\ claims[k].value.text = key}}
    BY DEF CarriersOf, CarriersUpTo
  <2>6. out[i] = [claims[i] EXCEPT !.device = out[i].device]
    BY <2>2, <2>3
  <2>7. ASSUME out[i].device # key,
               NEW j \in 1..Len(claims), AssertsCarrier(claims[j]), claims[j].value.text = key
        PROVE  claims[j].device = out[i].device
    <3>1. claims[j].device \in devices
      BY <2>5, <2>7
    <3> QED
      BY <2>4, <2>7, <3>1
  <2>8. ASSUME out[i].device # key
        PROVE  \E j \in 1..Len(claims) : AssertsCarrier(claims[j]) /\ claims[j].value.text = key
    <3>1. out[i].device \in devices
      BY <2>4, <2>8
    <3> QED
      BY <2>5, <3>1
  <2> HIDE DEF devices
  <2> QED
    BY <2>6, <2>7, <2>8
<1> QED
  BY <1>1, LoopInvariant, PTL

\* Re-keying keeps the rest of a claim, and a claim that reports a carrier
\* keeps its device too: nothing reports its device as an identity.
LEMMA ReportsStay ==
    ASSUME claims \in Seq(Claim), DevicesAreNotIdentities, NEW i \in 1..Len(claims)
    PROVE  /\ Rekeyed(claims)[i].device =
                Resolve(CarriersOf(claims, claims[i].device), claims[i].device)
           /\ Rekeyed(claims)[i].attribute = claims[i].attribute
           /\ Rekeyed(claims)[i].value = claims[i].value
           /\ AssertsCarrier(claims[i]) =>
                /\ CarriersOf(claims, claims[i].device) = {}
                /\ Rekeyed(claims)[i].device = claims[i].device
<1> DEFINE key == claims[i].device
<1>1. claims[i] \in Claim
  OBVIOUS
<1>2. Rekeyed(claims)[i] = [claims[i] EXCEPT !.device = Resolve(CarriersOf(claims, key), key)]
  BY DEF Rekeyed
<1>3. /\ Rekeyed(claims)[i].device = Resolve(CarriersOf(claims, key), key)
      /\ Rekeyed(claims)[i].attribute = claims[i].attribute
      /\ Rekeyed(claims)[i].value = claims[i].value
  BY <1>1, <1>2 DEF Claim
<1>4. ASSUME AssertsCarrier(claims[i])
      PROVE  CarriersOf(claims, key) = {}
  BY <1>4 DEF DevicesAreNotIdentities, CarriersOf, CarriersUpTo
<1>5. ASSUME AssertsCarrier(claims[i])
      PROVE  Rekeyed(claims)[i].device = key
  BY <1>3, <1>4, <1>5, ResolveCases
<1> QED
  BY <1>3, <1>4, <1>5

\* Re-keying makes no identity gain or lose a carrier: a pseudo-device's own
\* serial, moved to the unique carrier, reports that carrier once more.
LEMMA CarriersStay ==
    ASSUME claims \in Seq(Claim), DevicesAreNotIdentities, NEW identity
    PROVE  CarriersOf(Rekeyed(claims), identity) = CarriersOf(claims, identity)
<1> DEFINE after == Rekeyed(claims)
<1>0. Len(claims) \in Nat /\ Len(after) = Len(claims)
  BY DEF Rekeyed
<1>1. ASSUME NEW i \in 1..Len(claims), AssertsCarrier(claims[i]),
             claims[i].value.text = identity
      PROVE  /\ AssertsCarrier(after[i]) /\ after[i].value.text = identity
             /\ after[i].device = claims[i].device
  BY <1>1, ReportsStay DEF AssertsCarrier
<1>2. ASSUME NEW i \in 1..Len(claims), AssertsCarrier(after[i]),
             after[i].value.text = identity
      PROVE  after[i].device \in CarriersOf(claims, identity)
  <2>1. CASE AssertsCarrier(claims[i])
    <3>1. after[i].device = claims[i].device /\ claims[i].value.text = identity
      BY <1>2, <2>1, ReportsStay
    <3> QED
      BY <2>1, <3>1 DEF CarriersOf, CarriersUpTo
  <2>2. CASE ~ AssertsCarrier(claims[i])
    <3>1. claims[i].device = identity
      BY <1>2, <2>2, ReportsStay DEF AssertsCarrier
    <3>2. /\ after[i].device = Resolve(CarriersOf(claims, identity), identity)
          /\ after[i].device # identity
      BY <1>2, <3>1, ReportsStay DEF AssertsCarrier
    <3>3. PICK d \in CarriersOf(claims, identity) : CarriersOf(claims, identity) = {d}
      BY <3>2, ResolveCases
    <3>4. Resolve(CarriersOf(claims, identity), identity) = d
      BY <3>3, ResolveCases
    <3> QED
      BY <3>2, <3>3, <3>4
  <2> QED
    BY <2>1, <2>2
<1> HIDE DEF after
<1>3. CarriersOf(claims, identity) \subseteq CarriersOf(after, identity)
  BY <1>0, <1>1 DEF CarriersOf, CarriersUpTo
<1>4. CarriersOf(after, identity) \subseteq CarriersOf(claims, identity)
  <2> SUFFICES ASSUME NEW d \in CarriersOf(after, identity)
               PROVE  d \in CarriersOf(claims, identity)
    OBVIOUS
  <2>1. PICK i \in 1..Len(claims) :
            AssertsCarrier(after[i]) /\ after[i].value.text = identity /\ d = after[i].device
    BY <1>0 DEF CarriersOf, CarriersUpTo
  <2> QED
    BY <1>2, <2>1
<1> QED
  BY <1>3, <1>4 DEF after

(***************************************************************************)
(* The one pass is enough, for claim lists of any length: the key a claim  *)
(* moves to is a device that nothing reports as an identity, and the moved *)
(* claims give no identity another carrier (reconcile.rs:19-60).           *)
(***************************************************************************)
THEOREM SettledAlways == Spec => []Settled
<1>1. IInv => Settled
  <2> SUFFICES ASSUME IInv, pc = "done", DevicesAreNotIdentities
               PROVE  Rekeyed(out) = out
    BY DEF Settled
  <2> DEFINE after == Rekeyed(claims)
  <2>1. claims \in Seq(Claim) /\ Len(claims) \in Nat /\ out = after
    BY DoneIsRekeyed DEF IInv, TypeOK
  <2>2. Len(after) = Len(claims)
    BY <2>1 DEF Rekeyed
  <2>3. ASSUME NEW i \in 1..Len(claims)
        PROVE  Rekeyed(after)[i] = after[i]
    <3> DEFINE key == claims[i].device
               devices == CarriersOf(claims, key)
    <3>0. claims[i] \in Claim
      BY <2>1
    <3>1. after[i].device = Resolve(devices, key)
      BY <2>1, ReportsStay
    <3>2. after[i] = [claims[i] EXCEPT !.device = Resolve(devices, key)]
      BY <2>1 DEF Rekeyed
    <3>3. Rekeyed(after)[i] = [after[i] EXCEPT !.device =
              Resolve(CarriersOf(after, after[i].device), after[i].device)]
      BY <2>2 DEF Rekeyed
    <3>4. CarriersOf(after, after[i].device) = CarriersOf(claims, after[i].device)
      BY <2>1, CarriersStay
    <3>5. Resolve(CarriersOf(claims, after[i].device), after[i].device) = after[i].device
      <4>1. CASE \E d \in devices : devices = {d}
        <5>1. PICK d \in devices : devices = {d}
          BY <4>1
        <5>2. after[i].device = d
          BY <3>1, <5>1, ResolveCases
        <5>3. PICK j \in 1..Len(claims) : AssertsCarrier(claims[j]) /\ d = claims[j].device
          BY <5>1 DEF CarriersOf, CarriersUpTo
        <5>4. CarriersOf(claims, d) = {}
          BY <2>1, <5>3, ReportsStay
        <5> QED
          BY <5>2, <5>4, ResolveCases
      <4>2. CASE ~ \E d \in devices : devices = {d}
        <5>1. after[i].device = key
          BY <3>1, <4>2, ResolveCases
        <5> QED
          BY <3>1, <5>1
      <4> QED
        BY <4>1, <4>2
    <3> HIDE DEF after, key, devices
    <3>6. [after[i] EXCEPT !.device = after[i].device] = after[i]
      BY <3>0, <3>2 DEF Claim
    <3> QED
      BY <3>3, <3>4, <3>5, <3>6
  <2>4. /\ Rekeyed(after) = [i \in 1..Len(claims) |-> Rekeyed(after)[i]]
        /\ after = [i \in 1..Len(claims) |-> after[i]]
    BY <2>2 DEF Rekeyed
  <2> HIDE DEF after
  <2> QED
    BY <2>1, <2>3, <2>4
<1> QED
  BY <1>1, LoopInvariant, PTL

(***************************************************************************)
(* Claims under one key stay together, at every step and in lists of any   *)
(* length.                                                                 *)
(***************************************************************************)
THEOREM KeysMoveTogetherAlways == Spec => []KeysMoveTogether
<1>1. IInv => KeysMoveTogether
  <2> SUFFICES ASSUME IInv, NEW i \in 1..Len(out), NEW j \in 1..Len(out),
                      claims[i].device = claims[j].device
               PROVE  out[i].device = out[j].device
    BY DEF KeysMoveTogether
  <2>1. /\ claims \in Seq(Claim) /\ Len(out) \in Nat /\ Len(claims) \in Nat
        /\ Len(out) <= Len(claims)
    BY DEF IInv, TypeOK, OutMatches
  <2>2. ASSUME NEW k \in 1..Len(out)
        PROVE  out[k].device = Resolve(CarriersOf(claims, claims[k].device), claims[k].device)
    <3>1. k \in 1..Len(claims) /\ claims[k] \in Claim
      BY <2>1
    <3>2. out[k] = [claims[k] EXCEPT !.device =
                       Resolve(CarriersOf(claims, claims[k].device), claims[k].device)]
      BY <3>1 DEF IInv, OutMatches, Rekeyed
    <3> QED
      BY <3>1, <3>2 DEF Claim
  <2> QED
    BY <2>2
<1> QED
  BY <1>1, LoopInvariant, PTL

(***************************************************************************)
(* The two loops implement the one-step specification.                     *)
(***************************************************************************)
THEOREM RefinesAttribution == Spec => ImplementsAttribution
<1> DEFINE attributed == IF pc = "done" THEN out ELSE <<>>
<1>1. Init => Abstract!Init
  BY DEF Init, Abstract!Init
<1>2. IInv /\ IInv' /\ [Next]_vars => [Abstract!Next]_Abstract!vars
  <2> SUFFICES ASSUME IInv, IInv', [Next]_vars
               PROVE  [Abstract!Next]_Abstract!vars
    OBVIOUS
  <2>1. CASE ScanCarrier \/ ScanOther \/ ScanEnd \/ RekeyToCarrier \/ RekeyKeep
    <3>1. pc # "done" /\ pc' # "done" /\ claims' = claims
      BY <2>1 DEF ScanCarrier, ScanOther, ScanEnd, RekeyToCarrier, RekeyKeep
    <3> QED
      BY <3>1 DEF Abstract!vars
  <2>2. CASE RekeyEnd
    <3>1. pc # "done" /\ pc' = "done" /\ claims' = claims
      BY <2>2 DEF RekeyEnd
    <3>2. Len(out) = Len(claims)
      BY <2>2 DEF RekeyEnd, IInv, TypeOK, OutMatches
    <3>3. out' = Rekeyed(claims)
      BY <2>2, <3>2, AllCopiedIsRekeyed DEF RekeyEnd
    <3>4. Abstract!Rekeyed(claims) = Rekeyed(claims)
      BY DEF Abstract!Rekeyed, Abstract!CarriersOf, Abstract!CarriersUpTo, Abstract!Resolve,
             Abstract!AssertsCarrier, Abstract!IsText,
             Rekeyed, CarriersOf, CarriersUpTo, Resolve, AssertsCarrier, IsText
    <3> QED
      BY <3>1, <3>3, <3>4 DEF Abstract!Next, Abstract!AttributeAll
  <2>3. CASE UNCHANGED vars
    BY <2>3 DEF vars, Abstract!vars
  <2> QED
    BY <2>1, <2>2, <2>3 DEF Next
<1> QED
  BY <1>1, <1>2, LoopInvariant, PTL DEF Spec, ImplementsAttribution, Abstract!Spec
=============================================================================
