------------------------- MODULE RegistrationProofs -------------------------
(* Theorems about Registration, for every set of providers, payloads and   *)
(* request slots, and every value of the limits.                           *)
EXTENDS Registration, FiniteSetTheorems, TLAPS

-----------------------------------------------------------------------------
(* Type correctness                                                        *)

\* A request is as far as its pc says, and has the fields that go with it.
LEMMA CallTypes ==
  ASSUME TypeOK
  PROVE  /\ \A h \in ProfileH : ph[h].pc # "idle" => ph[h] \in ProfileCall
         /\ \A h \in OfferH : oh[h].pc # "idle" => oh[h] \in OfferCall /\ oh[h].m \in OfferMsg
         /\ \A h \in OfferH : oh[h].pc = "attestation" => oh[h].at \in Nat
         /\ \A h \in OfferH : oh[h].pc \in {"existing", "cap", "log", "insert"} =>
              oh[h] \in [pc: {"existing", "cap", "log", "insert"}, m: OfferMsg, expiresAt: Nat]
BY DEF TypeOK, ProfileCall, OfferCall, Idle

LEMMA MsgTypes ==
  /\ \A m \in ProfileMsg : m.signer \in Provider /\ m.signedAt \in Nat
  /\ \A m \in OfferMsg : /\ m.signer \in Provider /\ m.attestation \in Attestation
                         /\ m.signedAt \in Nat /\ m.expiresAt \in Nat
BY PayloadAssumption DEF ProfilePayload, OfferPayload

LEMMA ProfileType ==
  ASSUME TypeOK, NEW h \in ProfileH, ProfileStep(h)
  PROVE  TypeOK'
<1>1. CASE \E m \in ProfileMsg : ProfileRecv(h, m)
  BY <1>1 DEF TypeOK, ProfileRecv, ProfileCall, tables
<1>2. CASE ProfileSelect(h)
  BY <1>2, CallTypes DEF TypeOK, ProfileSelect, ProfileGoto, ProfileCall, tables
<1>3. CASE ProfileLog(h)
  BY <1>3, CallTypes DEF TypeOK, ProfileLog, ProfileGoto, ProfileCall
<1>4. CASE ProfileUpsert(h)
  BY <1>4, CallTypes, MsgTypes DEF TypeOK, ProfileUpsert, ProfileCall
<1>5. CASE ProfileEnds(h)
  BY <1>5 DEF TypeOK, ProfileEnds, tables
<1> QED BY <1>1, <1>2, <1>3, <1>4, <1>5 DEF ProfileStep

LEMMA OfferType ==
  ASSUME TypeOK, NEW h \in OfferH, OfferStep(h)
  PROVE  TypeOK'
<1>1. CASE \E m \in OfferMsg : OfferRecv(h, m)
  BY <1>1 DEF TypeOK, OfferRecv, OfferCall, tables
<1>2. CASE OfferProvider(h)
  BY <1>2, CallTypes DEF TypeOK, OfferProvider, OfferCall, tables
<1>3. CASE OfferAttestation(h)
  <2> DEFINE m == oh[h].m
             row == attestations[m.attestation]
  <2>1. m \in OfferMsg /\ row \in AttestationRow
    BY <1>3, CallTypes, MsgTypes DEF TypeOK, OfferAttestation
  <2>2. EffectiveExpiry(m, row) \in Nat
    BY <2>1, MsgTypes DEF EffectiveExpiry, Lesser, AttestationRow
  <2> QED BY <1>3, <2>1, <2>2 DEF TypeOK, OfferAttestation, OfferCall, tables
<1>4. CASE OfferExisting(h)
  BY <1>4, CallTypes DEF TypeOK, OfferExisting, OfferGoto, OfferCall, tables
<1>5. CASE OfferCheckCap(h)
  BY <1>5, CallTypes DEF TypeOK, OfferCheckCap, OfferGoto, OfferCall, tables
<1>6. CASE OfferLog(h)
  BY <1>6, CallTypes DEF TypeOK, OfferLog, OfferGoto, OfferCall
<1>7. CASE OfferInsert(h)
  BY <1>7, CallTypes DEF TypeOK, OfferInsert, OfferRow
<1>8. CASE OfferEnds(h)
  BY <1>8 DEF TypeOK, OfferEnds, tables
<1> QED BY <1>1, <1>2, <1>3, <1>4, <1>5, <1>6, <1>7, <1>8 DEF OfferStep

LEMMA NextType == TypeOK /\ [Next]_vars => TypeOK'
<1> SUFFICES ASSUME TypeOK, [Next]_vars PROVE TypeOK'
  OBVIOUS
<1>1. CASE \E a \in Attestation, p \in Provider : Attest(a, p)
  BY <1>1, ConfigAssumption DEF TypeOK, Attest, AttestationRow
<1>2. CASE \E m \in OfferMsg : Revoke(m)
  BY <1>2 DEF TypeOK, Revoke, OfferRow
<1>3. CASE Tick
  BY <1>3 DEF TypeOK, Tick, tables
<1>4. CASE UNCHANGED vars
  BY <1>4 DEF TypeOK, vars, tables
<1> QED BY <1>1, <1>2, <1>3, <1>4, ProfileType, OfferType DEF Next

\* The tables and every request in flight keep their types, whatever races.
THEOREM TypeCorrect == Spec => []TypeOK
<1>1. Init => TypeOK
  BY DEF Init, TypeOK
<1> QED BY <1>1, NextType, PTL DEF Spec

-----------------------------------------------------------------------------
(* Stored offers stand                                                     *)

\* No step replaces, revives, prolongs or removes an offer (postOffer, postRevoke).
THEOREM OffersAreImmutable == Spec => OffersStand
<1> DEFINE Stand == \A m \in OfferMsg : offers[m] # None =>
             /\ offers'[m] # None /\ offers'[m].expiresAt = offers[m].expiresAt
             /\ offers[m].revoked => offers'[m].revoked
<1>1. TypeOK /\ [Next]_vars => [Stand]_vars
  <2> SUFFICES ASSUME TypeOK, [Next]_vars PROVE Stand
    OBVIOUS
  <2>1. CASE \E h \in OfferH : OfferInsert(h)
    <3>1. PICK h \in OfferH : OfferInsert(h)
      BY <2>1
    <3>2. oh[h].m \in OfferMsg
      BY <3>1, CallTypes DEF OfferInsert
    <3>3. \A m \in OfferMsg : m # oh[h].m => offers'[m] = offers[m]
      BY <3>1, <3>2 DEF TypeOK, OfferInsert
    <3> QED BY <3>1, <3>3 DEF OfferInsert
  <2>2. CASE \E m \in OfferMsg : Revoke(m)
    <3>1. PICK r \in OfferMsg : Revoke(r)
      BY <2>2
    <3>2. \A m \in OfferMsg : m # r => offers'[m] = offers[m]
      BY <3>1 DEF TypeOK, Revoke
    <3>3. offers[r] \in OfferRow /\ offers'[r] = [offers[r] EXCEPT !.revoked = TRUE]
      BY <3>1 DEF TypeOK, Revoke
    <3>4. offers'[r] \in OfferRow /\ offers'[r].expiresAt = offers[r].expiresAt /\ offers'[r].revoked
      BY <3>3 DEF OfferRow
    <3> QED BY <3>2, <3>4, NoneAssumption
  <2>3. CASE UNCHANGED offers
    BY <2>3
  <2> QED BY <2>1, <2>2, <2>3 DEF Next, ProfileStep, ProfileRecv, ProfileSelect, ProfileLog,
            ProfileUpsert, ProfileEnds, OfferStep, OfferRecv, OfferProvider, OfferAttestation,
            OfferExisting, OfferCheckCap, OfferLog, OfferEnds, Attest, Tick, vars, tables
<1> QED BY <1>1, TypeCorrect, PTL DEF Spec, OffersStand
-----------------------------------------------------------------------------
(* Offers are backed.  The checks of postOffer are made on rows that are   *)
(* never deleted or changed for the worse, so what a request has found     *)
(* still holds when it inserts.                                            *)

Backing(m, e) ==
  /\ providers[m.signer] # None
  /\ attestations[m.attestation] # None
  /\ attestations[m.attestation].provider = m.signer
  /\ e <= Lesser(m.expiresAt, attestations[m.attestation].expiresAt)

CallBacked(r) ==
  /\ r.pc = "attestation" => providers[r.m.signer] # None
  /\ r.pc \in {"existing", "cap", "log", "insert"} => Backing(r.m, r.expiresAt)
  /\ r.pc = "insert" => r.m \in log

RowBacked(m) == offers[m] # None => m \in log /\ Backing(m, offers[m].expiresAt)

BackInv == (\A h \in OfferH : CallBacked(oh[h])) /\ (\A m \in OfferMsg : RowBacked(m))

\* Rows are only added: what backs an offer goes on backing it.
Kept ==
  /\ \A p \in Provider : providers[p] # None => providers'[p] # None
  /\ \A a \in Attestation : attestations[a] # None => attestations'[a] = attestations[a]
  /\ log \subseteq log'

LEMMA NextKept ==
  ASSUME TypeOK, [Next]_vars
  PROVE  Kept
<1>1. CASE \E h \in ProfileH : ProfileUpsert(h)
  <2>1. PICK h \in ProfileH : ProfileUpsert(h)
    BY <1>1
  <2>2. ph[h].m \in ProfileMsg
    BY <2>1, CallTypes DEF ProfileUpsert, ProfileCall
  <2> QED BY <2>1, <2>2, MsgTypes, NoneAssumption DEF TypeOK, ProfileUpsert, Kept
<1>2. CASE \E a \in Attestation, p \in Provider : Attest(a, p)
  BY <1>2 DEF TypeOK, Attest, Kept
<1>3. CASE UNCHANGED <<providers, attestations>> /\ log \subseteq log'
  BY <1>3 DEF Kept
<1> QED BY <1>1, <1>2, <1>3 DEF Next, ProfileStep, ProfileRecv, ProfileSelect, ProfileLog,
          ProfileEnds, OfferStep, OfferRecv, OfferProvider, OfferAttestation, OfferExisting,
          OfferCheckCap, OfferLog, OfferInsert, OfferEnds, Revoke, Tick, vars, tables

LEMMA BackingKept ==
  ASSUME TypeOK, Kept, NEW m \in OfferMsg, NEW e, Backing(m, e)
  PROVE  Backing(m, e)'
BY MsgTypes DEF Kept, Backing

\* A request that goes on, or stays where it is, keeps what it had found.
LEMMA CallBackedKept ==
  ASSUME TypeOK, Kept, NEW h \in OfferH, CallBacked(oh[h]), oh[h].pc # "idle",
         oh'[h] = oh[h]
  PROVE  CallBacked(oh[h])'
<1>1. oh[h].m \in OfferMsg
  BY CallTypes
<1> QED BY <1>1, MsgTypes DEF CallBacked, Kept, Backing

LEMMA IdleBacked ==
  ASSUME NEW h \in OfferH, oh'[h] = Idle
  PROVE  CallBacked(oh[h])'
BY DEF CallBacked, Idle

LEMMA RowBackedKept ==
  ASSUME TypeOK, Kept, NEW m \in OfferMsg, RowBacked(m),
         offers'[m] # None => offers[m] # None /\ offers'[m].expiresAt = offers[m].expiresAt
  PROVE  RowBacked(m)'
BY BackingKept DEF RowBacked, Kept, Backing

LEMMA OfferBackInv ==
  ASSUME TypeOK, BackInv, Kept, NEW h \in OfferH, OfferStep(h)
  PROVE  BackInv'
<1>1. \A k \in OfferH : k # h => oh'[k] = oh[k]
  BY DEF TypeOK, OfferStep, OfferRecv, OfferProvider, OfferAttestation, OfferExisting,
         OfferCheckCap, OfferLog, OfferInsert, OfferEnds, OfferGoto
<1>2. ASSUME NEW k \in OfferH, k # h PROVE CallBacked(oh[k])'
  <2>1. CASE oh[k].pc = "idle"
    BY <1>1, <1>2, <2>1 DEF CallBacked
  <2>2. CASE oh[k].pc # "idle"
    BY <1>1, <1>2, <2>2, CallBackedKept DEF BackInv
  <2> QED BY <2>1, <2>2
<1> DEFINE r == oh[h]
<1>3. CASE OfferInsert(h)
  <2>1. PICK n \in OfferMsg : n = r.m
    BY <1>3, CallTypes DEF OfferInsert
  <2>2. PICK e : e = r.expiresAt
    OBVIOUS
  <2>3. RowBacked(n)'
    <3>1. offers'[n].expiresAt = e
      BY <1>3, <2>1, <2>2 DEF TypeOK, OfferInsert
    <3>2. Backing(n, e) /\ n \in log
      BY <1>3, <2>1, <2>2 DEF BackInv, CallBacked, OfferInsert
    <3>3. Backing(n, e)'
      BY <3>2, BackingKept
    <3> QED BY <3>1, <3>2, <3>3 DEF RowBacked, Kept, Backing
  <2>4. ASSUME NEW m \in OfferMsg, m # n PROVE RowBacked(m)'
    BY <1>3, <2>1, <2>4, RowBackedKept DEF TypeOK, OfferInsert, BackInv
  <2>5. CallBacked(oh[h])'
    BY <1>3, IdleBacked DEF TypeOK, OfferInsert
  <2> QED BY <1>2, <2>3, <2>4, <2>5 DEF BackInv
<1>4. CASE UNCHANGED offers
  <2>1. \A m \in OfferMsg : RowBacked(m)'
    BY <1>4, RowBackedKept DEF BackInv
  <2>2. CallBacked(oh[h])'
    <3> USE DEF BackInv
    <3>1. CASE \E m \in OfferMsg : OfferRecv(h, m)
      BY <3>1 DEF TypeOK, OfferRecv, CallBacked
    <3>2. CASE OfferProvider(h)
      BY <3>2 DEF TypeOK, OfferProvider, CallBacked, tables
    <3>3. CASE OfferAttestation(h)
      <4> DEFINE row == attestations[r.m.attestation]
      <4>1. r.m \in OfferMsg /\ row \in AttestationRow /\ providers[r.m.signer] # None
        BY <3>3, CallTypes, MsgTypes DEF TypeOK, OfferAttestation, CallBacked
      <4>2. EffectiveExpiry(r.m, row) <= Lesser(r.m.expiresAt, row.expiresAt)
        BY <4>1, MsgTypes DEF EffectiveExpiry, Lesser, AttestationRow
      <4> HIDE DEF row
      <4>3. Backing(r.m, EffectiveExpiry(r.m, row))
        BY <3>3, <4>1, <4>2 DEF Backing, OfferAttestation, row
      <4>4. oh'[h] = [pc |-> "existing", m |-> r.m, expiresAt |-> EffectiveExpiry(r.m, row)]
        BY <3>3 DEF TypeOK, OfferAttestation, row
      <4> HIDE DEF r
      <4> QED BY <3>3, <4>3, <4>4 DEF OfferAttestation, CallBacked, Backing, tables
    <3>4. CASE OfferExisting(h) \/ OfferCheckCap(h) \/ OfferLog(h)
      <4>1. r.m \in OfferMsg /\ Backing(r.m, r.expiresAt)
        BY <3>4, CallTypes DEF OfferExisting, OfferCheckCap, OfferLog, CallBacked
      <4>2. /\ oh'[h].m = r.m /\ oh'[h].expiresAt = r.expiresAt
            /\ oh'[h].pc \in {"cap", "log", "insert"}
            /\ oh'[h].pc = "insert" => r.m \in log'
        BY <3>4, CallTypes DEF TypeOK, OfferExisting, OfferCheckCap, OfferLog, OfferGoto
      <4> QED BY <4>1, <4>2, MsgTypes DEF CallBacked, Kept, Backing
    <3>5. CASE OfferEnds(h)
      BY <3>5, IdleBacked DEF TypeOK, OfferEnds
    <3> QED BY <3>1, <3>2, <3>3, <3>4, <3>5, <1>3, <1>4 DEF OfferStep, OfferInsert
  <2> QED BY <1>2, <2>1, <2>2 DEF BackInv
<1> QED BY <1>3, <1>4 DEF OfferStep, OfferRecv, OfferProvider, OfferAttestation, OfferExisting,
           OfferCheckCap, OfferLog, OfferEnds, tables

LEMMA NextBackInv == TypeOK /\ BackInv /\ [Next]_vars => BackInv'
<1> SUFFICES ASSUME TypeOK, BackInv, [Next]_vars PROVE BackInv'
  OBVIOUS
<1>1. Kept
  BY NextKept
<1>2. CASE \E h \in OfferH : OfferStep(h)
  BY <1>1, <1>2, OfferBackInv
<1>3. CASE UNCHANGED oh
  <2>1. ASSUME NEW m \in OfferMsg,
               offers'[m] # None => offers[m] # None /\ offers'[m].expiresAt = offers[m].expiresAt
        PROVE  RowBacked(m)'
    BY <1>1, <2>1, RowBackedKept DEF BackInv
  <2>2. ASSUME NEW h \in OfferH PROVE CallBacked(oh[h])'
    <3>1. CASE oh[h].pc = "idle"
      BY <1>3, <3>1 DEF CallBacked
    <3>2. CASE oh[h].pc # "idle"
      BY <1>1, <1>3, <3>2, CallBackedKept DEF BackInv
    <3> QED BY <3>1, <3>2
  <2>3. CASE \E m \in OfferMsg : Revoke(m)
    BY <2>1, <2>2, <2>3 DEF BackInv, TypeOK, Revoke, OfferRow
  <2>4. CASE UNCHANGED offers
    BY <2>1, <2>2, <2>4 DEF BackInv
  <2>5. CASE \E h \in OfferH : OfferStep(h)
    BY <1>2, <2>5
  <2> QED BY <2>3, <2>4, <2>5 DEF Next, ProfileStep, ProfileRecv, ProfileSelect, ProfileLog,
            ProfileUpsert, ProfileEnds, Attest, Tick, vars, tables
<1> QED BY <1>2, <1>3 DEF Next, ProfileStep, ProfileRecv, ProfileSelect, ProfileLog,
          ProfileUpsert, ProfileEnds, Attest, Revoke, Tick, vars

\* Every stored offer is logged and rests on an attestation of its own provider that
\* it does not outlive, although postOffer checks this statements before it inserts.
THEOREM OffersAreBacked == Spec => []OfferBacked
<1>1. Init => BackInv
  BY DEF Init, BackInv, CallBacked, RowBacked, Idle
<1>2. BackInv => OfferBacked
  BY DEF BackInv, RowBacked, Backing, OfferBacked
<1> QED BY <1>1, <1>2, NextBackInv, TypeCorrect, PTL DEF Spec

-----------------------------------------------------------------------------
(* The cap.  A post that found room has not used it yet, so the invariant  *)
(* counts it together with the offers that are active.                     *)

Admitted(p) == {h \in OfferH : oh[h].pc \in {"log", "insert"} /\ oh[h].m.signer = p}

CapInv ==
  \A p \in Provider :
    /\ IsFiniteSet(ActiveOffers(p))
    /\ Cardinality(ActiveOffers(p)) + Cardinality(Admitted(p)) <= OfferCap + Cardinality(OfferH) - 1

\* Counts of finite sets are natural numbers, and the slots bound who was admitted.
LEMMA Counts ==
  /\ Cardinality(OfferH) \in Nat
  /\ \A p \in Provider : /\ IsFiniteSet(Admitted(p))
                         /\ Cardinality(Admitted(p)) \in Nat
                         /\ Cardinality(Admitted(p)) <= Cardinality(OfferH)
BY SlotAssumption, FS_Subset, FS_CardinalityType DEF Admitted

\* Whatever admits nobody and activates nothing keeps the invariant.
LEMMA CapKept ==
  ASSUME CapInv, NEW p \in Provider,
         ActiveOffers(p)' \subseteq ActiveOffers(p), Admitted(p)' \subseteq Admitted(p)
  PROVE  /\ IsFiniteSet(ActiveOffers(p)')
         /\ Cardinality(ActiveOffers(p)') + Cardinality(Admitted(p)')
              <= OfferCap + Cardinality(OfferH) - 1
<1>1. /\ IsFiniteSet(ActiveOffers(p)') /\ Cardinality(ActiveOffers(p)') \in Nat
      /\ Cardinality(ActiveOffers(p)') <= Cardinality(ActiveOffers(p))
      /\ Cardinality(ActiveOffers(p)) \in Nat
  BY FS_Subset, FS_CardinalityType DEF CapInv
<1>2. /\ Cardinality(Admitted(p)') \in Nat /\ Cardinality(Admitted(p)) \in Nat
      /\ Cardinality(Admitted(p)') <= Cardinality(Admitted(p))
  BY Counts, FS_Subset, FS_CardinalityType
<1> QED BY <1>1, <1>2, Counts, ConfigAssumption DEF CapInv

LEMMA AdmitCap ==
  ASSUME TypeOK, CapInv, NEW h \in OfferH, OfferCheckCap(h), NEW p \in Provider
  PROVE  /\ IsFiniteSet(ActiveOffers(p)')
         /\ Cardinality(ActiveOffers(p)') + Cardinality(Admitted(p)')
              <= OfferCap + Cardinality(OfferH) - 1
<1>1. ActiveOffers(p)' = ActiveOffers(p)
  BY DEF ActiveOffers, OfferCheckCap, tables
<1>2. CASE oh[h].m.signer = p
  <2>1. Cardinality(ActiveOffers(p)) < OfferCap /\ Cardinality(ActiveOffers(p)) \in Nat
    BY <1>2, FS_CardinalityType DEF OfferCheckCap, CapLeft, CapInv
  <2>2. Admitted(p)' \subseteq OfferH
    BY DEF Admitted
  <2>3. Cardinality(Admitted(p)') \in Nat /\ Cardinality(Admitted(p)') <= Cardinality(OfferH)
    BY <2>2, SlotAssumption, FS_Subset, FS_CardinalityType
  <2> QED BY <1>1, <2>1, <2>3, Counts, ConfigAssumption DEF CapInv
<1>3. CASE oh[h].m.signer # p
  <2>1. Admitted(p)' \subseteq Admitted(p)
    BY <1>3, CallTypes DEF TypeOK, Admitted, OfferCheckCap, OfferGoto
  <2> QED BY <1>1, <2>1, CapKept
<1> QED BY <1>2, <1>3

LEMMA InsertCap ==
  ASSUME TypeOK, CapInv, NEW h \in OfferH, OfferInsert(h), NEW p \in Provider
  PROVE  /\ IsFiniteSet(ActiveOffers(p)')
         /\ Cardinality(ActiveOffers(p)') + Cardinality(Admitted(p)')
              <= OfferCap + Cardinality(OfferH) - 1
<1>1. PICK n \in OfferMsg : n = oh[h].m
  BY CallTypes DEF OfferInsert
<1>2. oh'[h].pc = "idle" /\ \A k \in OfferH : k # h => oh'[k] = oh[k]
  BY DEF TypeOK, OfferInsert, Idle
<1>3. \A m \in OfferMsg : m # n => offers'[m] = offers[m]
  BY <1>1 DEF TypeOK, OfferInsert
<1>4. now' = now
  BY DEF OfferInsert
<1>5. CASE n.signer = p
  <2> DEFINE A == ActiveOffers(p)
             B == Admitted(p)
  <2>1. ActiveOffers(p)' \subseteq A \cup {n}
    BY <1>3, <1>4 DEF ActiveOffers
  <2>2. Admitted(p)' \subseteq B \ {h} /\ h \in B
    BY <1>1, <1>2, <1>5 DEF Admitted, OfferInsert
  <2>3. IsFiniteSet(A) /\ IsFiniteSet(B)
    BY Counts DEF CapInv
  <2>4. Cardinality(A) + Cardinality(B) <= OfferCap + Cardinality(OfferH) - 1
    BY DEF CapInv
  <2> HIDE DEF A, B
  <2>5. /\ IsFiniteSet(A \cup {n}) /\ Cardinality(A) \in Nat
        /\ Cardinality(A \cup {n}) \in Nat /\ Cardinality(A \cup {n}) <= Cardinality(A) + 1
    <3>1. Cardinality(A) \in Nat
      BY <2>3, FS_CardinalityType
    <3>2. /\ IsFiniteSet(A \cup {n})
          /\ Cardinality(A \cup {n}) = IF n \in A THEN Cardinality(A) ELSE Cardinality(A) + 1
      BY <2>3, FS_AddElement
    <3> QED BY <3>1, <3>2
  <2>6. IsFiniteSet(B \ {h}) /\ Cardinality(B \ {h}) = Cardinality(B) - 1 /\ Cardinality(B) \in Nat
    BY <2>2, <2>3, FS_RemoveElement, FS_CardinalityType
  <2>7. /\ IsFiniteSet(ActiveOffers(p)') /\ Cardinality(ActiveOffers(p)') \in Nat
        /\ Cardinality(ActiveOffers(p)') <= Cardinality(A \cup {n})
    BY <2>1, <2>5, FS_Subset, FS_CardinalityType
  <2>8. Cardinality(Admitted(p)') \in Nat /\ Cardinality(Admitted(p)') <= Cardinality(B \ {h})
    BY <2>2, <2>6, FS_Subset, FS_CardinalityType
  <2> QED BY <2>4, <2>5, <2>6, <2>7, <2>8, Counts, ConfigAssumption
<1>6. CASE n.signer # p
  <2>1. ActiveOffers(p)' \subseteq ActiveOffers(p)
    BY <1>3, <1>4, <1>6 DEF ActiveOffers
  <2>2. Admitted(p)' \subseteq Admitted(p)
    BY <1>2 DEF Admitted
  <2> QED BY <2>1, <2>2, CapKept
<1> QED BY <1>5, <1>6

LEMMA NextCap == TypeOK /\ CapInv /\ [Next]_vars => CapInv'
<1> SUFFICES ASSUME TypeOK, CapInv, [Next]_vars, NEW p \in Provider
             PROVE  /\ IsFiniteSet(ActiveOffers(p)')
                    /\ Cardinality(ActiveOffers(p)') + Cardinality(Admitted(p)')
                         <= OfferCap + Cardinality(OfferH) - 1
  BY DEF CapInv
<1>1. CASE \E h \in OfferH : OfferCheckCap(h)
  BY <1>1, AdmitCap
<1>2. CASE \E h \in OfferH : OfferInsert(h)
  BY <1>2, InsertCap
<1>3. CASE \E h \in OfferH : /\ OfferStep(h) /\ ~OfferCheckCap(h) /\ ~OfferInsert(h)
  <2>1. PICK h \in OfferH : OfferStep(h) /\ ~OfferCheckCap(h) /\ ~OfferInsert(h)
    BY <1>3
  <2>2. UNCHANGED <<now, offers>>
    BY <2>1 DEF OfferStep, OfferRecv, OfferProvider, OfferAttestation, OfferExisting, OfferLog,
                OfferEnds, tables
  <2>3. /\ \A k \in OfferH : k # h => oh'[k] = oh[k]
        /\ oh'[h].pc \in {"log", "insert"} => oh[h].pc = "log" /\ oh'[h].m = oh[h].m
    BY <2>1, CallTypes DEF TypeOK, OfferStep, OfferRecv, OfferProvider, OfferAttestation,
                OfferExisting, OfferLog, OfferEnds, OfferGoto, Idle
  <2>4. Admitted(p)' \subseteq Admitted(p)
    BY <2>3 DEF Admitted
  <2> QED BY <2>2, <2>4, CapKept DEF ActiveOffers
<1>4. CASE UNCHANGED <<oh, offers>> /\ (now' = now \/ now' = now + 1)
  <2>1. ASSUME NEW m \in OfferMsg, offers[m] # None, offers[m].expiresAt > now'
        PROVE  offers[m].expiresAt > now
    <3>1. offers[m].expiresAt \in Nat /\ now \in Nat
      BY <2>1 DEF TypeOK, OfferRow
    <3> QED BY <1>4, <2>1, <3>1
  <2>2. ActiveOffers(p)' \subseteq ActiveOffers(p)
    BY <1>4, <2>1 DEF ActiveOffers
  <2> QED BY <1>4, <2>2, CapKept DEF Admitted
<1>5. CASE \E m \in OfferMsg : Revoke(m)
  <2>1. ActiveOffers(p)' \subseteq ActiveOffers(p)
    <3>1. PICK r \in OfferMsg : Revoke(r)
      BY <1>5
    <3>2. offers'[r] = [offers[r] EXCEPT !.revoked = TRUE] /\ offers[r] \in OfferRow
      BY <3>1 DEF TypeOK, Revoke
    <3>3. offers'[r].revoked
      BY <3>2 DEF OfferRow
    <3>4. \A m \in OfferMsg : m # r => offers'[m] = offers[m]
      BY <3>1 DEF TypeOK, Revoke
    <3>5. now' = now
      BY <3>1 DEF Revoke
    <3> QED BY <3>3, <3>4, <3>5 DEF ActiveOffers
  <2>2. UNCHANGED oh
    BY <1>5 DEF Revoke
  <2> QED BY <2>1, <2>2, CapKept DEF Admitted
<1> QED BY <1>1, <1>2, <1>3, <1>4, <1>5 DEF Next, ProfileStep, ProfileRecv, ProfileSelect, ProfileLog,
          ProfileUpsert, ProfileEnds, Attest, Tick, vars, tables

\* The cap on active offers is exceeded by less than the number of posts in flight at
\* once: exactly kept by a client that waits for each answer (postOffer).
THEOREM CapNearlyKept == Spec => []CapSlack
<1>1. Init => CapInv
  <2> SUFFICES ASSUME Init, NEW p \in Provider
               PROVE  /\ IsFiniteSet(ActiveOffers(p))
                      /\ Cardinality(ActiveOffers(p)) + Cardinality(Admitted(p))
                           <= OfferCap + Cardinality(OfferH) - 1
    BY DEF CapInv
  <2>1. ActiveOffers(p) = {} /\ Admitted(p) = {}
    BY DEF Init, ActiveOffers, Admitted, Idle
  <2> QED BY <2>1, FS_EmptySet, Counts, ConfigAssumption
<1>2. CapInv => CapSlack
  <2> SUFFICES ASSUME CapInv, NEW p \in Provider
               PROVE  Cardinality(ActiveOffers(p)) <= OfferCap + Cardinality(OfferH) - 1
    BY DEF CapSlack
  <2>1. Cardinality(ActiveOffers(p)) \in Nat
    BY FS_CardinalityType DEF CapInv
  <2> QED BY <2>1, Counts, ConfigAssumption DEF CapInv
<1> QED BY <1>1, <1>2, NextCap, TypeCorrect, PTL DEF Spec

-----------------------------------------------------------------------------
(* Profiles.  With one profile update at a time, what the select found is  *)
(* still true at the upsert; with two it is not (run reg_profile_race).    *)

FoundNewer == \A h \in ProfileH : ph[h].pc \in {"log", "upsert"} => ~StalePayload(ph[h].m)

\* If updates come one at a time, a stored profile is only superseded by a newer one.
THEOREM ProfilesAdvance ==
  ASSUME \A a, b \in ProfileH : a = b
  PROVE  Spec => ProfileNeverRegresses
<1> DEFINE Advance == \A p \in Provider : providers[p] # None =>
             providers'[p] # None /\ providers[p].signedAt <= providers'[p].signedAt
<1>1. Init => FoundNewer
  BY DEF Init, FoundNewer, Idle
<1>2. TypeOK /\ FoundNewer /\ [Next]_vars => FoundNewer'
  <2> SUFFICES ASSUME TypeOK, FoundNewer, [Next]_vars PROVE FoundNewer'
    OBVIOUS
  <2>1. CASE \E h \in ProfileH : ProfileStep(h)
    <3>1. PICK h \in ProfileH : ProfileStep(h)
      BY <2>1
    <3>2. CASE ProfileSelect(h) \/ ProfileLog(h)
      <4>1. ph'[h].m = ph[h].m /\ ~StalePayload(ph[h].m) /\ UNCHANGED providers
        BY <3>2, CallTypes DEF TypeOK, ProfileSelect, ProfileLog, ProfileGoto, ProfileCall, FoundNewer, tables
      <4> QED BY <4>1 DEF FoundNewer, StalePayload
    <3>3. CASE ph'[h].pc \notin {"log", "upsert"}
      BY <3>3 DEF FoundNewer
    <3> QED BY <3>1, <3>2, <3>3 DEF TypeOK, ProfileStep, ProfileRecv, ProfileUpsert, ProfileEnds, Idle
  <2>2. CASE UNCHANGED <<ph, providers>>
    BY <2>2 DEF FoundNewer, StalePayload
  <2> QED BY <2>1, <2>2 DEF Next, OfferStep, OfferRecv, OfferProvider, OfferAttestation, OfferExisting,
            OfferCheckCap, OfferLog, OfferInsert, OfferEnds, Attest, Revoke, Tick, vars, tables
<1>3. TypeOK /\ FoundNewer /\ [Next]_vars => [Advance]_vars
  <2> SUFFICES ASSUME TypeOK, FoundNewer, [Next]_vars PROVE Advance
    OBVIOUS
  <2>1. CASE \E h \in ProfileH : ProfileUpsert(h)
    <3>1. PICK h \in ProfileH : ProfileUpsert(h)
      BY <2>1
    <3>2. ph[h].m \in ProfileMsg /\ ~StalePayload(ph[h].m)
      BY <3>1, CallTypes DEF ProfileUpsert, ProfileCall, FoundNewer
    <3> QED BY <3>1, <3>2, MsgTypes, NoneAssumption DEF TypeOK, ProfileUpsert, StalePayload
  <2>2. CASE UNCHANGED providers
    BY <2>2, MsgTypes DEF TypeOK
  <2> QED BY <2>1, <2>2 DEF Next, ProfileStep, ProfileRecv, ProfileSelect, ProfileLog, ProfileEnds,
            OfferStep, OfferRecv, OfferProvider, OfferAttestation, OfferExisting, OfferCheckCap,
            OfferLog, OfferInsert, OfferEnds, Attest, Revoke, Tick, vars, tables
<1> QED BY <1>1, <1>2, <1>3, TypeCorrect, PTL DEF Spec, ProfileNeverRegresses
=============================================================================
