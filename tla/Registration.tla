---------------------------- MODULE Registration ----------------------------
(***************************************************************************)
(* Provider profiles (postProvider in handlers/providers.ts) and offers    *)
(* (postOffer in handlers/offers.ts): what they check against Postgres, in *)
(* which order, and what they store.                                       *)
(*                                                                         *)
(* One action is one SQL statement with the code that runs when its result *)
(* is there; between two of them any other request may run.  A payload is  *)
(* its own hash: two equal ones are one offerId.  Well-formedness, and the *)
(* denormalised score columns of an offer, are left out.                   *)
(***************************************************************************)
EXTENDS Integers, FiniteSets

CONSTANTS
  Provider, Attestation,
  ProfileMsg,          \* the profile/v1 payloads that may be posted, also again
  OfferMsg,            \* the offer/v1 payloads
  ProfileH, OfferH,    \* request slots
  OfferCap,            \* config.offerCapPerProvider
  SignedAtMaxFuture, TemplateMaxAhead, AttestationTtl,    \* config.ts limits
  None,                \* no row
  MaxTime              \* bound: the clock stops here

ProfilePayload == [signer: Provider, signedAt: Nat]
OfferPayload == [signer: Provider, attestation: Attestation, signedAt: Nat, expiresAt: Nat]

ASSUME PayloadAssumption == ProfileMsg \subseteq ProfilePayload /\ OfferMsg \subseteq OfferPayload
ASSUME ConfigAssumption ==
  /\ OfferCap \in Nat \ {0} /\ SignedAtMaxFuture \in Nat /\ TemplateMaxAhead \in Nat
  /\ AttestationTtl \in Nat \ {0} /\ MaxTime \in Nat
ASSUME SlotAssumption == IsFiniteSet(OfferH)

AttestationRow == [provider: Provider, expiresAt: Nat]
OfferRow == [expiresAt: Nat, revoked: BOOLEAN]

ASSUME NoneAssumption == None \notin ProfileMsg /\ None \notin AttestationRow /\ None \notin OfferRow

VARIABLES
  now,            \* Date.now() and Postgres' now()
  providers,      \* Postgres: the profile of a registered provider
  attestations,   \* Postgres: the attestations table
  offers,         \* Postgres: the offers table
  log,            \* Postgres: profile/v1 and offer/v1 payloads in payload_log
  ph, oh          \* the requests in flight

tables == <<providers, attestations, offers, log>>
vars == <<now, tables, ph, oh>>

Idle == [pc |-> "idle"]
ProfileCall == [pc: {"select", "log", "upsert"}, m: ProfileMsg]
OfferCall == [pc: {"provider"}, m: OfferMsg]
             \cup [pc: {"attestation"}, m: OfferMsg, at: Nat]
             \cup [pc: {"existing", "cap", "log", "insert"}, m: OfferMsg, expiresAt: Nat]

\* The tables and every request in flight.
TypeOK ==
  /\ now \in Nat
  /\ providers \in [Provider -> ProfileMsg \cup {None}]
  /\ attestations \in [Attestation -> AttestationRow \cup {None}]
  /\ offers \in [OfferMsg -> OfferRow \cup {None}]
  /\ log \subseteq ProfileMsg \cup OfferMsg
  /\ ph \in [ProfileH -> ProfileCall \cup {Idle}]
  /\ oh \in [OfferH -> OfferCall \cup {Idle}]

Init ==
  /\ now = 0
  /\ providers = [p \in Provider |-> None]
  /\ attestations = [a \in Attestation |-> None]
  /\ offers = [m \in OfferMsg |-> None]
  /\ log = {}
  /\ ph = [h \in ProfileH |-> Idle] /\ oh = [h \in OfferH |-> Idle]

Lesser(a, b) == IF a <= b THEN a ELSE b

-----------------------------------------------------------------------------
(* POST /v1/providers                                                      *)

ProfileGoto(h, pc) == ph' = [ph EXCEPT ![h].pc = pc]

\* The envelope is read and validated; both limiters let the request through.
ProfileRecv(h, m) ==
  /\ ph[h] = Idle
  /\ m.signedAt <= now + SignedAtMaxFuture
  /\ ph' = [ph EXCEPT ![h] = [pc |-> "select", m |-> m]]
  /\ UNCHANGED <<now, tables, oh>>

StaleRepeat(m) == providers[m.signer] # None /\ m.signedAt = providers[m.signer].signedAt   \* faulty

StalePayload(m) == providers[m.signer] # None /\ m.signedAt <= providers[m.signer].signedAt

ProfileSelect(h) ==
  /\ ph[h].pc = "select"
  /\ ~StalePayload(ph[h].m)
  /\ ProfileGoto(h, "log")
  /\ UNCHANGED <<now, tables, oh>>

ProfileLog(h) ==
  /\ ph[h].pc = "log"
  /\ log' = log \cup {ph[h].m}
  /\ ProfileGoto(h, "upsert")
  /\ UNCHANGED <<now, providers, attestations, offers, oh>>

\* insert ... on conflict (provider_id) do update
ProfileUpsert(h) ==
  /\ ph[h].pc = "upsert"
  /\ providers' = [providers EXCEPT ![ph[h].m.signer] = ph[h].m]
  /\ ph' = [ph EXCEPT ![h] = Idle]
  /\ UNCHANGED <<now, attestations, offers, log, oh>>

\* A refusal, an SQL error or a crash of the registry: the rest of the request is
\* not executed.  (A crash ends all requests at once, which is so many of these.)
ProfileEnds(h) ==
  /\ ph[h] # Idle
  /\ ph' = [ph EXCEPT ![h] = Idle]
  /\ UNCHANGED <<now, tables, oh>>

ProfileStep(h) ==
  \/ \E m \in ProfileMsg : ProfileRecv(h, m)
  \/ ProfileSelect(h) \/ ProfileLog(h) \/ ProfileUpsert(h) \/ ProfileEnds(h)

-----------------------------------------------------------------------------
(* POST /v1/offers                                                         *)

OfferGoto(h, pc) == oh' = [oh EXCEPT ![h].pc = pc]

\* The envelope is read and the limiter lets the request through.
OfferRecv(h, m) ==
  /\ oh[h] = Idle
  /\ oh' = [oh EXCEPT ![h] = [pc |-> "provider", m |-> m]]
  /\ UNCHANGED <<now, tables, ph>>

\* The provider is registered; then the clock is read and the times are checked.
OfferProvider(h) ==
  /\ oh[h].pc = "provider"
  /\ LET m == oh[h].m
     IN /\ providers[m.signer] # None
        /\ m.signedAt <= now + SignedAtMaxFuture
        /\ m.expiresAt > now
        /\ m.expiresAt <= now + TemplateMaxAhead
        /\ oh' = [oh EXCEPT ![h] = [pc |-> "attestation", m |-> m, at |-> now]]
  /\ UNCHANGED <<now, tables, ph>>

EffectiveExpiryOfTemplate(m, row) == m.expiresAt   \* faulty: not clamped to the attestation

EffectiveTtl(m, row) == Lesser(m.expiresAt, row.expiresAt) - now   \* faulty: a duration

EffectiveExpiry(m, row) == Lesser(m.expiresAt, row.expiresAt)

\* The attestation exists, is the signer's and had not expired at the time noted.
OfferAttestation(h) ==
  /\ oh[h].pc = "attestation"
  /\ LET m == oh[h].m
         row == attestations[m.attestation]
     IN /\ row # None
        /\ row.provider = m.signer
        /\ row.expiresAt > oh[h].at
        /\ oh' = [oh EXCEPT ![h] = [pc |-> "existing", m |-> m,
                                    expiresAt |-> EffectiveExpiry(m, row)]]
  /\ UNCHANGED <<now, tables, ph>>

\* A row with this id is answered 200 and left alone.
OfferExisting(h) ==
  /\ oh[h].pc = "existing"
  /\ offers[oh[h].m] = None
  /\ OfferGoto(h, "cap")
  /\ UNCHANGED <<now, tables, ph>>

\* where provider_id = p and revoked_at is null and expires_at > now()
ActiveOffers(p) ==
  {m \in OfferMsg : /\ m.signer = p /\ offers[m] # None
                    /\ ~offers[m].revoked /\ offers[m].expiresAt > now}

CapLeftOneMore(p) == Cardinality(ActiveOffers(p)) <= OfferCap   \* faulty: off by one

CapLeft(p) == Cardinality(ActiveOffers(p)) < OfferCap

OfferCheckCap(h) ==
  /\ oh[h].pc = "cap"
  /\ CapLeft(oh[h].m.signer)
  /\ OfferGoto(h, "log")
  /\ UNCHANGED <<now, tables, ph>>

OfferLog(h) ==
  /\ oh[h].pc = "log"
  /\ log' = log \cup {oh[h].m}
  /\ OfferGoto(h, "insert")
  /\ UNCHANGED <<now, providers, attestations, offers, ph>>

OfferUpsert(h) ==   \* faulty: on conflict do update
  /\ oh[h].pc = "insert"
  /\ offers' = [offers EXCEPT ![oh[h].m] = [expiresAt |-> oh[h].expiresAt, revoked |-> FALSE]]
  /\ oh' = [oh EXCEPT ![h] = Idle]
  /\ UNCHANGED <<now, providers, attestations, log, ph>>

\* The insert has no conflict clause: an equal offer stored meanwhile is an error.
OfferInsert(h) ==
  /\ oh[h].pc = "insert"
  /\ offers[oh[h].m] = None
  /\ offers' = [offers EXCEPT ![oh[h].m] = [expiresAt |-> oh[h].expiresAt, revoked |-> FALSE]]
  /\ oh' = [oh EXCEPT ![h] = Idle]
  /\ UNCHANGED <<now, providers, attestations, log, ph>>

\* A refusal, the 200 for an offer that exists, an SQL error (the duplicate key
\* included) or a crash.
OfferEnds(h) ==
  /\ oh[h] # Idle
  /\ oh' = [oh EXCEPT ![h] = Idle]
  /\ UNCHANGED <<now, tables, ph>>

OfferStep(h) ==
  \/ \E m \in OfferMsg : OfferRecv(h, m)
  \/ OfferProvider(h) \/ OfferAttestation(h) \/ OfferExisting(h)
  \/ OfferCheckCap(h) \/ OfferLog(h) \/ OfferInsert(h) \/ OfferEnds(h)

-----------------------------------------------------------------------------
(* What else writes these tables                                           *)

\* The close of a benchmark (module Attestation): only a registered provider can
\* open a challenge, and attestation rows reference it.
Attest(a, p) ==
  /\ attestations[a] = None /\ providers[p] # None
  /\ attestations' = [attestations EXCEPT ![a] = [provider |-> p, expiresAt |-> now + AttestationTtl]]
  /\ UNCHANGED <<now, providers, offers, log, ph, oh>>

\* The update of postRevoke (module LiveOffers has all of it).
Revoke(m) ==
  /\ offers[m] # None /\ ~offers[m].revoked
  /\ offers' = [offers EXCEPT ![m].revoked = TRUE]
  /\ UNCHANGED <<now, providers, attestations, log, ph, oh>>

Tick ==
  /\ now < MaxTime /\ now' = now + 1
  /\ UNCHANGED <<tables, ph, oh>>

Next ==
  \/ \E h \in ProfileH : ProfileStep(h)
  \/ \E h \in OfferH : OfferStep(h)
  \/ \E a \in Attestation, p \in Provider : Attest(a, p)
  \/ \E m \in OfferMsg : Revoke(m)
  \/ Tick

Spec == Init /\ [][Next]_vars

-----------------------------------------------------------------------------
(* Properties                                                              *)

\* The cap on a provider's active offers is a count followed, two statements later,
\* by an insert.  Whatever posts race, it is exceeded by less than the number of
\* posts in flight at once; a client that waits for each answer keeps it (postOffer).
CapSlack ==
  \A p \in Provider : Cardinality(ActiveOffers(p)) <= OfferCap + Cardinality(OfferH) - 1

\* Every offer is in the durable log, belongs to a registered provider, and rests on
\* an attestation of that very provider which it does not outlive (the checks and
\* the clamped expiry of postOffer, made statements before the insert).
OfferBacked ==
  \A m \in OfferMsg : offers[m] # None =>
    /\ m \in log /\ providers[m.signer] # None
    /\ attestations[m.attestation] # None
    /\ attestations[m.attestation].provider = m.signer
    /\ offers[m].expiresAt <= Lesser(m.expiresAt, attestations[m.attestation].expiresAt)

\* An offer once stored is never replaced: no retry, duplicate or late post revives
\* it after its revocation, prolongs it or removes it (postOffer, postRevoke).
OffersStand ==
  [][\A m \in OfferMsg : offers[m] # None =>
       /\ offers'[m] # None /\ offers'[m].expiresAt = offers[m].expiresAt
       /\ offers[m].revoked => offers'[m].revoked]_vars

\* docs/registry-spec.md 6.1: a profile is superseded by a newer one only.
ProfileNeverRegresses ==
  [][\A p \in Provider : providers[p] # None =>
       providers'[p] # None /\ providers[p].signedAt <= providers'[p].signedAt]_vars
=============================================================================
