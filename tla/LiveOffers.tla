----------------------------- MODULE LiveOffers -----------------------------
(***************************************************************************)
(* The life of submitted offers: heartbeats (postTerms), busy hints        *)
(* (postAvailability), revocation (postRevoke), and the three reads        *)
(* (getOffers, getOffer, getLiveness) of handlers/offers.ts and            *)
(* handlers/query.ts, over the Redis wrapper of redis.ts.                  *)
(*                                                                         *)
(* The registry is one event loop serving many requests: a handler runs    *)
(* from one `await` to the next without interruption, so every action here *)
(* is the code between two awaits, and every Redis command or SQL          *)
(* statement is one atomic step.  Handlers of one kind are the members of  *)
(* a set (TermsH, AvailH, ...): its size is the number of requests of that *)
(* kind in flight at once.                                                 *)
(*                                                                         *)
(* Time is a discrete clock.  A Redis key written with PX p at time t is   *)
(* gone at t + p, which Tick applies.                                      *)
(***************************************************************************)
EXTENDS Integers, FiniteSets

CONSTANTS
  Offer, Provider,
  Owner,               \* [Offer -> Provider], offers.provider_id
  ExpiresAt,           \* [Offer -> Nat], offers.expires_at
  TermsMsg,            \* the terms/v1 payloads that may be posted, re-posted or replayed
  AvailMsg,            \* the avail/v1 payloads
  RevokeMsg,           \* the revoke/v1 payloads
  TermsH, AvailH, RevokeH, ReadH, LiveH,    \* request slots
  SignedAtMaxFuture, TermsMaxValidity, AvailMaxValidity,    \* config.ts limits
  Interval,            \* [Provider -> Nat], heartbeat_interval_sec
  Grace,               \* the 30 s of the 2*I + 30 s freshness window
  SnapshotTtl,         \* config.livenessTtlMs
  None,                \* null
  MaxTime,             \* bound: the clock stops here
  MaxLatency,          \* bound: the longest a request stays in flight
  MaxFaults            \* bound: Redis outages and registry crashes

TermsPayload == [offer: Offer, signer: Provider, seq: Nat, price: Nat,
                 signedAt: Nat, validUntil: Nat]
AvailPayload == [offer: Offer, signer: Provider, seq: Nat, available: BOOLEAN,
                 signedAt: Nat, validUntil: Nat]
RevokePayload == [offer: Offer, signer: Provider]
TermsEntry == [m: TermsMsg, receivedAt: Nat, exp: Nat]

ASSUME OfferAssumption ==
  /\ Owner \in [Offer -> Provider]
  /\ ExpiresAt \in [Offer -> Nat \ {0}]
  /\ Interval \in [Provider -> Nat \ {0}]
ASSUME MsgAssumption ==
  /\ TermsMsg \subseteq TermsPayload
  /\ AvailMsg \subseteq AvailPayload
  /\ RevokeMsg \subseteq RevokePayload
ASSUME LimitAssumption ==
  /\ SignedAtMaxFuture \in Nat /\ TermsMaxValidity \in Nat
  /\ AvailMaxValidity \in Nat \ {0} /\ Grace \in Nat /\ SnapshotTtl \in Nat \ {0}
  /\ MaxTime \in Nat /\ MaxLatency \in Nat /\ MaxFaults \in Nat
ASSUME NoneAssumption == None \notin TermsEntry

VARIABLES
  now,        \* Date.now(), also Redis' and Postgres' clock
  revoked,    \* Postgres: offers.revoked_at is not null
  log,        \* Postgres: revoke/v1 payloads in payload_log
  up,         \* the Redis connection works
  faults,     \* outages and crashes so far (bounded by MaxFaults)
  seq,        \* Redis seq:{offer}
  terms,      \* Redis terms:{offer}
  score,      \* Redis live:offers, the ZSET score of each member
  price,      \* Redis live:prices
  seen,       \* Redis seen:{provider}
  availSeq,   \* Redis availseq:{offer}
  busy,       \* Redis busy:{offer}, its expiry
  snap,       \* Redis liveness:snapshot
  th, ah, rh, qh, lh,   \* the handlers in flight
  acked,      \* history: offers whose revocation was answered 200
  raced       \* history: offers revoked while a write to them was in flight

db == <<revoked, log, raced>>
link == <<up, faults>>
liveKeys == <<terms, score, price>>
busyKeys == <<availSeq, busy>>
redisVars == <<liveKeys, seq, seen, busyKeys, snap>>
reads == <<qh, lh>>
calls == <<th, ah, rh, reads>>
vars == <<now, db, link, redisVars, calls, acked>>

Idle == [pc |-> "idle"]

Row == [offer: Offer, price: Nat]
Snapshot == [at: Nat, rows: SUBSET Row, exp: Nat]
Item == [offer: Offer, status: {"active", "busy", "stale", "expired", "revoked"},
         terms: TermsEntry \cup {None}]

TermsCall == [pc: {"check", "getSeq", "setSeq", "set", "zadd", "hset", "touch"},
              offer: Offer, m: TermsMsg, at: Nat]
AvailCall == [pc: {"check", "getSeq", "setSeq", "apply"},
              offer: Offer, m: AvailMsg, at: Nat]
RevokeCall == [pc: {"log", "update", "del", "zrem", "hdel"}, offer: Offer, m: RevokeMsg]
ReadCall == [pc: {"redis"}, kind: {"list", "get"}, freshness: {"strict", "normal", "any"},
             free: BOOLEAN, rows: SUBSET Offer, dead: SUBSET Offer, gone: SUBSET Offer]
ReadReply == [pc: {"reply"}, kind: {"list", "get"}, freshness: {"strict", "normal", "any"},
              at: Nat, items: SUBSET Item, gone: SUBSET Offer]
LiveCall == [pc: {"prune", "range", "prices", "cache"}, at: Nat,
             ids: SUBSET Offer, rows: SUBSET Row, gone: SUBSET Offer]

\* The state of the tables, of Redis and of every handler in flight.
TypeOK ==
  /\ now \in Nat /\ up \in BOOLEAN /\ faults \in 0..MaxFaults
  /\ revoked \in SUBSET Offer /\ log \in SUBSET RevokeMsg
  /\ seq \in [Offer -> Nat \cup {None}]
  /\ terms \in [Offer -> TermsEntry \cup {None}]
  /\ score \in [Offer -> Nat \cup {None}]
  /\ price \in [Offer -> Nat \cup {None}]
  /\ seen \in [Provider -> Nat \cup {None}]
  /\ availSeq \in [Offer -> Nat \cup {None}]
  /\ busy \in [Offer -> Nat \cup {None}]
  /\ snap \in Snapshot \cup {None}
  /\ th \in [TermsH -> TermsCall \cup {Idle}]
  /\ ah \in [AvailH -> AvailCall \cup {Idle}]
  /\ rh \in [RevokeH -> RevokeCall \cup {Idle}]
  /\ qh \in [ReadH -> ReadCall \cup ReadReply \cup {Idle}]
  /\ lh \in [LiveH -> LiveCall \cup {Idle}]
  /\ acked \in SUBSET Offer /\ raced \in SUBSET Offer

Init ==
  /\ now = 0 /\ up = TRUE /\ faults = 0
  /\ revoked = {} /\ log = {}
  /\ seq = [o \in Offer |-> None] /\ terms = [o \in Offer |-> None]
  /\ score = [o \in Offer |-> None] /\ price = [o \in Offer |-> None]
  /\ seen = [p \in Provider |-> None]
  /\ availSeq = [o \in Offer |-> None] /\ busy = [o \in Offer |-> None]
  /\ snap = None
  /\ th = [h \in TermsH |-> Idle] /\ ah = [h \in AvailH |-> Idle]
  /\ rh = [h \in RevokeH |-> Idle] /\ qh = [h \in ReadH |-> Idle]
  /\ lh = [h \in LiveH |-> Idle]
  /\ acked = {} /\ raced = {}

-----------------------------------------------------------------------------
(* Redis through `send`: with no connection a read is null and a write is  *)
(* dropped.                                                                *)

Lesser(a, b) == IF a <= b THEN a ELSE b

\* GET of a key: what is stored, or null when Redis is away.
Fetch(store, k) == IF up THEN store[k] ELSE None

\* A write whose reply the caller ignores.
Put(store, k, v) == IF up THEN [store EXCEPT ![k] = v] ELSE store

-----------------------------------------------------------------------------
(* POST /v1/offers/:offerId/terms                                          *)

FreshWindow(o) == 2 * Interval[Owner[o]] + Grace

TermsAcceptedAnySigner(o, m, at) ==   \* faulty: no signer check
  /\ o \notin revoked /\ ExpiresAt[o] > at /\ m.offer = o
  /\ m.signedAt <= at + SignedAtMaxFuture
  /\ m.validUntil - m.signedAt <= TermsMaxValidity /\ m.validUntil > at

\* The refusals of postTerms between the row lookup and the seq check.  The
\* format checks on unit, price, seq and capacity are left out: TermsMsg holds
\* well-formed payloads.
TermsAccepted(o, m, at) ==
  /\ o \notin revoked
  /\ ExpiresAt[o] > at
  /\ m.signer = Owner[o]
  /\ m.offer = o
  /\ m.signedAt <= at + SignedAtMaxFuture
  /\ m.validUntil - m.signedAt <= TermsMaxValidity
  /\ m.validUntil > at

TermsTtlWindowOnly(o, m, at) == FreshWindow(o)   \* faulty: forgets validUntil

TermsTtl(o, m, at) == Lesser(m.validUntil - at, FreshWindow(o))

TermsGoto(h, pc) == th' = [th EXCEPT ![h].pc = pc]
TermsEnd(h) == th' = [th EXCEPT ![h] = Idle]

TermsRecv(h, o, m) ==
  /\ th[h] = Idle
  /\ th' = [th EXCEPT ![h] = [pc |-> "check", offer |-> o, m |-> m, at |-> now]]
  /\ UNCHANGED <<now, db, link, redisVars, ah, rh, reads, acked>>

\* findOffer, the rate limiter and the checks; the limiter may refuse any request.
TermsCheck(h) ==
  /\ th[h].pc = "check"
  /\ \/ TermsAccepted(th[h].offer, th[h].m, th[h].at) /\ TermsGoto(h, "getSeq")
     \/ TermsEnd(h)
  /\ UNCHANGED <<now, db, link, redisVars, ah, rh, reads, acked>>

SeqRepeated(stored, n) == stored # None /\ n = stored   \* faulty: only an exact repeat

SeqRegression(stored, n) == stored # None /\ n <= stored

TermsGetSeq(h) ==
  /\ th[h].pc = "getSeq"
  /\ IF SeqRegression(Fetch(seq, th[h].offer), th[h].m.seq)
       THEN TermsEnd(h)
       ELSE TermsGoto(h, "setSeq")
  /\ UNCHANGED <<now, db, link, redisVars, ah, rh, reads, acked>>

TermsSetSeq(h) ==
  /\ th[h].pc = "setSeq"
  /\ seq' = Put(seq, th[h].offer, th[h].m.seq)
  /\ TermsGoto(h, "set")
  /\ UNCHANGED <<now, db, link, liveKeys, seen, busyKeys, snap, ah, rh, reads, acked>>

EntryWithoutPx(call) ==   \* faulty: SET without an expiry
  [m |-> call.m, receivedAt |-> call.at, exp |-> MaxTime + 1]

\* The terms:{offer} entry of a call: PX counts from the SET, ttl from receipt.
EntryOf(call) ==
  [m |-> call.m, receivedAt |-> call.at,
   exp |-> now + TermsTtl(call.offer, call.m, call.at)]

\* SET terms:{offer} PX ttl; without a reply the handler answers INTERNAL and stops.
TermsSet(h) ==
  /\ th[h].pc = "set"
  /\ terms' = Put(terms, th[h].offer, EntryOf(th[h]))
  /\ IF up THEN TermsGoto(h, "zadd") ELSE TermsEnd(h)
  /\ UNCHANGED <<now, db, link, seq, score, price, seen, busyKeys, snap, ah, rh, reads, acked>>

\* The same SET when the connection drops after Redis applied it.
TermsSetReplyLost(h) ==
  /\ th[h].pc = "set" /\ up /\ faults < MaxFaults
  /\ terms' = Put(terms, th[h].offer, EntryOf(th[h]))
  /\ up' = FALSE /\ faults' = faults + 1
  /\ TermsEnd(h)
  /\ UNCHANGED <<now, db, seq, score, price, seen, busyKeys, snap, ah, rh, reads, acked>>

ScoreValidUntil(call) == call.m.validUntil   \* faulty: outlives the freshness window

\* effectiveExpiryMs, counted from receipt
ScoreOf(call) == call.at + TermsTtl(call.offer, call.m, call.at)

TermsZadd(h) ==
  /\ th[h].pc = "zadd"
  /\ score' = Put(score, th[h].offer, ScoreOf(th[h]))
  /\ TermsGoto(h, "hset")
  /\ UNCHANGED <<now, db, link, seq, terms, price, seen, busyKeys, snap, ah, rh, reads, acked>>

TermsHset(h) ==
  /\ th[h].pc = "hset"
  /\ price' = Put(price, th[h].offer, th[h].m.price)
  /\ TermsGoto(h, "touch")
  /\ UNCHANGED <<now, db, link, seq, terms, score, seen, busyKeys, snap, ah, rh, reads, acked>>

\* touchProvider, then 200.  (Its 7-day PX is beyond the horizon of the model.)
TermsTouch(h) ==
  /\ th[h].pc = "touch"
  /\ seen' = Put(seen, th[h].m.signer, th[h].at)
  /\ TermsEnd(h)
  /\ UNCHANGED <<now, db, link, seq, liveKeys, busyKeys, snap, ah, rh, reads, acked>>

TermsStep(h) ==
  \/ TermsCheck(h) \/ TermsGetSeq(h) \/ TermsSetSeq(h)
  \/ TermsSet(h) \/ TermsSetReplyLost(h)
  \/ TermsZadd(h) \/ TermsHset(h) \/ TermsTouch(h)

-----------------------------------------------------------------------------
(* POST /v1/offers/:offerId/availability                                   *)

\* The refusals of postAvailability before its seq check.  Unlike postTerms it
\* does not yet look at whether validUntil has passed.
AvailAccepted(o, m, at) ==
  /\ o \notin revoked
  /\ ExpiresAt[o] > at
  /\ m.signer = Owner[o]
  /\ m.offer = o
  /\ m.signedAt <= at + SignedAtMaxFuture
  /\ m.validUntil - m.signedAt <= AvailMaxValidity

AvailGoto(h, pc) == ah' = [ah EXCEPT ![h].pc = pc]
AvailEnd(h) == ah' = [ah EXCEPT ![h] = Idle]

AvailRecv(h, o, m) ==
  /\ ah[h] = Idle
  /\ ah' = [ah EXCEPT ![h] = [pc |-> "check", offer |-> o, m |-> m, at |-> now]]
  /\ UNCHANGED <<now, db, link, redisVars, th, rh, reads, acked>>

AvailCheck(h) ==
  /\ ah[h].pc = "check"
  /\ \/ AvailAccepted(ah[h].offer, ah[h].m, ah[h].at) /\ AvailGoto(h, "getSeq")
     \/ AvailEnd(h)
  /\ UNCHANGED <<now, db, link, redisVars, th, rh, reads, acked>>

AvailGetSeq(h) ==
  /\ ah[h].pc = "getSeq"
  /\ IF SeqRegression(Fetch(availSeq, ah[h].offer), ah[h].m.seq)
       THEN AvailEnd(h)
       ELSE AvailGoto(h, "setSeq")
  /\ UNCHANGED <<now, db, link, redisVars, th, rh, reads, acked>>

AvailSetSeq(h) ==
  /\ ah[h].pc = "setSeq"
  /\ availSeq' = Put(availSeq, ah[h].offer, ah[h].m.seq)
  /\ AvailGoto(h, "apply")
  /\ UNCHANGED <<now, db, link, liveKeys, seq, seen, busy, snap, th, rh, reads, acked>>

BusyTtlCapOnly(m, at) == AvailMaxValidity   \* faulty: forgets validUntil

BusyTtl(m, at) == Lesser(m.validUntil - at, AvailMaxValidity)

BusyAfterKeepsFlag(call) ==   \* faulty: available:true does not clear the flag
  IF call.m.available \/ call.m.validUntil <= call.at THEN busy
  ELSE Put(busy, call.offer, now + BusyTtl(call.m, call.at))

\* What the busy key becomes: a hint whose validUntil has passed is refused here,
\* after its seq was stored.
BusyAfter(call) ==
  IF call.m.available THEN Put(busy, call.offer, None)
  ELSE IF call.m.validUntil <= call.at THEN busy
  ELSE Put(busy, call.offer, now + BusyTtl(call.m, call.at))

AvailApply(h) ==
  /\ ah[h].pc = "apply"
  /\ busy' = BusyAfter(ah[h])
  /\ AvailEnd(h)
  /\ UNCHANGED <<now, db, link, liveKeys, seq, seen, availSeq, snap, th, rh, reads, acked>>

AvailStep(h) == AvailCheck(h) \/ AvailGetSeq(h) \/ AvailSetSeq(h) \/ AvailApply(h)

-----------------------------------------------------------------------------
(* POST /v1/offers/:offerId/revoke                                         *)

\* A revocation signed by anyone but the owner, or of another offer, is refused
\* and changes nothing.
RevokeAccepted(o, m) == m.signer = Owner[o] /\ m.offer = o

RevokeGoto(h, pc) == rh' = [rh EXCEPT ![h].pc = pc]

RevokeRecvUnlogged(h, o, m) ==   \* faulty: updates the row without logging
  /\ rh[h] = Idle
  /\ RevokeAccepted(o, m)
  /\ rh' = [rh EXCEPT ![h] = [pc |-> "update", offer |-> o, m |-> m]]
  /\ UNCHANGED <<now, db, link, redisVars, th, ah, reads, acked>>

RevokeRecv(h, o, m) ==
  /\ rh[h] = Idle
  /\ RevokeAccepted(o, m)
  /\ rh' = [rh EXCEPT ![h] = [pc |-> "log", offer |-> o, m |-> m]]
  /\ UNCHANGED <<now, db, link, redisVars, th, ah, reads, acked>>

\* logPayload: insert ... on conflict do nothing
RevokeLog(h) ==
  /\ rh[h].pc = "log"
  /\ log' = log \cup {rh[h].m}
  /\ RevokeGoto(h, "update")
  /\ UNCHANGED <<now, revoked, raced, link, redisVars, th, ah, reads, acked>>

\* Writers that already passed their own look at revoked_at.
WritesInFlight(o) ==
  \/ \E h \in TermsH : th[h].pc \notin {"idle", "check"} /\ th[h].offer = o
  \/ \E h \in AvailH : ah[h].pc \notin {"idle", "check"} /\ ah[h].offer = o

RevokeUpdate(h) ==
  /\ rh[h].pc = "update"
  /\ revoked' = revoked \cup {rh[h].offer}
  /\ raced' = raced \cup {o \in {rh[h].offer} : WritesInFlight(o)}
  /\ RevokeGoto(h, "del")
  /\ UNCHANGED <<now, log, link, redisVars, th, ah, reads, acked>>

RevokeDelKeepsSeqs(h) ==   \* faulty: the seq keys stay behind
  /\ rh[h].pc = "del"
  /\ terms' = Put(terms, rh[h].offer, None)
  /\ busy' = Put(busy, rh[h].offer, None)
  /\ RevokeGoto(h, "zrem")
  /\ UNCHANGED <<now, db, link, score, price, seq, seen, availSeq, snap, th, ah, reads, acked>>

\* dropOffer, command by command
RevokeDel(h) ==
  /\ rh[h].pc = "del"
  /\ terms' = Put(terms, rh[h].offer, None)
  /\ seq' = Put(seq, rh[h].offer, None)
  /\ busy' = Put(busy, rh[h].offer, None)
  /\ availSeq' = Put(availSeq, rh[h].offer, None)
  /\ RevokeGoto(h, "zrem")
  /\ UNCHANGED <<now, db, link, score, price, seen, snap, th, ah, reads, acked>>

RevokeZrem(h) ==
  /\ rh[h].pc = "zrem"
  /\ score' = Put(score, rh[h].offer, None)
  /\ RevokeGoto(h, "hdel")
  /\ UNCHANGED <<now, db, link, seq, terms, price, seen, busyKeys, snap, th, ah, reads, acked>>

RevokeHdel(h) ==
  /\ rh[h].pc = "hdel"
  /\ price' = Put(price, rh[h].offer, None)
  /\ acked' = acked \cup {rh[h].offer}
  /\ rh' = [rh EXCEPT ![h] = Idle]
  /\ UNCHANGED <<now, db, link, seq, terms, score, seen, busyKeys, snap, th, ah, reads>>

RevokeStep(h) ==
  RevokeLog(h) \/ RevokeUpdate(h) \/ RevokeDel(h) \/ RevokeZrem(h) \/ RevokeHdel(h)

-----------------------------------------------------------------------------
(* GET /v1/offers (getOffers) and GET /v1/offers/:offerId (getOffer)       *)

offerStatusTermsFirst(isRevoked, expiresAt, hasLiveTerms, isBusy, at) ==   \* faulty order
  CASE isRevoked -> "revoked"
    [] ~isRevoked /\ hasLiveTerms -> IF isBusy THEN "busy" ELSE "active"
    [] OTHER -> IF expiresAt <= at THEN "expired" ELSE "stale"

offerStatus(isRevoked, expiresAt, hasLiveTerms, isBusy, at) ==
  CASE isRevoked -> "revoked"
    [] ~isRevoked /\ expiresAt <= at -> "expired"
    [] ~isRevoked /\ expiresAt > at /\ ~hasLiveTerms -> "stale"
    [] OTHER -> IF isBusy THEN "busy" ELSE "active"

CandidatesUnexpired == {o \in Offer : ExpiresAt[o] > now}   \* faulty: forgets revoked_at

\* where o.revoked_at is null and o.expires_at > now()
Candidates == {o \in Offer : o \notin revoked /\ ExpiresAt[o] > now}

\* The SQL of getOffers; `gone` remembers which revocations were answered before it.
QuerySql(h, freshness, free) ==
  /\ qh[h] = Idle
  /\ qh' = [qh EXCEPT ![h] =
       [pc |-> "redis", kind |-> "list", freshness |-> freshness, free |-> free,
        rows |-> Candidates,
        dead |-> {}, gone |-> acked]]
  /\ UNCHANGED <<now, db, link, redisVars, th, ah, rh, lh, acked>>

\* findOffer: the row whatever its state, revoked_at included.
GetSql(h, o) ==
  /\ qh[h] = Idle
  /\ qh' = [qh EXCEPT ![h] =
       [pc |-> "redis", kind |-> "get", freshness |-> "any", free |-> FALSE,
        rows |-> {o}, dead |-> {o} \cap revoked, gone |-> acked]]
  /\ UNCHANGED <<now, db, link, redisVars, th, ah, rh, lh, acked>>

Fresh(freshness, o, t) ==
  \/ freshness = "any"
  \/ /\ t # None
     /\ now - t.receivedAt <= IF freshness = "strict" THEN Interval[Owner[o]]
                                                       ELSE FreshWindow(o)

\* The terms and busy lookups travel together on the one connection, so they are
\* one step with the clock reading that precedes them.
ReadRedis(h) ==
  /\ qh[h].pc = "redis"
  /\ LET isBusy(o) == Fetch(terms, o) # None /\ Fetch(busy, o) # None
         kept == {o \in qh[h].rows : /\ Fresh(qh[h].freshness, o, Fetch(terms, o))
                                     /\ ~(qh[h].free /\ isBusy(o))}
         item(o) == [offer |-> o, terms |-> Fetch(terms, o),
                     status |-> offerStatus(o \in qh[h].dead, ExpiresAt[o],
                                            Fetch(terms, o) # None, isBusy(o), now)]
     IN qh' = [qh EXCEPT ![h] =
          [pc |-> "reply", kind |-> qh[h].kind, freshness |-> qh[h].freshness,
           at |-> now, items |-> {item(o) : o \in kept}, gone |-> qh[h].gone]]
  /\ UNCHANGED <<now, db, link, redisVars, th, ah, rh, lh, acked>>

ReadReturn(h) ==
  /\ qh[h].pc = "reply"
  /\ qh' = [qh EXCEPT ![h] = Idle]
  /\ UNCHANGED <<now, db, link, redisVars, th, ah, rh, lh, acked>>

ReadStep(h) == ReadRedis(h) \/ ReadReturn(h)

-----------------------------------------------------------------------------
(* GET /v1/liveness: a cached blob is returned as it is, which changes     *)
(* nothing; a miss rebuilds it from live:offers and live:prices.           *)

LiveMiss(h) ==
  /\ lh[h] = Idle
  /\ up => snap = None
  /\ lh' = [lh EXCEPT ![h] = [pc |-> "prune", at |-> now, ids |-> {}, rows |-> {}, gone |-> {}]]
  /\ UNCHANGED <<now, db, link, redisVars, th, ah, rh, qh, acked>>

\* ZREMRANGEBYSCORE live:offers -inf (now
LivePrune(h) ==
  /\ lh[h].pc = "prune"
  /\ score' = [o \in Offer |->
       IF up /\ score[o] # None /\ score[o] < lh[h].at THEN None ELSE score[o]]
  /\ lh' = [lh EXCEPT ![h].pc = "range"]
  /\ UNCHANGED <<now, db, link, seq, terms, price, seen, busyKeys, snap, th, ah, rh, qh, acked>>

\* ZRANGE live:offers now +inf
Listed(at) == IF up THEN {o \in Offer : score[o] # None /\ score[o] >= at} ELSE {}

LiveRange(h) ==
  /\ lh[h].pc = "range"
  /\ LET ids == Listed(lh[h].at)
     IN lh' = [lh EXCEPT ![h] = [pc |-> IF ids = {} THEN "cache" ELSE "prices",
                                 at |-> lh[h].at, ids |-> ids, rows |-> {}, gone |-> acked]]
  /\ UNCHANGED <<now, db, link, redisVars, th, ah, rh, qh, acked>>

PricedRowsNulls(ids) ==   \* faulty: keeps members without a price
  {[offer |-> o, price |-> price[o]] : o \in {i \in ids : up}}

\* HMGET live:prices; a member without a price is left out.
PricedRows(ids) ==
  {[offer |-> o, price |-> price[o]] : o \in {i \in ids : up /\ price[i] # None}}

LivePrices(h) ==
  /\ lh[h].pc = "prices"
  /\ lh' = [lh EXCEPT ![h].pc = "cache", ![h].rows = PricedRows(lh[h].ids)]
  /\ UNCHANGED <<now, db, link, redisVars, th, ah, rh, qh, acked>>

LiveCache(h) ==
  /\ lh[h].pc = "cache"
  /\ snap' = IF up THEN [at |-> lh[h].at, rows |-> lh[h].rows, exp |-> now + SnapshotTtl]
                   ELSE snap
  /\ lh' = [lh EXCEPT ![h] = Idle]
  /\ UNCHANGED <<now, db, link, liveKeys, seq, seen, busyKeys, th, ah, rh, qh, acked>>

LiveStep(h) == LivePrune(h) \/ LiveRange(h) \/ LivePrices(h) \/ LiveCache(h)

-----------------------------------------------------------------------------
(* Time and failures                                                       *)

\* No request that noted its time of receipt stays in flight beyond MaxLatency.
Prompt ==
  /\ \A h \in TermsH : th[h] # Idle => now < th[h].at + MaxLatency
  /\ \A h \in AvailH : ah[h] # Idle => now < ah[h].at + MaxLatency
  /\ \A h \in LiveH : lh[h] # Idle => now < lh[h].at + MaxLatency

Tick ==
  /\ now < MaxTime
  /\ Prompt
  /\ now' = now + 1
  /\ terms' = [o \in Offer |-> IF terms[o] # None /\ terms[o].exp <= now + 1 THEN None ELSE terms[o]]
  /\ busy' = [o \in Offer |-> IF busy[o] # None /\ busy[o] <= now + 1 THEN None ELSE busy[o]]
  /\ snap' = IF snap # None /\ snap.exp <= now + 1 THEN None ELSE snap
  /\ UNCHANGED <<db, link, score, price, seq, seen, availSeq, calls, acked>>

\* The connection fails; Redis may lose every key if it is Redis that restarted.
RedisDown(lose) ==
  /\ up /\ faults < MaxFaults
  /\ up' = FALSE /\ faults' = faults + 1
  /\ IF lose
       THEN /\ seq' = [o \in Offer |-> None] /\ terms' = [o \in Offer |-> None]
            /\ score' = [o \in Offer |-> None] /\ price' = [o \in Offer |-> None]
            /\ seen' = [p \in Provider |-> None]
            /\ availSeq' = [o \in Offer |-> None] /\ busy' = [o \in Offer |-> None]
            /\ snap' = None
       ELSE UNCHANGED redisVars
  /\ UNCHANGED <<now, db, calls, acked>>

\* getClient reconnects, at some call after RETRY_MS.
RedisUp ==
  /\ ~up /\ up' = TRUE
  /\ UNCHANGED <<now, db, faults, redisVars, calls, acked>>

\* The registry process dies and restarts: every request in flight is lost.
Crash ==
  /\ faults < MaxFaults /\ faults' = faults + 1
  /\ th' = [h \in TermsH |-> Idle] /\ ah' = [h \in AvailH |-> Idle]
  /\ rh' = [h \in RevokeH |-> Idle] /\ qh' = [h \in ReadH |-> Idle]
  /\ lh' = [h \in LiveH |-> Idle]
  /\ UNCHANGED <<now, db, up, redisVars, acked>>

Next ==
  \/ \E h \in TermsH : TermsStep(h) \/ \E o \in Offer, m \in TermsMsg : TermsRecv(h, o, m)
  \/ \E h \in AvailH : AvailStep(h) \/ \E o \in Offer, m \in AvailMsg : AvailRecv(h, o, m)
  \/ \E h \in RevokeH : RevokeStep(h) \/ \E o \in Offer, m \in RevokeMsg : RevokeRecv(h, o, m)
  \/ \E h \in ReadH : \/ ReadStep(h)
                      \/ \E f \in {"strict", "normal", "any"}, free \in BOOLEAN : QuerySql(h, f, free)
                      \/ \E o \in Offer : GetSql(h, o)
  \/ \E h \in LiveH : LiveStep(h) \/ LiveMiss(h)
  \/ Tick
  \/ \E lose \in BOOLEAN : RedisDown(lose)
  \/ RedisUp
  \/ Crash

Spec == Init /\ [][Next]_vars

\* The event loop keeps running the handlers it has accepted, a failed connection
\* is retried and the clock advances; no client is obliged to call.
Fairness ==
  /\ \A h \in TermsH : WF_vars(TermsStep(h))
  /\ \A h \in AvailH : WF_vars(AvailStep(h))
  /\ \A h \in RevokeH : WF_vars(RevokeStep(h))
  /\ \A h \in ReadH : WF_vars(ReadStep(h))
  /\ \A h \in LiveH : WF_vars(LiveStep(h))
  /\ WF_vars(Tick) /\ WF_vars(RedisUp)

FairSpec == Spec /\ Fairness

-----------------------------------------------------------------------------
(* Properties.  The first group holds whatever requests race, whatever     *)
(* Redis loses and whenever the registry crashes.                          *)

SignedByOwner(m, o) == m.offer = o /\ m.signer = Owner[o]

\* What a read reports as live is a terms message the offer's own provider signed
\* and whose validUntil is less than a request latency gone (PX counts from the
\* SET, the ttl from receipt), and the offer itself has not expired (offerStatus
\* and the freshness filter of getOffers).
ActiveMeansSigned ==
  \A h \in ReadH : qh[h].pc = "reply" => \A it \in qh[h].items :
    /\ qh[h].freshness # "any" => it.terms # None
    /\ it.terms # None => /\ SignedByOwner(it.terms.m, it.offer)
                        /\ qh[h].at < it.terms.m.validUntil + MaxLatency
    /\ it.status \in {"active", "busy"} => it.terms # None /\ ExpiresAt[it.offer] > qh[h].at

\* Once a revocation has been answered, no later query lists the offer and a
\* lookup says "revoked", even when a racing heartbeat or a lost DEL left the
\* offer's keys in Redis (postRevoke against postTerms and getOffers).
RevokedNeverReturned ==
  \A h \in ReadH : qh[h].pc = "reply" => \A it \in qh[h].items :
    it.offer \in qh[h].gone => qh[h].kind = "get" /\ it.status = "revoked"

\* Every row of a liveness snapshot, cached or being built, carries a price its
\* own provider signed, and stands on owner-signed terms that are at most a cache
\* lifetime and a request latency past validUntil, although score and price are
\* written and read by separate commands (setTerms, liveOffers, getLiveness).
RowBacked(r, t) ==
  /\ \E m \in TermsMsg : SignedByOwner(m, r.offer) /\ m.price = r.price
  /\ \E m \in TermsMsg : SignedByOwner(m, r.offer) /\ t <= m.validUntil + MaxLatency

SnapshotBacked ==
  /\ snap # None => \A r \in snap.rows : RowBacked(r, now - SnapshotTtl)
  /\ \A h \in LiveH : lh[h] # Idle => \A r \in lh[h].rows : RowBacked(r, now)

\* A busy flag clears by itself: it never outlives some owner-signed busy hint by
\* more than a request latency, nor now by more than the 3600 s cap, whatever
\* happens to the provider or the registry (postAvailability, setBusy).
BusyBounded ==
  \A o \in Offer : busy[o] # None =>
    /\ busy[o] <= now + AvailMaxValidity
    /\ \E m \in AvailMsg : /\ SignedByOwner(m, o) /\ ~m.available
                           /\ busy[o] <= m.validUntil + MaxLatency

\* An offer is revoked only after the owner's signed revocation is in the durable
\* log, so a crash never leaves a revocation nobody can prove (postRevoke).
RevokedIsLogged ==
  \A o \in revoked : \E m \in log : SignedByOwner(m, o)

\* The status the registry would report now.
StatusNow(o) ==
  offerStatus(o \in revoked, ExpiresAt[o], Fetch(terms, o) # None,
              Fetch(terms, o) # None /\ Fetch(busy, o) # None, now)

Board == INSTANCE OfferStatus WITH status <- [o \in Offer |-> StatusNow(o)]

\* The reported status follows OfferStatus: whatever is written to Redis after the
\* fact, an expired or revoked offer never looks alive again.
StatusLifecycle == Board!Spec

\* With Redis reachable throughout, an acknowledged revocation leaves no key of
\* the offer behind, unless a heartbeat or hint was past its own revoked_at check
\* when the row was updated (postRevoke, dropOffer).
RevokeCleans ==
  faults = 0 => \A o \in acked \ raced :
    /\ terms[o] = None /\ seq[o] = None /\ score[o] = None /\ price[o] = None
    /\ busy[o] = None /\ availSeq[o] = None

(* The second group is about a provider that sends one request at a time,  *)
(* as the agent does, and a Redis that stays up.                           *)

\* Replay protection: the stored seq of an offer never goes back (postTerms and
\* postAvailability, whose check and store are two separate commands).
SeqNeverRegresses ==
  [][\A o \in Offer :
       /\ seq[o] # None /\ seq'[o] # None => seq[o] <= seq'[o]
       /\ availSeq[o] # None /\ availSeq'[o] # None => availSeq[o] <= availSeq'[o]]_vars

\* Between heartbeats the five Redis structures of a standing offer agree: the
\* terms record is the one with the stored seq, and a member of the live set has
\* a terms record with the very price the snapshot shows (setTerms).
TermsSettled ==
  \A o \in Offer :
    o \notin revoked /\ (\A h \in TermsH : th[h] # Idle => th[h].offer # o) =>
      /\ terms[o] # None => terms[o].m.seq = seq[o]
      /\ score[o] # None /\ score[o] > now => terms[o] # None /\ terms[o].m.price = price[o]

\* Between hints, a busy flag is the word of the newest accepted hint, so a job
\* reported finished frees its offer (postAvailability).
NewestAvailWins ==
  \A o \in Offer :
    o \notin revoked /\ (\A h \in AvailH : ah[h] # Idle => ah[h].offer # o) =>
      (busy[o] # None =>
         \E m \in AvailMsg : m.offer = o /\ m.seq = availSeq[o] /\ ~m.available)

\* A provider that falls silent disappears by itself: once its signed messages ran
\* out, no terms, no busy flag and no snapshot row remains (TTLs and pruning; there
\* is no sweeper).
GoesQuiet ==
  <>[](/\ \A o \in Offer : terms[o] = None /\ busy[o] = None
       /\ snap = None \/ snap.rows = {})

(* What the documentation says and the code does not keep.                 *)

\* docs/registry-spec.md 8.5: a revoked offer has no entry in the snapshot.
SnapshotOmitsRevoked ==
  \A h \in LiveH : lh[h].pc = "cache" => \A r \in lh[h].rows : r.offer \notin lh[h].gone
=============================================================================
