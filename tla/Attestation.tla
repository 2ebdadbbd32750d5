----------------------------- MODULE Attestation -----------------------------
(***************************************************************************)
(* The benchmark of handlers/attest.ts: a challenge is opened              *)
(* (postChallenge), its lanes are started (postLaneStart) and submitted    *)
(* (postLaneSubmit) one after the other, and the last one closes it with a *)
(* service-signed capability attestation.                                  *)
(*                                                                         *)
(* The state of a challenge is one JSON blob in Redis, bench:{challengeId}:*)
(* a handler loads it, decides on its own copy and writes the whole blob   *)
(* back.  A Redis command and the code that runs when its reply is here    *)
(* are one step; between the steps of one call any other call may run.     *)
(*                                                                         *)
(* A lane is an index into LANE_ORDER.  A proof is represented by the      *)
(* nonce it was computed from, or None if it is no proof at all.  Work is  *)
(* the time the chains of a lane take on the provider's machine: a proof   *)
(* exists Work[l] after its nonce was drawn at the earliest, since s_0     *)
(* depends on the nonce (bench.ts).                                        *)
(***************************************************************************)
EXTENDS Integers, FiniteSets

CONSTANTS
  Challenge,         \* bound: challenge ids that may be drawn
  Nonce,             \* bound: lane nonces that may be drawn
  Provider,          \* the registered providers
  LaneCount,         \* the length of LANE_ORDER
  Work,              \* [Lane -> Nat]
  H,                 \* request slots
  ChallengeTtl, MaxLaneTime,    \* config.challengeTtlMs, config.maxLaneMs
  None,              \* null
  MaxTime,           \* bound: the clock stops here
  MaxLatency,        \* bound: the longest a request stays in flight
  MaxFaults          \* bound: Redis outages and registry crashes

Lane == 1..LaneCount

ASSUME LaneAssumption == LaneCount \in Nat \ {0} /\ Work \in [Lane -> Nat]
ASSUME ConfigAssumption == ChallengeTtl \in Nat \ {0} /\ MaxLaneTime \in Nat
ASSUME BoundAssumption == MaxTime \in Nat /\ MaxLatency \in Nat /\ MaxFaults \in Nat
LaneState == [status: {"pending", "started", "done"}, issuedAt: Nat,
              nonce: Nonce \cup {None}, elapsed: Int]
BenchState == [provider: Provider, deadline: Nat, lanes: [Lane -> LaneState]]
Entry == [s: BenchState, exp: Nat]
Proof == [signer: Provider, nonce: Nonce \cup {None}]
Mint == [c: Challenge, l: Lane, at: Nat]
Row == [challenge: Challenge, provider: Provider, elapsed: [Lane -> Nat], measuredAt: Nat]

ASSUME NoneAssumption == None \notin Nonce /\ None \notin Nat /\ None \notin Mint

VARIABLES
  now,        \* Date.now(), also Redis' clock
  up,         \* the Redis connection works
  faults,     \* outages and crashes so far (bounded by MaxFaults)
  bench,      \* Redis bench:{challengeId}
  log,        \* Postgres: attest/cpu/v1 payloads in payload_log
  attested,   \* Postgres: the attestations table
  call,       \* the requests in flight
  opened,     \* history: when a challenge id was drawn
  minted,     \* history: for which challenge and lane, and when, a nonce was drawn
  revealed,   \* history: nonces that were sent to the client
  failed      \* history: challenges answered BENCH_FAILED

env == <<now, up, faults>>
db == <<log, attested>>
history == <<opened, minted, revealed, failed>>
vars == <<env, bench, db, call, history>>

Idle == [pc |-> "idle"]

OpenCall == [pc: {"open"}, c: Challenge, at: Nat, s: BenchState]
LoadCall == [pc: {"loadStart"}, c: Challenge, l: Lane]
StartCall == [pc: {"start"}, c: Challenge, l: Lane, at: Nat, s: BenchState]
SubmitCall == [pc: {"loadSubmit", "drop"}, c: Challenge, l: Lane, at: Nat, m: Proof]
SaveCall == [pc: {"save", "log", "insert", "close"}, c: Challenge, at: Nat, s: BenchState]

\* The state of Redis, of the tables and of every request in flight.
TypeOK ==
  /\ now \in Nat /\ up \in BOOLEAN /\ faults \in 0..MaxFaults
  /\ bench \in [Challenge -> Entry \cup {None}]
  /\ log \in SUBSET Row /\ attested \in SUBSET Row
  /\ call \in [H -> OpenCall \cup LoadCall \cup StartCall \cup SubmitCall \cup SaveCall \cup {Idle}]
  /\ opened \in [Challenge -> Nat \cup {None}]
  /\ minted \in [Nonce -> Mint \cup {None}]
  /\ revealed \in SUBSET Nonce /\ failed \in SUBSET Challenge

Init ==
  /\ now = 0 /\ up = TRUE /\ faults = 0
  /\ bench = [c \in Challenge |-> None]
  /\ log = {} /\ attested = {}
  /\ call = [h \in H |-> Idle]
  /\ opened = [c \in Challenge |-> None] /\ minted = [n \in Nonce |-> None]
  /\ revealed = {} /\ failed = {}

End(h) == call' = [call EXCEPT ![h] = Idle]

-----------------------------------------------------------------------------
(* redis.ts: bench:{challengeId}.  With no connection GET is null and SET  *)
(* and DEL do nothing.                                                     *)

Greater(a, b) == IF a >= b THEN a ELSE b

getBench(c) == IF up /\ bench[c] # None THEN bench[c].s ELSE None

\* SET bench:{c} PX max(1, px)
setBench(c, s, px) ==
  bench' = IF up THEN [bench EXCEPT ![c] = [s |-> s, exp |-> now + Greater(1, px)]] ELSE bench

dropBench(c) == bench' = IF up THEN [bench EXCEPT ![c] = None] ELSE bench

-----------------------------------------------------------------------------
(* POST /v1/attest/challenge                                               *)

Pending == [status |-> "pending", issuedAt |-> 0, nonce |-> None, elapsed |-> 0]

NewState(p) ==
  [provider |-> p, deadline |-> now + ChallengeTtl, lanes |-> [l \in Lane |-> Pending]]

\* Every check passed and the limiter let the request through (a refused request
\* changes nothing here): a fresh id is drawn and the state is sent to Redis.
ChallengeOpen(h, c, p) ==
  /\ call[h] = Idle /\ opened[c] = None
  /\ opened' = [opened EXCEPT ![c] = now]
  /\ call' = [call EXCEPT ![h] = [pc |-> "open", c |-> c, at |-> now, s |-> NewState(p)]]
  /\ UNCHANGED <<env, bench, db, minted, revealed, failed>>

\* 201 when it was stored; INTERNAL, and an id nobody knows, when Redis is away.
ChallengeSet(h) ==
  /\ call[h].pc = "open"
  /\ setBench(call[h].c, call[h].s, ChallengeTtl)
  /\ End(h)
  /\ UNCHANGED <<env, db, history>>

\* A client can name a challenge, stored or not, once its request was answered: ids
\* are random.
Named(c) == opened[c] # None /\ \A h \in H : call[h].pc = "open" => call[h].c # c

-----------------------------------------------------------------------------
(* POST /v1/attest/:challengeId/lane/:laneId/start                         *)

\* The bound on nonces: one is left for every start in flight.
NonceLeft ==
  Cardinality({h \in H : call[h].pc = "loadStart"}) < Cardinality({n \in Nonce : minted[n] = None})

StartRecv(h, c, l) ==
  /\ call[h] = Idle /\ Named(c) /\ NonceLeft
  /\ call' = [call EXCEPT ![h] = [pc |-> "loadStart", c |-> c, l |-> l]]
  /\ UNCHANGED <<env, bench, db, history>>

PrevStartedSuffices(s, l) ==   \* faulty: does not wait for the proof of the lane before
  \A prev \in Lane : prev < l => s.lanes[prev].status # "pending"

\* Lanes run in order.
PrevDone(s, l) == \A prev \in Lane : prev < l => s.lanes[prev].status = "done"

Startable(s, l) ==
  /\ s # None
  /\ now <= s.deadline
  /\ s.lanes[l].status = "pending"
  /\ PrevDone(s, l)

\* The GET and the checks; a refused start ends here.
StartRefused(h) ==
  /\ call[h].pc = "loadStart"
  /\ ~Startable(getBench(call[h].c), call[h].l)
  /\ End(h)
  /\ UNCHANGED <<env, bench, db, history>>

StartLaneUnstamped(s, l, n) ==   \* faulty: laneIssuedAt is forgotten
  [s EXCEPT !.lanes[l] = [status |-> "started", issuedAt |-> None, nonce |-> n, elapsed |-> 0]]

StartLane(s, l, n) ==
  [s EXCEPT !.lanes[l] = [status |-> "started", issuedAt |-> now, nonce |-> n, elapsed |-> 0]]

StartDraw(h, n) ==
  /\ call[h].pc = "loadStart"
  /\ minted[n] = None
  /\ LET s == getBench(call[h].c)
         l == call[h].l
     IN /\ Startable(s, l)
        /\ call' = [call EXCEPT ![h] = [pc |-> "start", c |-> call[h].c, l |-> l, at |-> now,
                                        s |-> StartLane(s, l, n)]]
        /\ minted' = [minted EXCEPT ![n] = [c |-> call[h].c, l |-> l, at |-> now]]
  /\ UNCHANGED <<env, bench, db, opened, revealed, failed>>

\* The nonce is sent to the client whether or not the SET went through.
StartSet(h) ==
  /\ call[h].pc = "start"
  /\ setBench(call[h].c, call[h].s, call[h].s.deadline - call[h].at)
  /\ revealed' = revealed \cup {call[h].s.lanes[call[h].l].nonce}
  /\ End(h)
  /\ UNCHANGED <<env, db, opened, minted, failed>>

-----------------------------------------------------------------------------
(* POST /v1/attest/:challengeId/lane/:laneId                               *)

\* What a client can have computed by now: chains start at the nonce and are
\* sequential.
Computed(n) == n = None \/ (n \in revealed /\ now >= minted[n].at + Work[minted[n].l])

\* The body is read and its signature checked: receivedAt.
SubmitRecv(h, c, l, m) ==
  /\ call[h] = Idle /\ Named(c) /\ Computed(m.nonce)
  /\ call' = [call EXCEPT ![h] = [pc |-> "loadSubmit", c |-> c, l |-> l, at |-> now, m |-> m]]
  /\ UNCHANGED <<env, bench, db, history>>

\* The refusals that leave the challenge alone.
Admissible(s, r) ==
  /\ s # None
  /\ r.m.signer = s.provider
  /\ r.at <= s.deadline
  /\ s.lanes[r.l].status = "started"

Elapsed(s, r) == r.at - s.lanes[r.l].issuedAt

NonceOfLane(s, r) ==   \* faulty: any nonce ever drawn for the lane will do
  /\ r.m.nonce # None
  /\ minted[r.m.nonce].c = r.c /\ minted[r.m.nonce].l = r.l

\* verifyLane accepts just the chains computed from the lane's own nonce.
Verifies(s, r) == r.m.nonce # None /\ r.m.nonce = s.lanes[r.l].nonce

Passed(s, r) == Elapsed(s, r) <= MaxLaneTime /\ Verifies(s, r)

SubmitRefused(h) ==
  /\ call[h].pc = "loadSubmit"
  /\ ~Admissible(getBench(call[h].c), call[h])
  /\ End(h)
  /\ UNCHANGED <<env, bench, db, history>>

SubmitFailed(h) ==
  /\ call[h].pc = "loadSubmit"
  /\ LET s == getBench(call[h].c) IN Admissible(s, call[h]) /\ ~Passed(s, call[h])
  /\ call' = [call EXCEPT ![h].pc = "drop"]
  /\ UNCHANGED <<env, bench, db, history>>

SubmitDropNot(h) ==   \* faulty: answers BENCH_FAILED and keeps the state
  /\ call[h].pc = "drop"
  /\ failed' = failed \cup {call[h].c}
  /\ End(h)
  /\ UNCHANGED <<env, bench, db, opened, minted, revealed>>

\* DEL, then BENCH_FAILED
SubmitDrop(h) ==
  /\ call[h].pc = "drop"
  /\ dropBench(call[h].c)
  /\ failed' = failed \cup {call[h].c}
  /\ End(h)
  /\ UNCHANGED <<env, db, opened, minted, revealed>>

LaneDone(s, r) ==
  [s EXCEPT !.lanes[r.l].status = "done", !.lanes[r.l].elapsed = Elapsed(s, r)]

\* The last lane goes on to the attestation, any other is saved.
SubmitPassed(h) ==
  /\ call[h].pc = "loadSubmit"
  /\ LET s == getBench(call[h].c)
         done == LaneDone(s, call[h])
         all == \A l \in Lane : done.lanes[l].status = "done"
     IN /\ Admissible(s, call[h]) /\ Passed(s, call[h])
        /\ call' = [call EXCEPT ![h] = [pc |-> IF all THEN "log" ELSE "save",
                                        c |-> call[h].c, at |-> call[h].at, s |-> done]]
  /\ UNCHANGED <<env, bench, db, history>>

FullTtl(r) == ChallengeTtl   \* faulty: every lane restarts the clock of the challenge

SaveTtl(r) == r.s.deadline - r.at

SubmitSave(h) ==
  /\ call[h].pc = "save"
  /\ setBench(call[h].c, call[h].s, SaveTtl(call[h]))
  /\ End(h)
  /\ UNCHANGED <<env, db, history>>

\* Elapsed times are clamped to 1 ms before they become scores.
Attested(r) ==
  [challenge |-> r.c, provider |-> r.s.provider, measuredAt |-> r.at,
   elapsed |-> [l \in Lane |-> Greater(1, r.s.lanes[l].elapsed)]]

SubmitLogLast(h) ==   \* faulty: the durable log is written after the row
  /\ call[h].pc = "log"
  /\ attested' = attested \cup {Attested(call[h])}
  /\ call' = [call EXCEPT ![h].pc = "insert"]
  /\ UNCHANGED <<env, bench, log, history>>

\* logPayload
SubmitLog(h) ==
  /\ call[h].pc = "log"
  /\ log' = log \cup {Attested(call[h])}
  /\ call' = [call EXCEPT ![h].pc = "insert"]
  /\ UNCHANGED <<env, bench, attested, history>>

\* insert into attestations ... on conflict do nothing
SubmitInsert(h) ==
  /\ call[h].pc = "insert"
  /\ attested' = attested \cup {Attested(call[h])}
  /\ call' = [call EXCEPT ![h].pc = "close"]
  /\ UNCHANGED <<env, bench, log, history>>

SubmitCloseKeeps(h) ==   \* faulty: the challenge stays open
  /\ call[h].pc = "close"
  /\ End(h)
  /\ UNCHANGED <<env, bench, db, history>>

SubmitClose(h) ==
  /\ call[h].pc = "close"
  /\ dropBench(call[h].c)
  /\ End(h)
  /\ UNCHANGED <<env, db, history>>

-----------------------------------------------------------------------------
(* Time and failures                                                       *)

Tick ==
  /\ now < MaxTime
  /\ \A h \in H : call[h].pc \notin {"idle", "loadStart"} => now < call[h].at + MaxLatency
  /\ now' = now + 1
  /\ bench' = [c \in Challenge |->
       IF bench[c] # None /\ bench[c].exp <= now + 1 THEN None ELSE bench[c]]
  /\ UNCHANGED <<up, faults, db, call, history>>

\* The connection fails; every key is gone if it is Redis that restarted.
RedisDown(lose) ==
  /\ up /\ faults < MaxFaults
  /\ up' = FALSE /\ faults' = faults + 1
  /\ bench' = IF lose THEN [c \in Challenge |-> None] ELSE bench
  /\ UNCHANGED <<now, db, call, history>>

RedisUp ==
  /\ ~up /\ up' = TRUE
  /\ UNCHANGED <<now, faults, bench, db, call, history>>

\* The registry process dies and restarts: every request in flight is lost.
Crash ==
  /\ faults < MaxFaults /\ faults' = faults + 1
  /\ call' = [h \in H |-> Idle]
  /\ UNCHANGED <<now, up, bench, db, history>>

CallStep(h) ==
  \/ ChallengeSet(h)
  \/ StartRefused(h) \/ (\E n \in Nonce : StartDraw(h, n)) \/ StartSet(h)
  \/ SubmitRefused(h) \/ SubmitFailed(h) \/ SubmitDrop(h)
  \/ SubmitPassed(h) \/ SubmitSave(h)
  \/ SubmitLog(h) \/ SubmitInsert(h) \/ SubmitClose(h)

ClientStep(h) ==
  \/ \E c \in Challenge, p \in Provider : ChallengeOpen(h, c, p)
  \/ \E c \in Challenge, l \in Lane : StartRecv(h, c, l)
  \/ \E c \in Challenge, l \in Lane, m \in Proof : SubmitRecv(h, c, l, m)

Next ==
  \/ \E h \in H : CallStep(h) \/ ClientStep(h)
  \/ Tick
  \/ \E lose \in BOOLEAN : RedisDown(lose)
  \/ RedisUp
  \/ Crash

Spec == Init /\ [][Next]_vars

-----------------------------------------------------------------------------
(* Properties.  The first group holds whatever requests race, whatever     *)
(* Redis loses and whenever the registry crashes.                          *)

\* The states of challenge c that exist anywhere: in Redis and in the copies the
\* requests in flight work on.
StatesOf(c) ==
  {bench[x].s : x \in {x \in {c} : bench[x] # None}}
    \cup {call[h].s : h \in {h \in H : /\ call[h].pc \in {"open", "start", "save", "log", "insert", "close"}
                                       /\ call[h].c = c}}

\* Lanes run one at a time and in order, so every lane has the machine to itself:
\* what is done is a prefix of LANE_ORDER, nothing beyond the first open lane is
\* started, and the time credited to a lane ends before the next one's nonce was
\* drawn (postLaneStart, postLaneSubmit), although copies overwrite each other.
InOrder(s) ==
  \A k, l \in Lane : k < l /\ s.lanes[l].status # "pending" =>
    /\ s.lanes[k].status = "done"
    /\ s.lanes[k].elapsed >= 0
    /\ s.lanes[k].issuedAt + s.lanes[k].elapsed <= s.lanes[l].issuedAt

LanesInOrder == \A c \in Challenge : \A s \in StatesOf(c) : InOrder(s)

\* Capability is measured: no interleaving of starts, submissions, retries and
\* failures credits a lane with less time than its chains take, or closes a
\* challenge after its deadline, so no attested score is higher than the machine
\* (laneIssuedAt, laneNonce and laneReceivedAt).
ScoresEarned ==
  \A a \in attested :
    /\ \A l \in Lane : a.elapsed[l] >= Work[l]
    /\ a.measuredAt <= opened[a.challenge] + ChallengeTtl

\* An attestation row always has its signed payload in the durable log, from which
\* getAttestation serves it, also after a crash between the two inserts.
AttestedIsLogged == attested \subseteq log

\* The state of a challenge goes away by itself: no write of a slow request keeps
\* it beyond the deadline by more than a request latency (setBench's PX).
BenchBounded ==
  \A c \in Challenge : bench[c] # None =>
    bench[c].exp <= bench[c].s.deadline + MaxLatency + 1

(* The second group is about a client that sends one request at a time, as *)
(* the agent does, and a Redis that stays up.                              *)

\* A challenge yields at most one attestation (dropBench at the close).
OneAttestation ==
  faults = 0 => \A a, b \in attested : a.challenge = b.challenge => a = b

\* docs/registry-spec.md 5.3: a failed lane aborts the whole challenge.
FailedIsFinal ==
  faults = 0 => \A c \in failed : bench[c] = None
=============================================================================
