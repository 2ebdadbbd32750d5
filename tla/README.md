# Atlas compute market: formal models

TLA+ models of the compute market registry (`src/`, TypeScript on Bun with
Postgres and Redis), of the provider agent with its file relay and VM driver
(`agent/`, Rust and Python), and of the development market that runs inside the
registry. The modules are checked with TLC on small instances; all safety properties
among these are also proved with TLAPS, for every value of the constants.
`PROJECT.json` lists the runs, the mutants that show each property can fail, the
lines every definition models, the findings, the hazards and the theorems.

    tlc -workers 2 -config offers_races.cfg MCOfferRaces
    tlapm LiveOffersProofs.tla

## 1. The system

| Component | State | Operations | Interacts with |
|---|---|---|---|
| Offer liveness (`handlers/offers.ts`) | Redis `terms:`, `seq:`, `live:offers`, `live:prices`, `busy:`, `availseq:`, `seen:`; Postgres `offers.revoked_at`, `payload_log` | `postTerms` (heartbeat), `postAvailability` (busy hint), `postRevoke` | agent (client), Redis, Postgres |
| Reads (`handlers/query.ts`, `getOffer`) | cached blob `liveness:snapshot` | `getOffers`, `getOffer`, `getLiveness` | the keys above |
| Benchmark (`handlers/attest.ts`) | one JSON blob per challenge, `bench:{id}`; tables `attestations`, `payload_log` | `postChallenge`, `postLaneStart`, `postLaneSubmit`, `getAttestation` | agent, `bench.ts`, Redis, Postgres |
| Proof of work (`bench.ts`, `agent/src/bench.rs`) | none | chains, Merkle commitment, Fiat-Shamir sampling, `verifyLane` | benchmark |
| Registration (`handlers/providers.ts`, `postOffer`) | tables `providers`, `offers`, `payload_log` | `postProvider`, `postOffer` | agent, benchmark |
| Redis wrapper (`redis.ts`) | the connection, back-off after a failure, rate-limit windows | `send`, `rateLimit` and one method per key | every handler |
| Statistics (`handlers/ops.ts`, `stats-history.ts`) | samples in Postgres, cached totals | periodic sampling, aggregation | tables, `live:offers` |
| Simulated market (`dev-requestors.ts`, `dev-seed.ts`) | in-memory balances, `dev_sim_jobs` ledger, timers | hire, settle, heartbeat of seeded providers | busy flags, terms |
| Provider agent (`agent/src/main.rs`, `api.rs`) | key, offer id, `seq` | register, benchmark, post offer, heartbeat | registry, directly or by the relay |
| File relay (`file_transport.rs`, `manager.py`, `vm-driver/src/main.rs`) | `req-*`/`resp-*` files | write, poll, forward, answer, give up | agent in a VM, registry |
| Provisioning (`vm-driver/src/provision.rs`) | cache directory | download, verify, extract | VM runtime |
| HTTP, signatures, validation | none | envelope parsing, JCS, secp256k1 | every handler |
| Web console (`web/`) | none of the market's | polling | HTTP API |

The registry is a single event loop. A handler runs without interruption from
one `await` to the next, and at every `await` any other request may run. What
makes it hard:

* **check, then act.** Sequence numbers, revocation, the offer cap and the
  freshness of a profile are read by one command and acted on by a later one.
* **read, modify, write of a blob.** The benchmark state is loaded, changed in
  memory and written back whole, with no version.
* **two stores.** Postgres says whether an offer exists and is revoked, Redis
  whether it is live. No transaction spans the two, and `setTerms`,
  `dropOffer` and `liveOffers` are three commands each.
* **failures.** With Redis away, `send` returns null and most callers go on. A
  crash loses every request in flight and nothing is resumed.
* **time.** Terms, busy flags, snapshots and challenges disappear by TTL only;
  there is no sweeper. TTLs are computed from the time a request was received
  and start when the command is executed.

What makes each component correct: an offer shown as live is signed by its owner
and current, and never looks alive again once expired or revoked; what Redis
holds agrees with what was accepted last; everything that a silent provider
left goes away; a capability score cannot be better than the work done, however
requests race; an offer rests on its own provider's attestation and is never
replaced, and the cap on offers is kept as nearly as its code allows; durable logs
precede what they justify. On the provider's side: an answer belongs to the call
that waits for it, a repeated call has no second effect, nobody waits for ever, the
challenge quota is not burnt by restarts, what the cache holds may be trusted, and
prover and verifier agree. For the rest: the limiter is exact in a window, a walk over
pages neither skips nor repeats more than the market moved, published numbers fit
together, and the simulated money is conserved and durable. The list of hazards in
`PROJECT.json` names the line where each of these bites.

## 2. Modules

| Module | Models | Kind |
|---|---|---|
| `OfferStatus` | what the registry promises about an offer's status | abstract specification |
| `LiveOffers` | heartbeats, hints, revocation and reads over Redis and Postgres | component; implements `OfferStatus` |
| `MCLiveOffers`, `MCOfferRaces` | instances of it | model-checking modules |
| `LiveOffersProofs` | theorems | proofs |
| `Attestation` | the benchmark challenge up to the attestation row | component |
| `MCAttestation`, `MCAttestRaces` | instances of it | model-checking modules |
| `AttestationProofs` | theorems | proofs |
| `Registration` | provider profiles and the posting of offers over Postgres | component |
| `MCRegistration` | instances of it | model-checking module |
| `RegistrationProofs` | theorems | proofs |
| `CallChannel` | what a call through files promises: at least once, final, nothing unasked | abstract specification |
| `Relay` | request and answer files between agent and host, both hosts, the wait for the agent's end | component; implements `CallChannel` |
| `RelayProofs` | theorems | proofs |
| `Agent` | the agent's program over the relay, with the registry as its calls meet it | composition; extends `Relay` |
| `Provision` | download, check, rename and extraction in a cache that drivers share | component |
| `Bench` | hash chains, Merkle trees, openings and the verifier, over a symbolic hash | algorithm as a small state machine |
| `MCProvider` | `Agent`, `Provision` and `Bench` in one run | model-checking module |
| `ProviderProofs` | theorems about `Agent` and `Provision` | proofs |
| `BenchProofs` | theorems about `Bench` | proofs |
| `DevSeed` | the seeder and the heartbeats of the dummy market | component |
| `SimMarket` | simulated requestors, jobs, ledger and reload | composition; extends `DevSeed` |
| `Stats` | market aggregates, cached statistics, history sampler | component |
| `RateLimit` | the fixed-window limiter over `INCR` and `PEXPIRE` | component |
| `Paging` | order, cursor and limits of `getOffers` as a client walks the pages | component |
| `MCMarket` | `SimMarket`, `Stats`, `RateLimit` and `Paging` in one run | model-checking module |
| `MarketProofs` | theorems about `DevSeed`, `SimMarket`, `Stats`, `RateLimit` and `Paging` | proofs |
| `SumTheorems` | induction, sums and extremes of finite sets | lemmas |

### How state and actions correspond to the code

A variable is a Redis key space, a table column or the set of requests in
flight. A request in flight is a record whose `pc` names the `await` it stands
at and whose other fields are the handler's local variables that are still
needed (`at` is `receivedAt`/`now`, `s` the handler's own copy of the blob). One
action is one Redis command or SQL statement together with the code that runs
when its reply is there. Arrival of a request is an action of its own
(`TermsRecv`, `SubmitRecv`, ...) because the clock is read there. Handlers of
one kind are the members of a constant set, so its size bounds how many are in
flight.

* **Clock.** `Tick` advances `now` by one and drops the keys whose PX ran out.
  Registry, Redis and Postgres share the clock. `Prompt` (and the guard of `Tick`
  in `Attestation`) bounds how long a request that noted its time may stay in
  flight by `MaxLatency`; several properties are stated up to that latency,
  which is exactly the slack the code leaves.
* **Redis.** `RedisDown(lose)` breaks the connection, with the data kept or lost;
  until `RedisUp` a read is null and a write has no effect, as `send` does.
  `TermsSetReplyLost` is a command that took effect without its reply, at the one
  place where the code looks at the result of a write and stops.
* **Crash** forgets all requests in flight and keeps both stores. In `Registration`,
  whose handlers have several refusals and no state outside Postgres, `ProfileEnds` and
  `OfferEnds` stand for every way a request stops early: a refusal, the 200 for an
  offer that exists, a statement that throws, a crash. None of them writes anything.
* **Between the components.** `Registration` creates the rows `LiveOffers` starts from
  (its offers exist from the start) and has the close of a benchmark (`Attest`) and the
  update of a revocation (`Revoke`) as single steps; `Attestation` and `LiveOffers` have
  these handlers in full.
* **Clients** may send any message of the given sets at any time, again and in
  any order, so replays, duplicates, delays and messages signed by another
  provider are all included. Restarted agents, repeated files and lost answers are one
  way in which such clients come about; `Agent` has them in full.
* The terms and the busy lookup of a read are issued together (`Promise.all`) and
  are one step, with the clock reading just before them.

The other modules follow the same rules, with these particulars:

* **Relay.** A file is a record in a set; it appears and disappears atomically, as the
  rename makes it. `Forward` is the HTTP call, which may execute the request and
  lose the answer; `Hang` is vm-driver's call without a deadline. `HostCrash` kills a VM
  with its driver but leaves a container running, `WriteFails` ends the loop of
  `manager.py` (`zombie`) and only restarts that of vm-driver. The lookup of the exit
  code and the arming of the waiter are one step because vm-driver's runtime is
  single-threaded (`current_thread`) and there is no `await` between them.
* **Agent** adds to each step of `Relay` what the agent's program makes of it: `Proceed`
  is what `run` does with an answer, `RunBenchmark` the same for `run_benchmark`, `GiveUp`
  what a transport failure does. `Serve` is the registry in one step per call: that a
  handler is several steps is the subject of the registry's own modules. An offer names its
  attestation, which may be one that a later benchmark has superseded. Time is counted
  in days, the scale of the quota and of the lives of attestations and offers.
* **Provision** keeps inodes apart from names, since two drivers may hold one `.part` open
  while a third name is renamed over it.
* **Bench.** A chain state is its start and the number of hashes since; a tree node is the
  term it hashes, so two nodes are equal only if they were hashed from the same. What
  Fiat-Shamir draws is arbitrary but equal on both sides.
* **DevSeed, SimMarket.** Each row the seeder writes is a step, together with the select
  before it and its entry in `payload_log`; the heartbeats write Redis directly, past
  `postTerms`. A crash takes seeder, requestors and in-memory books at once, as they live
  in one process. The inserts it had sent are `orphans` from then on: Postgres may still
  apply each of them at any later time (`OrphanLands`), between two selects of the next
  load too, or never. A restart may have another set of personas.
* **Stats** reads in five steps while `Join`, `PostOffer`, `EndOffer`, `Quote` and `Flag`
  move the market in any order. Prices are small numbers and the median is kept doubled.
  `History` has the window and the buckets of a range, and of the columns those that
  relate to each other; the prices of a bucket are means of its rows like them, but each
  over the rows that have one, and nothing is claimed of them.
* **RateLimit** is one scope and key. In the other registry modules the limiter is a
  refusal that may happen to any request.
* **Paging** counts limits and offsets in halves, because `limit` is any number. `stored`
  are the offers the select finds, `Present` those among them that pass freshness, price
  and availability. The select stops at `CandidatesMax` rows of `stored`, in no order, and
  the filter works on what it returned. A page is one instant: a change falls between two
  pages, not between the select and the terms of one.

### What is abstracted

Well-formedness of payloads (unit, price format, capacity, field types) is left
out: the message sets hold well-formed payloads and `signer` is what the
signature check yields. The rate limiter is a refusal that may happen to any
request. In `LiveOffers` the filters on score and price, sorting, cursor and page
size of `getOffers` are left out, so a reply is the set of all matches; `Paging` has
the cut of the select, the order and the pages, with the stored and the matching offers
as its input. The 7-day expiry of
`seen:` is beyond the horizon. In `Attestation` a proof is the nonce it was
computed from, `verifyLane` accepts exactly the proofs for the lane's own nonce
(`Bench` looks inside it; the soundness of sampling is not claimed), `Work[l]` is the least time the
provider's machine needs for lane `l`, and a score is kept as the elapsed time it
is computed from. Challenge ids and nonces are drawn from finite sets without
repetition, as 32 random bytes are.

Definitions marked `faulty` are not part of the specification. They are wrong
versions of the operator that follows them and serve as mutants: with the right
operator replaced by the wrong one, TLC refutes the property named in
`PROJECT.json`.

## 3. Runs

| Run | Instance | Shows |
|---|---|---|
| `offers_races` | 2 heartbeats and 1 snapshot rebuild at once, or 1 heartbeat, 1 revocation and 1 read; 3 messages (one signed by a stranger), 1 fault | `TypeOK`; `SnapshotBacked`: each row of a snapshot, cached or half-built, stands on terms its owner signed; `ActiveMeansSigned`, `RevokedNeverReturned`, `RevokedIsLogged` |
| `offers_serial` | 1 heartbeat, 1 hint, 1 revocation, no faults | `SeqNeverRegresses`, `TermsSettled`, `NewestAvailWins`, `BusyBounded`, `RevokeCleans`, and the refinement `StatusLifecycle` of `OfferStatus` |
| `offers_quiet` | 1 heartbeat, 1 hint, 1 snapshot, 1 fault, fairness | `GoesQuiet`: what a silent provider left disappears |
| `attest_races` | 2 requests at once with 1 fault, or 1 at a time; 2 lanes, 3 nonces, 2 providers | `TypeOK`, `LanesInOrder`, `ScoresEarned`, `AttestedIsLogged`, `BenchBounded`; for the client that takes turns `OneAttestationInTurn`, `FailedIsFinalInTurn` |
| `reg_races` | 2 offer posts and 1 profile update at once, 4 offers of 2 providers, cap 1 | `TypeOK`, `CapSlack`, `OfferBacked`, `OffersStand`, `ProfileNeverRegresses` |
| `relay` | 2 runs of 3 calls under either host, 2 faults, fairness | `AnswersAreOwn`: the answer taken was made for the call that waits; the refinement `ChannelSpec`; `CallsReturn`; `ExitSeen` |
| `provider` | agent: 2 runs of 7 calls, 1 fault, 2 days; provisioning: 2 drivers, 2 mishaps; proof of work: up to 5 checkpoints, 2 workers, 1 wrong checkpoint | `AtMostOneEffect`, `ChallengesNotWasted`; `CacheTrusted`; `VerdictRight` |
| `market` | 3 dummies, 2 personas, 1 real offer, 2 jobs, 1 crash; statistics of 2 offers in a moving market; 2 limited requests; walks over 4 offers | `OneDummyOffer`, `SeqFallsOnlyWhenOutrun`; `BooksBalance`, `LedgerBacked`, `OnlyLapseAlarms`; `AggregatesCoherent`; `LimitExact`; `WalkSound` |
| `offers_seq_race` | 2 heartbeats at once | violates `SeqNeverRegresses` |
| `offers_revoke_race` | 1 heartbeat, 1 revocation, 1 snapshot | violates `SnapshotOmitsRevoked` |
| `attest_abort_race` | 2 requests at once | violates `FailedIsFinal` |
| `reg_profile_race` | 2 profile updates at once | violates `ProfileNeverRegresses` |

**Runs made of parts.** Components that share no state are checked in one run: `part`
(in `MCProvider`, `MCMarket`) says which component a behaviour is about, and the
others rest in an initial state. Likewise `slots` in `MCOfferRaces` says which handlers
are in use, and `inTurn` in `MCAttestRaces` whether the client waits for its answers. The
union of the behaviours is what is checked, never the product. `LeftToSeed` in `MCMarket`
keeps three things of the seed (a heartbeat that does not reach Redis, a crash while
seeding, a second dummy that beats) out of the behaviours about the requestors; the
behaviours about the seed (`"seed"`, to time 3) have them. The requestors have two parts:
`"sim"` has two personas, two jobs and the ledger, to time 2, without real offers, which
nobody hires; `"lapse"` has one persona that searches and hires but does not settle, to
time 4.

**Bounds.** Every bound is a constant named `Max...` and a guard named for it, or the size
of a set of slots, challenges, nonces or messages. Offers do not share a
key and no handler but the snapshot touches two of them, so one offer shows what
can happen to each. Two slots show every race between two requests of a kind;
the races we know need two. In `offers_*` a heartbeat's `validUntil` falls before,
at and after the offer's `expires_at` (3) and the freshness window (2), and the
clock runs past all of them; a latency of 1 lets a write land after the instant
its message ran out. In `attest_*` three nonces allow a lane to be started twice,
`MaxLaneTime` and the deadline are both exceeded in some behaviours, and lane 2
takes longer than lane 1, so that a proof timed against the wrong nonce shows.
In `reg_races` a
cap of 1 with three offers of one provider lets the cap be reached, exceeded by a race
and exceeded by more if the check were wrong, and equal posts meet a revocation in
between. One fault is enough to separate any two commands. In `relay` two runs let files of the
first meet the second, and two faults let a failure follow a timeout. In `provider` seven
calls are a whole start (state, profile, challenge, start, submit, offer, heartbeat), a
quota and an offer cap of 1 are both reached, and an attestation lives long enough to be
reused by the second run and short enough to lapse; five checkpoints give trees with odd
widths on two levels. In `market` the clock passes the end of a job and of an offer, two
beating dummies outrun it so that a restart lowers a seq. Terms are valid for 3, reach
Redis up to 2 late and stay there 1 more, so in `"lapse"`, which goes on to 4, the key of a
dummy's terms outlives their validity; a registry that serves them while the key lives
(`ServedByKey`) makes the requestors report a dummy. The history has two ranges: one window
that drops rows and one whose buckets hold several. Page limits of 0.5, 1.5, 2 and
4.5 (the maximum is 3) meet four offers and a candidate cut at three stored ones. The clock stops at its bound,
where time-dependent steps just stop being taken. In the registry's own runs requests
still arrive then, so there is no deadlock and deadlock is checked. `relay`, `provider`
and `market` do end (no more runs of the agent, a verdict given, a walk completed), so
deadlock is not checked there; that nobody waits for ever is `CallsReturn` and `ExitSeen`.

**The two groups of properties.** The first group holds under any interleaving,
outage, loss and crash. The second one (`SeqNeverRegresses`, `TermsSettled`,
`NewestAvailWins`, `OneAttestation`, `FailedIsFinal`, `ProfileNeverRegresses`) holds for
a client that waits for each answer, as the agent does, with a Redis that stays up, and
fails otherwise: three of the violation runs show it.

**Fairness.** `offers_quiet`: weak fairness of the steps of each
accepted request (the event loop runs every ready continuation), of `Tick` and of
`RedisUp` (`getClient` reconnects at the next call after `RETRY_MS`). No client is
assumed to send anything: `TermsRecv`, `LiveMiss` and the others have no fairness.
The assumption `QuietHorizon` makes sure that every message has run out before the
clock stops, so that the property is not met by the end of time.
`relay` (`RelayFairness`): weak fairness of three sequential processes that have a timer or
a loop of their own: the waiting agent (it polls until its deadline), the relay loop, and
whoever waits for the agent's end (`on_process_status` and its waiter, or `manager.py`'s
poll). A request that hangs is not assumed to return, no host to be started, no agent to
end or to be interrupted.

### Findings

1. `offers_seq_race`. Two heartbeats in flight both read the old seq, and the
   lower one may be stored last; `docs/registry-spec.md` says that a seq which is
   not strictly greater is rejected. The older price then stands, and the newer
   message can be replayed.
2. `offers_revoke_race`. A heartbeat past its look at `revoked_at` writes its keys
   after `dropOffer`; the next snapshot lists the revoked offer until its terms run
   out, while the document says it has no entry. `getOffers` and `getOffer` are not
   affected (`RevokedNeverReturned`).
3. `attest_abort_race`. A request that loaded the challenge before a failed lane
   deleted it stores it again; the document says a failed lane aborts the whole
   challenge. Scores stay earned all the same (`ScoresEarned`).
4. `reg_profile_race`. Two profile updates in flight both pass the comparison with the
   stored `signed_at`, and the older one may be stored last; the document says that a
   newer one supersedes.

Four more disagreements have no run of their own. What is checked is how far they go: the
property named bounds the disagreement, or excepts it and holds for the rest of what the
quoted line says.

* `SeqFallsOnlyWhenOutrun`. `src/dev-seed.ts:224` says of the seed's seq that it "must only
  ever grow, including across restarts". It does fall: it counts on with every heartbeat of
  any dummy and starts again from the seconds of the clock. With at most one heartbeat a
  second in all it grows.
* `CapSlack`. The active-offer cap is checked before the insert, and posts in flight together
  exceed it; by less than their number.
* `OnlyLapseAlarms`. `src/dev-requestors.ts:93` says that "any defect here is a registry bug".
  Terms of a real provider that lapse while the answer is under way are such a defect and no
  bug. There is no other false report.
* `CacheTrusted`. `agent/vm-driver/src/provision.rs` says of an image "present ⇒ verified".
  Two drivers that download at once write one `.part` and may install a mixed file. And a
  runtime whose extraction was interrupted is taken for complete once the binary is there.
  Drivers that take turns, and files and trees before that point, are what the property covers.

Some hazards are narrower than their property's name, and the property would not catch them;
`PROJECT.json` says so at each. `BooksBalance`: "Σ spent === Σ earned" is claimed after a
load in one piece, with the jobs of personas that are no longer configured counted; a load
that failed half-way, or between whose selects a row of the process before came, leaves books
that differ. `LimitExact` counts the calls of a fixed window that are judged in it: one judged
after the window's end is let through beyond the limit, and around a window's edge twice the
limit passes, where the specification has a sliding window. A counter whose `PEXPIRE` is lost
stays in Redis, harmless since its key names the window. `WalkSound` says nothing of walks
during which the select found more rows than it returns, stale, busy and too dear ones
counted: they may miss offers that match. A fractional limit breaks a walk off at its second
page. `SnapshotBacked` allows a row with one message's expiry and another one's price.
`AtMostOneEffect` excepts the challenge, which costs quota twice when it is forwarded twice.

## 4. Proofs

Every safety invariant, action property and refinement that a passing run checks is also a
theorem. The theorems hold for all sets of offers, providers, messages, challenges, nonces
and slots and all values of the limits, under the named assumptions of the
modules: limits are natural numbers, `Owner`, `ExpiresAt`, `Interval` and `Work` are
functions of the right kind, messages are payload records, `None` and `NoValue` differ
from what they stand in for. Where something is counted or added up, its set is finite:
the offer slots (`Registration`), drivers (`Provision`), personas (`SimMarket`), providers
and offers (`Stats`, `Paging`). An attestation's reuse margin is positive
(24 hours in the agent), and two offers never have the same rank under a seed (the rank
is a hash). `MaxTime`, `MaxFaults` and the other bounds are arbitrary, so the clock and the number
of failures are unbounded for practical purposes; `MaxLatency` is arbitrary too but
appears in the statements. Theorems that need more say so as a hypothesis; it is named below.

**LiveOffersProofs.** `TypeOK` is not inductive: the expiry of a terms record is a
natural number only since its call passed the check on `validUntil`. `TypeInv` adds
what a call past its checks has established (`TermsChecked`, `AvailChecked`) and that
a call is at most `MaxLatency` old (`Timely`). On it rest

* `RevocationIsFinal` and `RevocationIsLogged`, by `RevokeInv` (logged before
  updated, updated before answered) and `ReadInv` (a read that saw an answered
  revocation has the offer among its dead rows or not at all). Nothing is assumed
  about Redis: that is why the race of finding 2 cannot reach a query;
* `BusySelfHeals`: a flag expires no later than an owner-signed busy hint, plus a
  latency, and within the cap;
* `LiveIsSigned`, by `TermsBacked`: a stored record is owner-signed, not yet expired,
  and expires no later than `validUntil` plus a latency;
* `StatusRefined`: the registry implements `OfferStatus`. A step changes the derived
  status of an offer only along the life cycle (`OnlyOnwards`), since the revocation and
  the expiry in Postgres are never undone;
* `SnapshotIsBacked`, by `SnapInv`: the members of `live` (`KeysBacked`), what a reader has
  listed of them (`ListBacked`) and the cached rows (`CacheBacked`) each stand on terms
  signed by the owner, as of the time they were read;
* `RevocationCleans`, by `CleanInv`: as long as nothing failed and no heartbeat or hint
  was under way at the update (`raced`), the keys a revocation has passed stay gone;
* `SeqsNeverRegress`, `TermsAlwaysSettle`, `NewestHintWins`. Their hypothesis is
  `[](OneCallEach /\ faults = 0)`: no two heartbeats and no two hints of *one* offer are in
  flight together, as the agent's one thread of calls has it, and Redis does not fail. Calls
  for different offers, revocations and reads interleave freely, so this says more than
  the run with one slot. What the seq check found then still holds at the write
  (`SeqAhead`); `Stage` says which keys a half-done heartbeat has renewed, and with
  `SettleInv` that seq, terms, score and price agree when it is done; `HintInv` is the same
  for hints. Finding 1 shows that the hypothesis is needed.

**AttestationProofs.** The properties concern rows, but rows are computed from blobs
that overwrite each other, so `IInv` says of *every copy* of a challenge (in Redis and
in each call) that it is consistent in itself: its deadline is the challenge's, a
started lane carries a nonce drawn for that challenge and lane at `issuedAt`, a done
lane was credited at least its work and not beyond now, and lanes are in order. A
call past its load keeps the time it was received and, for a proof, the fact that it
could exist by then. As no step combines two copies, an overwritten blob is replaced
by another consistent one, whatever the order of the writes. `StateStable` and
`CallStable` say that the clock and new nonces do not disturb any of this, and one
lemma per transformation (`NewStateInv`, `StartLaneInv`, `LaneDoneInv`) that it is
re-established. `CapabilityIsMeasured`, `LanesNeverOverlap`, `ChallengesExpire` and
`AttestationsAreServed` follow.

`OneAttestationEach` and `FailureEach` assume that no two requests for *one challenge* are in
flight together (`OneCallEach`): without faults a closed challenge is gone from Redis
except between the insert and the `DEL` of the request that closes it, and nobody works on
a copy of it (`TurnInv`). `OneAttestationWhenInTurn` and `FailureWhenInTurn` carry this over to
the specification `RacesSpec` of the run, whose client takes turns. Finding 3 shows that the
hypothesis is needed.

**RegistrationProofs.** `OffersAreBacked` needs what a request in flight has found
(`CallBacked`), and that rows which back an offer are only ever added (`Kept`): that is
why checks made several statements before the insert still hold at the insert.
`CapNearlyKept` counts a post that found room together with the active offers
(`Admitted`): active and admitted together stay below the cap plus the number of slots,
since a post is admitted only below the cap and there are no more posts than slots. With one
slot this is the cap itself. `OffersAreImmutable` holds because the insert has no conflict
clause. `ProfilesAdvance` assumes a single profile slot: what the select found then
still holds at the upsert.

**RelayProofs.** `RelayInv` says that a file is named after a call that was made, that an
answer marked ok has its execution, and that exactly the call the agent waits for is
pending. Hence `OwnAnswers`: whatever earlier calls, earlier runs, killed hosts or timeouts left
in the directory is not taken for an answer; the call the answer was made for (`taken.made`) is
the call awaited (`taken.awaited`). And `RelayIsAChannel`: `Relay` implements `CallChannel`.

**ProviderProofs.** `AgentUsesRelay`: each step of `Agent` is one of `Relay`, so the above
holds of the agent's calls.

* `EffectsOnce`, by `AgentInv`: an effective call leaves a trace in the registry (a later
  `signedAt`, a lane moved on, an offer of that id, a higher seq), no step removes a trace
  (`Later`), and the trace is what refuses the repetition;
* `NoneWasted`, by `NotWastedInv`: executions keep the order of the runs, because the hosts
  list and answer files in that order (`RunsInOrder`); a run submits only after it has asked
  for a challenge (`StepsInOrder`); so what a run was told about its attestation
  stays true until its challenge is executed (`ToldRight`). Without the order, a submission
  left by an earlier run could be executed in between;
* `CacheIsTrusted`, by `ProvInv`: unless two drivers fetched an asset at once it has one
  writer, on its `.part` (`OneWriter`), what that writer received is in the file (`Received`),
  and an undisturbed tree is exactly as far as its one extraction (`TreeAsExtracted`).

**BenchProofs.** `VerdictsAreRight`, for every number of checkpoints, samples and workers. That the
loops of `bench.ts` and `bench.rs` compute anything at all is a lemma each (`LevelsDef`, `IndexDef`,
`ClimbDef`, `RequiredDef`): the recursive functions that model them exist. By induction over the levels,
hashing a leaf with its path up to level `l` gives the node of level `l` above it, with odd
widths too (`PathLeadsToRoot`), so that the honest prover is accepted (`HonestAccepted`); an
accepted opening comes from a genuine step of the chain (`AcceptedIsGenuine`), and openings
that were exchanged are refused unless nothing was changed by it (`SwapRefused`,
`ReverseHarmless`).

**MarketProofs.**

* `SeedingIdempotent`, `SeqOutrun`, by `SeedInv`: an offer is minted only with none alive
  (`MintsForNone`), and the seeder is at one persona at a time. `MarketIsSeeded`: the
  simulated market implements `DevSeed`, so this holds of it too;
* `AlarmsAreLapses`, by `AlarmInv`. Hypothesis: `TermsTtl + HttpDelay < TermsValidity`, an answer
  takes less time than terms have left to be valid when they are too old to be served (ten
  minutes against one). With slower answers a dummy's terms could lapse on the way;
* `BooksAlwaysBalance`, `LedgerAlwaysBacks`, by `BookInv`: rows settled, on their way and lost
  are apart (`RowsApart`), a run's own activity is what it settled (`OwnActivity`), and a load
  that no orphan came into has read the ledger as it was (`Loaded`); a row that came later
  is not in the books (`unread`). The sums are those of `SumTheorems`;
* `NumbersCohere`, by `StatsInv`: a computation's owners were counted before the total and nobody
  is ever removed from the table, so the parts never exceed the whole (`JobInv`), though
  its five reads are of five markets; minimum, median and maximum are of one set, and means of
  ordered numbers are ordered;
* `LimiterExact`, by `RateInv`: a counter outlives its window (`KeyOutlives`), so its calls have
  different numbers (`NumbersDiffer`) and at most `max` of them are low enough;
* `WalksAreSound`, by `PagingInv`. The position of an offer is the number of those ahead of it.
  An offer that leaves moves the others up by at most one place, so at most one slips past the
  cursor unseen (`FrontGrows`); one that comes pushes at most one back behind it
  (`BackGrows`). An offer that is stored but does not match moves nobody as long as the select
  finds no more than it may return. `OnTrack` counts both against `left` and `entered`; a page returns what
  stands between two cursors, each once (`PageHolds`).

**SumTheorems.** The library's induction theorems take an operator, which the provers cannot
instantiate. Here a *set* takes the place of the induction predicate (`Counting` for numbers,
`SetInduction` for finite sets, both by smallest counterexample), and sums of functions over finite sets,
their regrouping, extremes and the existence of recursive functions follow from it.

**Only model-checked.** Liveness under fairness is out of the prover's reach: `GoesQuiet`,
`CallsReturn` and `ExitSeen` stay with TLC.

## 5. Plan

The plan of models, runs and safety proofs is carried out. What could still be added are
weaker hypotheses: the three theorems under `faults = 0` for an outage that ends before the call
begins, and `ProfilesAdvance` for several profile slots with one request per provider.

## 6. Not modelled

HTTP parsing, canonical JSON, signatures and validation are stateless conversions,
represented by the `signer` of a message. The routing table, `config.ts` and migrations are
constants and start-up I/O; `getHealth`, the listings of providers and of simulated jobs
and `getAttestation` only read. The web console reads and keeps no market state: `usePoll`
replaces one displayed answer by the next. Of the agent, reading and creating the key file,
environment variables and hardware probing are left out, and the step back of its clock:
its heartbeats are then refused, and skipped as transient, until the clock has caught
up. Of vm-driver, the deployment and boot of the VM belong to the external runtime.
Calibration of chain lengths (how many hashes a second a machine does) is data. Scripts and
deployment files are not part of the running system.
