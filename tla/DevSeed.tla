------------------------------ MODULE DevSeed ------------------------------
(***************************************************************************)
(* The dummy market of dev-seed.ts: at every start of the service the      *)
(* seeder makes sure that each of N personas has a profile and a live      *)
(* offer, one row after the other; from then on each persona's timer       *)
(* writes seq and terms straight into Redis, past postTerms and its        *)
(* checks.  A crash may fall between any two rows.  A row and its entry in *)
(* payload_log, written just before, are one step: an entry without its    *)
(* row is read by nobody.                                                  *)
(***************************************************************************)
EXTENDS Integers, FiniteSets

CONSTANTS
  N,                \* ATLAS_DEV_SEED
  Behavior,         \* [1..N -> {"steady", "flaky", "offline"}]
  Price,            \* what jitteredPrice may return
  OfferLife,        \* the 7 days of a dummy offer
  TermsValidity,    \* the 10 minutes to a heartbeat's validUntil
  TermsTtl,         \* min(10 min, 2 * I + 30 s), the PX of its terms
  Period,           \* the least delay between two heartbeats of a persona
  RedisDelay,       \* bound: how late a heartbeat's SET may reach Redis
  MaxTime,          \* bound: the clock stops here
  MaxCrashes,       \* bound: crashes of the service
  NoValue           \* null

Dummy == 1..N

ASSUME SeedAssumption ==
  /\ N \in Nat /\ Behavior \in [Dummy -> {"steady", "flaky", "offline"}]
  /\ Price \subseteq Nat \ {0}
  /\ OfferLife \in Nat \ {0} /\ TermsValidity \in Nat \ {0} /\ TermsTtl \in Nat \ {0}
  /\ Period \in Nat \ {0} /\ RedisDelay \in Nat
  /\ MaxTime \in Nat /\ MaxCrashes \in Nat /\ NoValue \notin Nat

VARIABLES
  clock,      \* Date.now()
  crashes,    \* crashes so far
  seed,       \* the seeder: [pc, p, at] with p the persona at hand
  profiled,   \* Postgres: personas with a row in providers
  attested,   \* Postgres: attestation rows, [p, at]
  offered,    \* Postgres: offer rows, [p, at]; the id hashes both
  offerOf,    \* p.offerId in memory: the `at` of the persona's offer
  counter,    \* the seq counter of the heartbeat loop
  due,        \* when the persona's timer may fire
  beat,       \* the heartbeat in flight: [seq, price, at]
  seqOf,      \* Redis seq:{offer}, by persona
  termsOf     \* Redis terms:{offer}, by persona: [at, price, until, exp]

tables == <<profiled, attested, offered>>
loop == <<offerOf, counter, due, beat>>
keys == <<seqOf, termsOf>>
seedVars == <<clock, crashes, seed, tables, loop, keys>>

Down == [pc |-> "down", p |-> 1, at |-> 0]
OfferRow == [p: Dummy, at: Nat]
Heartbeat == [seq: Nat, price: Price, at: Nat]
DummyTerms == [at: Nat, price: Price, until: Nat, exp: Nat]

SeedTypeOK ==
  /\ clock \in Nat /\ crashes \in 0..MaxCrashes
  /\ seed \in [pc: {"down", "profile", "reuse", "attest", "offer", "up"},
               p: Nat \ {0}, at: Nat]
  /\ profiled \subseteq Dummy /\ attested \subseteq OfferRow /\ offered \subseteq OfferRow
  /\ offerOf \in [Dummy -> Nat \cup {NoValue}] /\ counter \in Nat
  /\ due \in [Dummy -> Nat \cup {NoValue}]
  /\ beat \in [Dummy -> Heartbeat \cup {NoValue}]
  /\ seqOf \in [Dummy -> Nat \cup {NoValue}]
  /\ termsOf \in [Dummy -> DummyTerms \cup {NoValue}]

SeedInit ==
  /\ clock = 0 /\ crashes = 0 /\ seed = Down
  /\ profiled = {} /\ attested = {} /\ offered = {}
  /\ offerOf = [p \in Dummy |-> NoValue] /\ counter = 0
  /\ due = [p \in Dummy |-> NoValue] /\ beat = [p \in Dummy |-> NoValue]
  /\ seqOf = [p \in Dummy |-> NoValue] /\ termsOf = [p \in Dummy |-> NoValue]

-----------------------------------------------------------------------------
(* seedDevMarket: ensureProvider for each persona in turn                  *)

LiveOffer(p) == {o \in offered : o.p = p /\ clock < o.at + OfferLife}

\* One `now` for the whole round of seeding.
SeedStart ==
  /\ seed.pc = "down"
  /\ seed' = [pc |-> "profile", p |-> 1, at |-> clock]
  /\ UNCHANGED <<clock, crashes, tables, loop, keys>>

\* The profile, unless there is one: its select, its log row and its insert.
EnsureProfile ==
  /\ seed.pc = "profile" /\ seed.p \in Dummy
  /\ profiled' = profiled \cup {seed.p}
  /\ seed' = [seed EXCEPT !.pc = "reuse"]
  /\ UNCHANGED <<clock, crashes, attested, offered, loop, keys>>

NextPersona == seed' = [seed EXCEPT !.pc = "profile", !.p = @ + 1]

ReuseOfferNever ==   \* faulty: a start always mints a new offer
  /\ seed.pc = "reuse"
  /\ seed' = [seed EXCEPT !.pc = "attest"]
  /\ UNCHANGED <<clock, crashes, tables, loop, keys>>

\* The newest live offer is taken again; without one the seeder mints another.
ReuseOffer ==
  /\ seed.pc = "reuse"
  /\ IF LiveOffer(seed.p) # {}
       THEN /\ \E o \in LiveOffer(seed.p) :
                 /\ \A x \in LiveOffer(seed.p) : x.at <= o.at
                 /\ offerOf' = [offerOf EXCEPT ![seed.p] = o.at]
            /\ NextPersona
       ELSE offerOf' = offerOf /\ seed' = [seed EXCEPT !.pc = "attest"]
  /\ UNCHANGED <<clock, crashes, tables, counter, due, beat, keys>>

MintAttestation ==
  /\ seed.pc = "attest"
  /\ attested' = attested \cup {[p |-> seed.p, at |-> seed.at]}
  /\ seed' = [seed EXCEPT !.pc = "offer"]
  /\ UNCHANGED <<clock, crashes, profiled, offered, loop, keys>>

\* The new offer has a new id: no key in Redis is about it yet.
MintOffer ==
  /\ seed.pc = "offer"
  /\ offered' = offered \cup {[p |-> seed.p, at |-> seed.at]}
  /\ offerOf' = [offerOf EXCEPT ![seed.p] = seed.at]
  /\ seqOf' = [seqOf EXCEPT ![seed.p] = NoValue]
  /\ termsOf' = [termsOf EXCEPT ![seed.p] = NoValue]
  /\ NextPersona
  /\ UNCHANGED <<clock, crashes, profiled, attested, counter, due, beat>>

Scheduled == {p \in Dummy : Behavior[p] # "offline"}

StartBeatingAtZero ==   \* faulty: the counter does not start from the clock
  /\ seed.pc = "profile" /\ seed.p = N + 1
  /\ counter' = 0
  /\ due' = [p \in Dummy |-> IF p \in Scheduled THEN clock ELSE NoValue]
  /\ seed' = [seed EXCEPT !.pc = "up"]
  /\ UNCHANGED <<clock, crashes, tables, offerOf, beat, keys>>

\* All personas are seeded: the counter starts from the wall clock and the
\* first heartbeats are scheduled.
StartBeating ==
  /\ seed.pc = "profile" /\ seed.p = N + 1
  /\ counter' = clock
  /\ due' = [p \in Dummy |-> IF p \in Scheduled THEN clock ELSE NoValue]
  /\ seed' = [seed EXCEPT !.pc = "up"]
  /\ UNCHANGED <<clock, crashes, tables, offerOf, beat, keys>>

Seeding ==
  SeedStart \/ EnsureProfile \/ ReuseOffer \/ MintAttestation \/ MintOffer \/ StartBeating

-----------------------------------------------------------------------------
(* The heartbeat loop                                                      *)

\* The timer fires: the counter all personas share grows, seq:{offer} is
\* overwritten whatever it held, unless Redis is away, and the terms follow.
Beat(p) ==
  /\ seed.pc = "up" /\ beat[p] = NoValue
  /\ due[p] # NoValue /\ due[p] <= clock
  /\ counter' = counter + 1
  /\ \E price \in Price :
       beat' = [beat EXCEPT ![p] = [seq |-> counter + 1, price |-> price, at |-> clock]]
  /\ \/ seqOf' = [seqOf EXCEPT ![p] = counter + 1]
     \/ seqOf' = seqOf
  /\ UNCHANGED <<clock, crashes, seed, tables, offerOf, due, termsOf>>

\* A flaky persona skips about every other heartbeat.
SkipBeat(p) ==
  /\ seed.pc = "up" /\ beat[p] = NoValue
  /\ due[p] # NoValue /\ due[p] <= clock /\ Behavior[p] = "flaky"
  /\ due' = [due EXCEPT ![p] = clock + Period]
  /\ UNCHANGED <<clock, crashes, seed, tables, offerOf, counter, beat, keys>>

\* What a heartbeat leaves in terms:{offer}: PX counts from the SET, validUntil
\* from the heartbeat.
TermsWritten(b) ==
  [at |-> b.at, price |-> b.price, until |-> b.at + TermsValidity, exp |-> clock + TermsTtl]

\* setTerms and touchProvider, or nothing when Redis went away; then the next timer.
BeatTerms(p) ==
  /\ beat[p] # NoValue
  /\ \/ termsOf' = [termsOf EXCEPT ![p] = TermsWritten(beat[p])]
     \/ termsOf' = termsOf
  /\ beat' = [beat EXCEPT ![p] = NoValue]
  /\ due' = [due EXCEPT ![p] = clock + Period]
  /\ UNCHANGED <<clock, crashes, seed, tables, offerOf, counter, seqOf>>

\* Process memory is lost: timers, offer ids and the counter.
SeedForgets ==
  /\ seed' = Down /\ counter' = 0
  /\ offerOf' = [p \in Dummy |-> NoValue] /\ due' = [p \in Dummy |-> NoValue]
  /\ beat' = [p \in Dummy |-> NoValue]

SeedCrash ==
  /\ crashes < MaxCrashes /\ seed.pc # "down"
  /\ crashes' = crashes + 1 /\ SeedForgets
  /\ UNCHANGED <<clock, tables, keys>>

\* Time passes, and Redis drops the keys whose PX has run out.
SeedTick ==
  /\ clock < MaxTime
  /\ \A p \in Dummy : beat[p] # NoValue => clock < beat[p].at + RedisDelay
  /\ clock' = clock + 1
  /\ termsOf' = [p \in Dummy |->
       IF termsOf[p] # NoValue /\ termsOf[p].exp <= clock + 1 THEN NoValue ELSE termsOf[p]]
  /\ UNCHANGED <<crashes, seed, tables, loop, seqOf>>

Beating == \E p \in Dummy : Beat(p) \/ SkipBeat(p) \/ BeatTerms(p)

SeedNext == Seeding \/ Beating \/ SeedCrash \/ SeedTick

SeedSpec == SeedInit /\ [][SeedNext]_seedVars

-----------------------------------------------------------------------------
\* ensureProvider is idempotent across restarts: however often the service
\* dies between two of its steps, a persona never has two offers that are
\* alive at once, and every offer names an attestation that was stored first.
OneDummyOffer ==
  /\ \A p \in Dummy : Cardinality(LiveOffer(p)) <= 1
  /\ offered \subseteq attested
  /\ \A o \in offered : o.p \in profiled

\* "seq must only ever grow, including across restarts": the seq stored for an
\* offer falls only if heartbeats had pushed it ahead of the wall clock by the
\* time this run of the service was seeded.
SeqFallsOnlyWhenOutrun ==
  [][\A p \in Dummy :
       seqOf[p] # NoValue /\ seqOf'[p] # NoValue /\ seqOf'[p] < seqOf[p]
         => seqOf[p] > seed.at + 1]_seedVars
=============================================================================
