----------------------------- MODULE SimMarket -----------------------------
(***************************************************************************)
(* The simulated requestors of dev-requestors.ts on top of the dummy       *)
(* market: they search the registry, check what it returns, hire, settle   *)
(* completed jobs in memory and in the dev_sim_jobs ledger, and reload     *)
(* their books from it at a start.  Seeder, requestors and sampler live in *)
(* the service's process: one crash takes them all.                        *)
(*                                                                         *)
(* A busy hint is one HTTP call, here either applied at once or lost; late *)
(* and reordered hints are the subject of LiveOffers.  A job costs its     *)
(* price: one unit of run time.                                            *)
(***************************************************************************)
EXTENDS DevSeed, FiniteSetsExt

CONSTANTS
  Persona,          \* the requestors ever configured
  Ceiling,          \* [Persona -> Nat], maxPricePerHour
  Fits,             \* [Persona -> offers whose attested machine meets the shape]
  ByPrice,          \* the personas whose shape sorts by price; others by score
  RealPrice,        \* what real providers ask
  RealOffer,        \* offers of real providers, numbered after the dummies
  RunTime,          \* how long a job runs, and the slack of its busy hint
  HttpDelay,        \* bound: how long a query may be in flight
  MaxJobs           \* bound: settled jobs

Market == Dummy \cup RealOffer

ASSUME SimAssumption ==
  /\ IsFiniteSet(Persona)
  /\ Ceiling \in [Persona -> Nat] /\ Fits \in [Persona -> SUBSET Market]
  /\ ByPrice \subseteq Persona /\ RealOffer \subseteq Nat \ Dummy
  /\ RealPrice \subseteq Nat \ {0} /\ RunTime \in Nat \ {0} /\ HttpDelay \in Nat /\ MaxJobs \in Nat

VARIABLES
  sim,        \* "off", the step of loadFromLedger, or "on"
  personas,   \* the personas of this run: ATLAS_DEV_REQUESTORS
  req,        \* each persona's search or job
  realTerms,  \* Redis terms:{offer} of the real offers: [price, until]
  busyTil,    \* Redis busy:{offer}, by offer
  spent,      \* st.spent
  earned,     \* earnings, by provider
  total,      \* totals.spent
  ledger,     \* Postgres dev_sim_jobs: [id, r, p, cost]
  inserts,    \* ledger rows on their way
  orphans,    \* those on their way from a process that died
  bugs,       \* what was logged as BUG: [what, offer]
  whole,      \* history: this run's books were loaded without an error, at one instant
  unread,     \* history: orphans that came into the ledger after this run had read it
  settled,    \* history: jobs settled so far, also the next row's id
  lost,       \* history: rows whose insert failed or died with the process
  unseen      \* history: cost of the rows lost in this run

books == <<spent, earned, total>>
rows == <<ledger, inserts, orphans, unread, lost, unseen, settled>>
simVars == <<sim, personas, req, realTerms, busyTil, books, rows, bugs, whole>>
marketVars == <<seedVars, simVars>>

Idle == [pc |-> "idle"]
Items == [offer: Market, price: Price \cup RealPrice, until: Nat]
LedgerRow == [id: Nat, r: Persona, p: Dummy, cost: Price]

SimTypeOK ==
  /\ SeedTypeOK
  /\ sim \in {"off", "totals", "earnings", "spent", "on"} /\ personas \subseteq Persona
  /\ req \in [Persona -> {Idle}
       \cup [pc: {"query"}, at: Nat]
       \cup [pc: {"reply"}, at: Nat, items: SUBSET Items]
       \cup [pc: {"run"}, at: Nat, p: Dummy, cost: Price]]
  /\ realTerms \in [RealOffer -> [price: RealPrice, until: Nat] \cup {NoValue}]
  /\ busyTil \in [Market -> Nat \cup {NoValue}]
  /\ spent \in [Persona -> Nat] /\ earned \in [Dummy -> Nat] /\ total \in Nat
  /\ ledger \subseteq LedgerRow /\ inserts \subseteq LedgerRow
  /\ orphans \subseteq LedgerRow /\ unread \subseteq ledger
  /\ bugs \subseteq [what: {"expired", "mismatch", "offline"}, offer: Market]
  /\ whole \in BOOLEAN /\ settled \in 0..MaxJobs /\ lost \in Nat /\ unseen \in Nat

Nothing == [r \in Persona |-> 0]

SimInit ==
  /\ SeedInit
  /\ sim = "off" /\ personas = {}
  /\ req = [r \in Persona |-> Idle]
  /\ realTerms = [o \in RealOffer |-> NoValue] /\ busyTil = [o \in Market |-> NoValue]
  /\ spent = Nothing /\ earned = [p \in Dummy |-> 0] /\ total = 0
  /\ ledger = {} /\ inserts = {} /\ orphans = {} /\ unread = {} /\ bugs = {}
  /\ whole = TRUE /\ settled = 0 /\ lost = 0 /\ unseen = 0

CostOf(S) == MapThenSumSet(LAMBDA row : row.cost, S)

-----------------------------------------------------------------------------
(* startDevRequestors and loadFromLedger                                   *)

\* The service listens; the configured personas are created with empty books.
\* They are the first n of a list, here any: a restart may have other ones.
SimStart ==
  /\ seed.pc = "up" /\ sim = "off"
  /\ \E S \in SUBSET Persona : S # {} /\ personas' = S
  /\ sim' = "totals"
  /\ UNCHANGED <<seedVars, req, realTerms, busyTil, books, rows, bugs, whole>>

LoadTotalsOfRun ==   \* faulty: only the jobs of the personas of this run
  /\ sim = "totals"
  /\ total' = CostOf({row \in ledger : row.r \in personas}) /\ sim' = "earnings"
  /\ UNCHANGED <<seedVars, personas, req, realTerms, busyTil, spent, earned, rows, bugs, whole>>

LoadTotals ==
  /\ sim = "totals"
  /\ total' = CostOf(ledger) /\ sim' = "earnings"
  /\ UNCHANGED <<seedVars, personas, req, realTerms, busyTil, spent, earned, rows, bugs, whole>>

LoadEarnings ==
  /\ sim = "earnings"
  /\ earned' = [p \in Dummy |-> CostOf({row \in ledger : row.p = p})] /\ sim' = "spent"
  /\ UNCHANGED <<seedVars, personas, req, realTerms, busyTil, spent, total, rows, bugs, whole>>

SpentForgotten == spent   \* faulty: personas start from zero again

\* Only personas of this run have a state to load into.
SpentLoaded ==
  [r \in Persona |-> IF r \in personas THEN CostOf({row \in ledger : row.r = r}) ELSE 0]

LoadSpent ==
  /\ sim = "spent"
  /\ spent' = SpentLoaded /\ sim' = "on"
  /\ UNCHANGED <<seedVars, personas, req, realTerms, busyTil, earned, total, rows, bugs, whole>>

\* One of the three selects fails: what the earlier ones loaded stays.
LoadFails ==
  /\ sim \in {"totals", "earnings", "spent"}
  /\ sim' = "on" /\ whole' = FALSE
  /\ UNCHANGED <<seedVars, personas, req, realTerms, busyTil, books, rows, bugs>>

Loading == LoadTotals \/ LoadEarnings \/ LoadSpent \/ LoadFails

-----------------------------------------------------------------------------
(* step: search, check, probe, hire                                        *)

\* A persona's timer fires and its query leaves.
Search(r) ==
  /\ sim = "on" /\ r \in personas /\ req[r] = Idle
  /\ req' = [req EXCEPT ![r] = [pc |-> "query", at |-> clock]]
  /\ UNCHANGED <<seedVars, sim, personas, realTerms, busyTil, books, rows, bugs, whole>>

ServedByKey(r) ==   \* faulty: terms count as fresh as long as their key lives
  {[offer |-> p, price |-> termsOf[p].price, until |-> termsOf[p].until] :
     p \in {p \in Dummy : termsOf[p] # NoValue /\ LiveOffer(p) # {}}}
  \cup {[offer |-> o, price |-> realTerms[o].price, until |-> realTerms[o].until] :
          o \in {o \in RealOffer : realTerms[o] # NoValue}}

\* What getOffers serves under freshness=normal: unexpired offers whose terms are
\* there and no older than their window.  All of them fit the 20 of a page.
Served(r) ==
  {[offer |-> p, price |-> termsOf[p].price, until |-> termsOf[p].until] :
     p \in {p \in Dummy : /\ termsOf[p] # NoValue /\ LiveOffer(p) # {}
                          /\ clock - termsOf[p].at <= TermsTtl}}
  \cup {[offer |-> o, price |-> realTerms[o].price, until |-> realTerms[o].until] :
          o \in {o \in RealOffer : realTerms[o] # NoValue}}

\* The persona's filters and ceiling.
Wanted(r, i) == i.offer \in Fits[r] /\ i.price <= Ceiling[r]

\* The registry applies them, and leaves out machines that are taken.
Matches(r, i) == Wanted(r, i) /\ busyTil[i.offer] = NoValue

ServeQuery(r) ==
  /\ req[r].pc = "query"
  /\ req' = [req EXCEPT ![r] =
       [pc |-> "reply", at |-> req[r].at, items |-> {i \in Served(r) : Matches(r, i)}]]
  /\ UNCHANGED <<seedVars, sim, personas, realTerms, busyTil, books, rows, bugs, whole>>

\* 429, another error status, or no answer: back to the timer.
QueryFails(r) ==
  /\ req[r].pc = "query"
  /\ req' = [req EXCEPT ![r] = Idle]
  /\ UNCHANGED <<seedVars, sim, personas, realTerms, busyTil, books, rows, bugs, whole>>

\* verifyOfferItem and checkRegistryFilters.  Signatures hold: the model forges none.
Defect(r, i) ==
  CASE i.until <= clock -> "expired"
    [] i.until > clock /\ ~ Wanted(r, i) -> "mismatch"
    [] OTHER -> "none"

\* Sound offers of dummies; a real provider is never a candidate.
Candidates(r) == {i \in req[r].items : Defect(r, i) = "none" /\ i.offer \in Dummy}

\* The order the registry sorted them in.
Before(r, i, j) ==
  \/ r \in ByPrice /\ i.price < j.price
  \/ (r \in ByPrice => i.price = j.price) /\ i.offer < j.offer

Probed(r) ==
  {i \in Candidates(r) : Cardinality({j \in Candidates(r) : Before(r, j, i)}) < 3}

Defects(r) ==
  {[what |-> Defect(r, i), offer |-> i.offer] : i \in {i \in req[r].items : Defect(r, i) # "none"}}

\* Offline dummies among those probed before i, or all of them.
Offline(r, S) == {[what |-> "offline", offer |-> i.offer] : i \in {i \in S : Behavior[i.offer] = "offline"}}

\* A steady dummy accepts, so nobody after it is probed.
Hire(r, i) ==
  /\ req[r].pc = "reply" /\ i \in Probed(r) /\ Behavior[i.offer] # "offline"
  /\ \A j \in Probed(r) : Before(r, j, i) => Behavior[j.offer] # "steady"
  /\ req' = [req EXCEPT ![r] = [pc |-> "run", at |-> clock, p |-> i.offer, cost |-> i.price]]
  /\ \/ busyTil' = [busyTil EXCEPT ![i.offer] = clock + 2 * RunTime]
     \/ busyTil' = busyTil
  /\ bugs' = bugs \cup Defects(r) \cup Offline(r, {j \in Probed(r) : Before(r, j, i)})
  /\ UNCHANGED <<seedVars, sim, personas, realTerms, books, rows, whole>>

NoMatch(r) ==
  /\ req[r].pc = "reply" /\ \A i \in Probed(r) : Behavior[i.offer] # "steady"
  /\ req' = [req EXCEPT ![r] = Idle]
  /\ bugs' = bugs \cup Defects(r) \cup Offline(r, Probed(r))
  /\ UNCHANGED <<seedVars, sim, personas, realTerms, busyTil, books, rows, whole>>

-----------------------------------------------------------------------------
(* settleJob                                                               *)

Credit(job) == earned' = [earned EXCEPT ![job.p] = @ + job.cost]

\* The job's timer fires: the machine is released, both sides of the books and
\* the totals move in one step, and the ledger row is on its way.
Settle(r) ==
  /\ req[r].pc = "run" /\ req[r].at + RunTime <= clock /\ settled < MaxJobs
  /\ \/ busyTil' = [busyTil EXCEPT ![req[r].p] = NoValue]
     \/ busyTil' = busyTil
  /\ spent' = [spent EXCEPT ![r] = @ + req[r].cost]
  /\ total' = total + req[r].cost
  /\ Credit(req[r])
  /\ settled' = settled + 1
  /\ inserts' = inserts \cup {[id |-> settled, r |-> r, p |-> req[r].p, cost |-> req[r].cost]}
  /\ req' = [req EXCEPT ![r] = Idle]
  /\ UNCHANGED <<seedVars, sim, personas, realTerms, ledger, orphans, unread, lost, unseen, bugs, whole>>

Insert(row) ==
  /\ row \in inserts
  /\ inserts' = inserts \ {row}
  /\ ledger' = ledger \cup {row}
  /\ UNCHANGED <<seedVars, sim, personas, req, realTerms, busyTil, books, orphans, unread, lost, unseen,
                 settled, bugs, whole>>

\* The insert fails and is only reported.
InsertFails(row) ==
  /\ row \in inserts
  /\ inserts' = inserts \ {row}
  /\ lost' = lost + 1 /\ unseen' = unseen + row.cost
  /\ UNCHANGED <<seedVars, sim, personas, req, realTerms, busyTil, books, ledger, orphans, unread,
                 settled, bugs, whole>>

-----------------------------------------------------------------------------
(* The rest of the market, and failures                                    *)

\* A real provider's terms: its key lives at most until its validUntil.
RealBeat(o) ==
  /\ \E price \in RealPrice, d \in 1..TermsTtl :
       realTerms' = [realTerms EXCEPT ![o] = [price |-> price, until |-> clock + d]]
  /\ UNCHANGED <<seedVars, sim, personas, req, busyTil, books, rows, bugs, whole>>

\* What a dead process had sent is still applied, at any time later, even
\* between two selects of the next one's load; or never.
OrphanLands(row) ==
  /\ row \in orphans
  /\ orphans' = orphans \ {row} /\ ledger' = ledger \cup {row}
  /\ whole' = (whole /\ sim \notin {"earnings", "spent"})
  /\ unread' = IF sim = "on" THEN unread \cup {row} ELSE unread
  /\ UNCHANGED <<seedVars, sim, personas, req, realTerms, busyTil, books, inserts, lost, unseen,
                 settled, bugs>>

OrphanDies(row) ==
  /\ row \in orphans
  /\ orphans' = orphans \ {row} /\ lost' = lost + 1
  /\ UNCHANGED <<seedVars, sim, personas, req, realTerms, busyTil, books, ledger, inserts, unread,
                 unseen, settled, bugs, whole>>

\* The process dies with inserts in flight; of its memory nothing is left.
MarketCrash ==
  /\ crashes < MaxCrashes /\ seed.pc # "down"
  /\ crashes' = crashes + 1 /\ SeedForgets
  /\ orphans' = orphans \cup inserts /\ inserts' = {} /\ unread' = {} /\ unseen' = 0
  /\ sim' = "off" /\ personas' = {} /\ req' = [r \in Persona |-> Idle]
  /\ spent' = Nothing /\ earned' = [p \in Dummy |-> 0] /\ total' = 0
  /\ whole' = TRUE
  /\ UNCHANGED <<clock, tables, keys, realTerms, busyTil, ledger, lost, settled, bugs>>

MarketTick ==
  /\ SeedTick
  /\ \A r \in Persona : req[r].pc \in {"query", "reply"} => clock < req[r].at + HttpDelay
  /\ realTerms' = [o \in RealOffer |->
       IF realTerms[o] # NoValue /\ realTerms[o].until <= clock + 1 THEN NoValue ELSE realTerms[o]]
  /\ busyTil' = [o \in Market |->
       IF busyTil[o] # NoValue /\ busyTil[o] <= clock + 1 THEN NoValue ELSE busyTil[o]]
  /\ UNCHANGED <<sim, personas, req, books, rows, bugs, whole>>

SimStep ==
  \/ SimStart \/ Loading
  \/ \E r \in Persona :
       \/ Search(r) \/ ServeQuery(r) \/ QueryFails(r) \/ NoMatch(r) \/ Settle(r)
       \/ req[r].pc = "reply" /\ \E i \in req[r].items : Hire(r, i)
  \/ \E row \in inserts : Insert(row) \/ InsertFails(row)
  \/ \E row \in orphans : OrphanLands(row) \/ OrphanDies(row)
  \/ \E o \in RealOffer : RealBeat(o)

MarketNext ==
  \/ SimStep \/ MarketTick \/ MarketCrash
  \/ (Seeding \/ Beating) /\ UNCHANGED simVars

MarketSpec == SimInit /\ [][MarketNext]_marketVars

-----------------------------------------------------------------------------
\* The rows that the books of a complete load stand for, or were settled since.
Known == ledger \ unread

\* "Σ spent === Σ earned": after a complete load, the totals, the earnings of
\* all dummies and the spending of this run's personas agree, once the ledger's
\* jobs of personas that no longer run are counted.
BooksBalance ==
  sim = "on" /\ whole =>
    LET absent == CostOf({row \in Known : row.r \notin personas})
    IN  /\ total = MapThenSumSet(LAMBDA p : earned[p], Dummy)
        /\ total = MapThenSumSet(LAMBDA r : spent[r], personas) + absent

\* The totals survive a restart: what memory shows is what the ledger holds, less
\* what an earlier process still put there, plus the rows on their way, plus those
\* whose insert failed since the start; over all restarts no settled job is
\* counted twice, in whatever order its insert, a crash and a load come.
LedgerBacked ==
  /\ sim = "on" /\ whole => total = CostOf(Known) + CostOf(inserts) + unseen
  /\ Cardinality(ledger) + Cardinality(inserts) + Cardinality(orphans) + lost = settled

\* A BUG report is about a defect of the registry.  The one false alarm the
\* requestors can raise is a real provider's terms that lapsed while the answer
\* was on its way.  A dummy raises none, however late Redis took its heartbeat and
\* however long the answer took: old terms are not served while their key lives.
OnlyLapseAlarms == \A b \in bugs : b.what = "expired" /\ b.offer \in RealOffer
=============================================================================
