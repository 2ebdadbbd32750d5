------------------------------- MODULE Stats -------------------------------
(***************************************************************************)
(* The market's numbers: computeMarketAggregates (ops.ts), which reads     *)
(* Redis and Postgres in five steps while the market moves, GET /v1/stats  *)
(* with its cached answer, and the history sampler (stats-history.ts),     *)
(* whose ticks do not wait for each other.                                 *)
(***************************************************************************)
EXTENDS Naturals, FiniteSets, FiniteSetsExt

CONSTANTS
  Prov, Offr,      \* providers and offers that may come to exist
  OwnerOf,         \* [Offr -> Prov]
  Cents,           \* prices
  Job,             \* computations in flight
  Ranges,          \* RANGES of the history: [window, step]
  Retention,       \* statsRetentionDays
  StatsTtl,        \* statsTtlMs
  MaxStatTime,     \* bound: the clock stops here
  MaxMoves,        \* bound: changes of the market
  MaxComputes      \* bound: computations

ASSUME StatsAssumption ==
  /\ OwnerOf \in [Offr -> Prov] /\ Cents \subseteq Nat
  /\ Ranges \subseteq [window: Nat, step: Nat \ {0}]
  /\ Retention \in Nat /\ StatsTtl \in Nat /\ MaxStatTime \in Nat /\ MaxMoves \in Nat
  /\ MaxComputes \in Nat
  /\ IsFiniteSet(Prov) /\ IsFiniteSet(Offr)

VARIABLES
  statTime,
  providers,   \* rows of providers
  offers,      \* rows of offers; never deleted
  active,      \* offers neither revoked nor expired
  quote,       \* live:offers with live:prices, 0 for an offer that is not live
  flagged,     \* busy:{offer}
  job,         \* the computations
  snapshots,   \* rows of market_snapshots
  blob,        \* stats:snapshot: [agg, until]
  moves,
  computes

statVars == <<statTime, providers, offers, active, quote, flagged, job, snapshots, blob, moves, computes>>
world == <<providers, offers, active, quote, flagged, moves>>

NoBlob == [until |-> 0]
Rest == [pc |-> "rest"]

\* A market that has been running.
StatsInit ==
  /\ providers \in SUBSET Prov /\ offers \in SUBSET {o \in Offr : OwnerOf[o] \in providers}
  /\ active \in SUBSET offers /\ flagged \in SUBSET active
  /\ quote \in {q \in [Offr -> Cents \cup {0}] : \A o \in Offr \ active : q[o] = 0}
  /\ statTime = 0 /\ moves = 0 /\ computes = 0
  /\ job = [j \in Job |-> Rest] /\ snapshots = {} /\ blob = NoBlob

-----------------------------------------------------------------------------
(* computeMarketAggregates                                                 *)

\* The sampler's tick, or a GET that found no cached answer, or no Redis.
Compute(j, kind) ==
  /\ job[j] = Rest
  /\ computes < MaxComputes /\ computes' = computes + 1
  /\ job' = [job EXCEPT ![j] =
       [pc |-> "live", kind |-> kind, at |-> statTime, live |-> {}, price |-> [o \in Offr |-> 0],
        busy |-> {}, provActive |-> 0, provTotal |-> 0, offActive |-> 0, provBusy |-> 0]]
  /\ UNCHANGED <<statTime, world, snapshots, blob>>

\* Computation j has come to the step named pc.
At(j, pc) == job[j].pc = pc /\ UNCHANGED <<statTime, world, computes, snapshots, blob>>

\* redis.liveOffers: empty, as is busyBatch below, when Redis does not answer.
ReadLive(j) ==
  /\ At(j, "live")
  /\ \/ job' = [job EXCEPT ![j].pc = "active", ![j].live = {o \in Offr : quote[o] # 0}, ![j].price = quote]
     \/ job' = [job EXCEPT ![j].pc = "active"]

Owners(S) == {OwnerOf[o] : o \in S \cap offers}

ReadActive(j) ==
  /\ At(j, "active")
  /\ job' = [job EXCEPT ![j].pc = "totals", ![j].provActive = Cardinality(Owners(job[j].live))]

ReadTotals(j) ==
  /\ At(j, "totals")
  /\ job' = [job EXCEPT ![j].pc = "busy", ![j].provTotal = Cardinality(providers),
                        ![j].offActive = Cardinality(active)]

BusyFlagged(live) == flagged   \* faulty: every flagged offer counts

\* redis.busyBatch over the offers that were live.
BusyAmong(live) == live \cap flagged

ReadBusy(j) ==
  /\ At(j, "busy")
  /\ \/ job' = [job EXCEPT ![j].pc = "owners", ![j].busy = BusyAmong(job[j].live)]
     \/ job' = [job EXCEPT ![j].pc = "owners"]

ReadBusyOwners(j) ==
  /\ At(j, "owners")
  /\ job' = [job EXCEPT ![j].pc = "done", ![j].provBusy = Cardinality(Owners(job[j].busy))]

\* The median of the sorted prices, doubled: the mean of the two in the middle.
Median2(prices) ==
  LET below(c) == MapThenSumSet(LAMBDA x : prices[x], {x \in DOMAIN prices : x <= c})
      size == MapThenSumSet(LAMBDA x : prices[x], DOMAIN prices)
      nth(k) == Min({c \in DOMAIN prices : below(c) >= k})
  IN  IF size % 2 = 1 THEN 2 * nth((size + 1) \div 2) ELSE nth(size \div 2) + nth(size \div 2 + 1)

\* How often each price is asked.
Prices(g) ==
  [c \in {g.price[o] : o \in g.live} |-> Cardinality({o \in g.live : g.price[o] = c})]

Aggregates(g) ==
  [provTotal |-> g.provTotal, provActive |-> g.provActive, provBusy |-> g.provBusy,
   provFree |-> IF g.provActive > g.provBusy THEN g.provActive - g.provBusy ELSE 0,
   offActive |-> g.offActive, offLive |-> Cardinality(g.live), offBusy |-> Cardinality(g.busy),
   priceMin |-> IF g.live = {} THEN 0 ELSE Min(DOMAIN Prices(g)),
   priceMed2 |-> IF g.live = {} THEN 0 ELSE Median2(Prices(g)),
   priceMax |-> IF g.live = {} THEN 0 ELSE Max(DOMAIN Prices(g))]

-----------------------------------------------------------------------------
(* takeMarketSnapshot and getStats                                         *)

\* One row per timestamp; old rows go.
Sample(j) ==
  /\ job[j].pc = "done" /\ job[j].kind = "sample"
  /\ LET taken == {r.at : r \in snapshots}
         row == [at |-> job[j].at, agg |-> Aggregates(job[j])]
     IN  snapshots' = {r \in (IF job[j].at \in taken THEN snapshots ELSE snapshots \cup {row}) :
                         r.at + Retention >= statTime}
  /\ job' = [job EXCEPT ![j] = Rest]
  /\ UNCHANGED <<statTime, world, computes, blob>>

\* The cached answer is what every GET until its expiry is served.
Cache(j) ==
  /\ job[j].pc = "done" /\ job[j].kind = "get"
  /\ blob' = [until |-> statTime + StatsTtl, agg |-> Aggregates(job[j])]
  /\ job' = [job EXCEPT ![j] = Rest]
  /\ UNCHANGED <<statTime, world, computes, snapshots>>

\* A query fails: the tick is logged and skipped, the GET fails.  An answer whose
\* caching fails leaves the same state.
ComputeFails(j) ==
  /\ job[j] # Rest /\ job' = [job EXCEPT ![j] = Rest]
  /\ UNCHANGED <<statTime, world, computes, snapshots, blob>>

\* getStatsHistory: round(avg()) over the rows of a bucket.
RoundedMean(column) ==
  LET n == Cardinality(DOMAIN column)
  IN  (2 * MapThenSumSet(LAMBDA r : column[r], DOMAIN column) + n) \div (2 * n)

\* The rows of the window, bucket by bucket.
History(range) ==
  LET recent == {r \in snapshots : r.at + range.window > statTime}
      bucket(r) == r.at \div range.step
  IN  {LET rows == {r \in recent : bucket(r) = b}
       IN  [at |-> b * range.step,
            provTotal |-> RoundedMean([r \in rows |-> r.agg.provTotal]),
            provActive |-> RoundedMean([r \in rows |-> r.agg.provActive]),
            provBusy |-> RoundedMean([r \in rows |-> r.agg.provBusy]),
            offLive |-> RoundedMean([r \in rows |-> r.agg.offLive]),
            offBusy |-> RoundedMean([r \in rows |-> r.agg.offBusy])] :
         b \in {bucket(r) : r \in recent}}

-----------------------------------------------------------------------------
(* The market moves                                                        *)

Move == moves < MaxMoves /\ moves' = moves + 1 /\ UNCHANGED <<statTime, job, snapshots, blob, computes>>

Join(p) ==
  /\ Move /\ p \notin providers /\ providers' = providers \cup {p}
  /\ UNCHANGED <<offers, active, quote, flagged>>

\* A provider posts an offer; an offer ends, but its row stays.
PostOffer(o) ==
  /\ Move /\ OwnerOf[o] \in providers
  /\ o \notin offers /\ offers' = offers \cup {o} /\ active' = active \cup {o}
  /\ UNCHANGED <<providers, quote, flagged>>

EndOffer(o) ==
  /\ Move /\ o \in active /\ active' = active \ {o} /\ quote' = [quote EXCEPT ![o] = 0] /\ flagged' = flagged \ {o}
  /\ UNCHANGED <<providers, offers>>

\* A heartbeat, or the lapse of one.
Quote(o, c) ==
  /\ Move /\ c # quote[o] /\ (c # 0 => o \in active) /\ quote' = [quote EXCEPT ![o] = c]
  /\ UNCHANGED <<providers, offers, active, flagged>>

\* A flag may be set on an offer that is not live, and outlives its terms.
Flag(o) ==
  /\ Move /\ o \in active /\ flagged' = IF o \in flagged THEN flagged \ {o} ELSE flagged \cup {o}
  /\ UNCHANGED <<providers, offers, active, quote>>

StatTick ==
  /\ statTime < MaxStatTime /\ statTime' = statTime + 1
  /\ blob' = IF blob.until <= statTime + 1 THEN NoBlob ELSE blob
  /\ UNCHANGED <<world, computes, job, snapshots>>

StatsNext ==
  \/ StatTick
  \/ \E j \in Job :
       \/ \E kind \in {"sample", "get"} : Compute(j, kind)
       \/ ReadLive(j) \/ ReadActive(j) \/ ReadTotals(j) \/ ReadBusy(j) \/ ReadBusyOwners(j)
       \/ Sample(j) \/ Cache(j) \/ ComputeFails(j)
  \/ \E p \in Prov : Join(p)
  \/ \E o \in Offr : PostOffer(o) \/ EndOffer(o) \/ Flag(o) \/ \E c \in Cents \cup {0} : Quote(o, c)

StatsSpec == StatsInit /\ [][StatsNext]_statVars

-----------------------------------------------------------------------------
\* Numbers read at five moments of a moving market still fit together: what is
\* busy is part of what is live, live providers are registered, nothing is free
\* by clamping, the median lies between the extremes; and so do their rounded
\* means in the history.
Coherent(g) == g.provBusy <= g.provActive /\ g.provActive <= g.provTotal /\ g.offBusy <= g.offLive

AggregatesCoherent ==
  /\ \A g \in {r.agg : r \in snapshots} \cup (IF blob = NoBlob THEN {} ELSE {blob.agg}) :
       /\ Coherent(g) /\ g.provFree + g.provBusy = g.provActive
       /\ 2 * g.priceMin <= g.priceMed2 /\ g.priceMed2 <= 2 * g.priceMax
  /\ \A range \in Ranges : \A p \in History(range) : Coherent(p)
=============================================================================
