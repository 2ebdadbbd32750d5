----------------------------- MODULE MCMarket -----------------------------
(***************************************************************************)
(* The rest of the registry's side in one run: the seed of the dummy       *)
(* market, the simulated market over it, the statistics, the rate limiter  *)
(* and the pages of a search.  The last four share no state here, so a     *)
(* behaviour is one of them with the others at rest.                       *)
(***************************************************************************)
EXTENDS SimMarket, Stats, RateLimit, Paging

VARIABLE part    \* the part this behaviour is about

partVars == <<part, marketVars, statVars, rlVars, pagingVars>>

StatsRests == StatsInit /\ providers = {}
PagingRests == PagingInit /\ stored = {} /\ walk.sort = "price" /\ walk.asked = 4

\* The requestors' behaviours leave to the seed's what only it can show: crashes
\* while seeding, heartbeats that Redis misses, and a second beating dummy.
LeftToSeed ==
  /\ crashes' # crashes => sim # "off"
  /\ \A p \in Dummy :
       /\ beat'[p] \notin {beat[p], NoValue} => seqOf'[p] = beat'[p].seq
       /\ beat[p] # NoValue /\ beat'[p] = NoValue /\ crashes' = crashes
            => termsOf'[p] = TermsWritten(beat[p])
  /\ seed.pc = "up" /\ seed'.pc = "up" => UNCHANGED <<beat[N], due[N]>>

\* The clock stops earlier for the seeder, and for behaviours in which jobs are
\* settled; real offers, which nobody hires, are left out of those.  It runs past
\* the end of a dummy's terms for those in which a single persona searches.
Seeds == clock' <= 3
Jobs == LeftToSeed /\ clock' <= 2 /\ UNCHANGED realTerms
OneSearcher == LeftToSeed /\ Cardinality(personas') <= 1 /\ settled' = settled

MCInit ==
  \/ part \in {"seed", "sim", "lapse"} /\ SimInit /\ StatsRests /\ RateInit /\ PagingRests
  \/ part = "stats" /\ SimInit /\ StatsInit /\ RateInit /\ PagingRests
  \/ part = "rate" /\ SimInit /\ StatsRests /\ RateInit /\ PagingRests
  \/ part = "paging" /\ SimInit /\ StatsRests /\ RateInit /\ PagingInit

MCNext ==
  \/ part = "seed" /\ SeedNext /\ Seeds /\ UNCHANGED <<part, simVars, statVars, rlVars, pagingVars>>
  \/ part = "sim" /\ MarketNext /\ Jobs /\ UNCHANGED <<part, statVars, rlVars, pagingVars>>
  \/ part = "lapse" /\ MarketNext /\ OneSearcher /\ UNCHANGED <<part, statVars, rlVars, pagingVars>>
  \/ part = "stats" /\ StatsNext /\ UNCHANGED <<part, marketVars, rlVars, pagingVars>>
  \/ part = "rate" /\ RateNext /\ UNCHANGED <<part, marketVars, statVars, pagingVars>>
  \/ part = "paging" /\ PagingNext /\ UNCHANGED <<part, marketVars, statVars, rlVars>>

MCSpec == MCInit /\ [][MCNext]_partVars

\* Personas differ in nothing the instance distinguishes, nor do request slots.
Sym == Permutations(Persona) \cup Permutations(Slot)

MCBehavior == <<"flaky", "offline", "steady">>
MCCeiling == [r \in Persona |-> 1]
MCFits == [r \in Persona |-> Market]

\* One range shows every row alone, the other averages two and forgets none.
MCRanges == {[window |-> 1, step |-> 1], [window |-> 2, step |-> 2]}

MCOwnerOf == [o \in Offr |-> IF o = 1 THEN "p1" ELSE "p2"]

\* Two seeds that order the items differently.
MCRank == [s \in Seed |-> [i \in Item |-> IF s = "s1" THEN i ELSE (5 * i) % 7]]
=============================================================================
