------------------------------ MODULE Paging ------------------------------
(***************************************************************************)
(* A client walks the pages of GET /v1/offers (query.ts).  The server      *)
(* keeps nothing between pages: the cursor carries the seed of the random  *)
(* order and an offset into a result that is computed anew, while offers   *)
(* come, go and change their price.                                        *)
(*                                                                         *)
(* Limits and offsets are counted in halves: limit is any number a client  *)
(* sends, not only an integer.                                             *)
(***************************************************************************)
EXTENDS Naturals, FiniteSets, Sequences, SequencesExt

CONSTANTS
  Item,            \* offers that may match the query, numbered by their id
  Cost,            \* prices; a matching offer without terms sorts as the dearest
  Seed,            \* seeds
  Rank,            \* [Seed -> [Item -> Nat]], the order of keccak(seed + id)
  Asked,           \* the limits clients send, in halves
  PageMax,         \* config.queryMaxLimit
  CandidatesMax,   \* config.queryMaxCandidates
  MaxChanges       \* bound: changes of the market during the walk

NoSeed == "none"

ASSUME PagingAssumption ==
  /\ Item \subseteq Nat /\ IsFiniteSet(Item) /\ Cost \subseteq Nat \ {0} /\ Asked \subseteq Nat
  /\ Rank \in [Seed -> [Item -> Nat]] /\ NoSeed \notin Seed
  /\ \A s \in Seed : \A i, j \in Item : i # j => Rank[s][i] # Rank[s][j]
  /\ PageMax \in Nat \ {0} /\ CandidatesMax \in Nat /\ MaxChanges \in Nat

VARIABLES
  stored,      \* the offers the select finds: unexpired, unrevoked, large enough
  shelf,       \* the price of each of them that also passes the filter on its live
               \* terms (fresh, cheap enough, not busy), 0 for any other offer
  walk,        \* the client: its query, the cursor it holds and what it got
  stayed,      \* history: the offers that matched throughout, unchanged
  left,        \* history: offers that left or moved during the walk
  entered,     \* history: offers that came or moved during the walk
  overfull     \* history: the select once found more than it returns

pagingVars == <<stored, shelf, walk, stayed, left, entered, overfull>>

\* What the query should return.
Present == {i \in Item : shelf[i] # 0}

PagingInit ==
  /\ stored \in SUBSET Item /\ shelf \in [Item -> Cost \cup {0}]
  /\ \E sort \in {"price", "random"}, asked \in Asked :
       walk = [pc |-> "walk", sort |-> sort, asked |-> asked, seed |-> NoSeed, off |-> 0, got |-> <<>>]
  /\ Present \subseteq stored /\ stayed = Present /\ left = 0 /\ entered = 0 /\ overfull = FALSE

-----------------------------------------------------------------------------
LimitOf(asked) ==
  LET atLeast == IF asked < 2 THEN 2 ELSE asked
  IN  IF atLeast > 2 * PageMax THEN 2 * PageMax ELSE atLeast

\* Ties are broken by id.
Precedes(sort, seed, i, j) ==
  CASE sort = "price" -> shelf[i] < shelf[j] \/ (shelf[i] = shelf[j] /\ i < j)
    [] sort = "random" -> Rank[seed][i] < Rank[seed][j]

\* enriched.sort.
Sorted(rows, sort, seed) ==
  CHOOSE s \in SetToSeqs(rows) : \A a, b \in DOMAIN s : a < b => Precedes(sort, seed, s[a], s[b])

\* slice truncates a fractional end.
Slice(s, from, to) == SubSeq(s, from \div 2 + 1, IF to \div 2 < Len(s) THEN to \div 2 ELSE Len(s))

SeedOfQuery == Seed   \* faulty: every page draws its own seed

\* The cursor's seed, or a fresh one.
SeedOf == IF walk.seed = NoSeed THEN Seed ELSE {walk.seed}

AtMost(k, most) == IF k < most THEN k ELSE most

\* One page.  The select has no order and stops at CandidatesMax rows; what their
\* live terms exclude is dropped from those rows afterwards.
NextPage ==
  /\ walk.pc = "walk" /\ walk.off % 2 = 0
  /\ \E seed \in SeedOf, candidates \in SUBSET stored :
       /\ Cardinality(candidates) = AtMost(Cardinality(stored), CandidatesMax)
       /\ LET sorted == Sorted(candidates \cap Present, walk.sort, seed)
              end == walk.off + LimitOf(walk.asked)
          IN  walk' = [walk EXCEPT !.got = @ \o Slice(sorted, walk.off, end), !.seed = seed,
                                   !.pc = IF end < 2 * Len(sorted) THEN "walk" ELSE "done", !.off = end]
  /\ overfull' = (overfull \/ Cardinality(stored) > CandidatesMax)
  /\ UNCHANGED <<stored, shelf, stayed, left, entered>>

\* parseCursor wants an integer offset.
CursorRefused ==
  /\ walk.pc = "walk" /\ walk.off % 2 # 0 /\ walk' = [walk EXCEPT !.pc = "refused"]
  /\ UNCHANGED <<stored, shelf, stayed, left, entered, overfull>>

\* An offer is posted or quoted, repriced, falls silent or is taken, or is gone
\* from the select, being revoked or expired.
Change(i) ==
  /\ walk.pc = "walk" /\ left + entered < MaxChanges
  /\ \E c \in Cost \cup {0}, S \in {stored \cup {i}, stored \ {i}} :
       /\ c # shelf[i] \/ S # stored
       /\ c # 0 => i \in S
       /\ shelf' = [shelf EXCEPT ![i] = c] /\ stored' = S
  /\ stayed' = stayed \ {i}
  /\ left' = IF shelf[i] # 0 THEN left + 1 ELSE left
  /\ entered' = IF shelf'[i] # 0 THEN entered + 1 ELSE entered
  /\ UNCHANGED <<walk, overfull>>

PagingNext == NextPage \/ CursorRefused \/ \E i \in Item : Change(i)

PagingSpec == PagingInit /\ [][PagingNext]_pagingVars

-----------------------------------------------------------------------------
\* "deterministic pagination": a walk to the end returns every offer that matched
\* throughout, once.  It misses at most one for each offer that left meanwhile and
\* repeats at most one for each that came, as long as the select never finds more
\* rows than it returns, stale, busy and too dear ones counted; and only a
\* fractional limit breaks it off.
WalkSound ==
  /\ walk.pc = "done" /\ ~ overfull =>
       /\ Cardinality(stayed \ ToSet(walk.got)) <= left
       /\ Len(walk.got) - Cardinality(ToSet(walk.got)) <= entered
  /\ walk.pc = "refused" => walk.asked % 2 = 1
=============================================================================
