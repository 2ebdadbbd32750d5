---------------------------- MODULE MarketProofs ----------------------------
(***************************************************************************)
(* Proofs about the dummy market of dev-seed.ts (DevSeed) and about the    *)
(* simulated requestors over it (SimMarket), for every number of personas, *)
(* restarts and jobs.  The requestors' steps leave the seeder's state      *)
(* alone or are its own steps, so what is proved of DevSeed holds of both. *)
(* Then the market's numbers (Stats), for every number of computations,    *)
(* the rate limiter (RateLimit), for every number of requests, and the     *)
(* walk over the pages of a search (Paging), for every number of offers.   *)
(***************************************************************************)
EXTENDS SimMarket, Stats, RateLimit, Paging, SumTheorems, SequenceTheorems, TLAPS

-----------------------------------------------------------------------------
(* The seeder: the inductive invariant                                     *)

\* The persona at hand exists, and has its profile.
AtHand == seed.pc \in {"reuse", "attest", "offer"} => seed.p \in profiled

\* The round's `now` is in the past, and the counter started no lower.
RoundBegan ==
  /\ seed.pc # "down" => seed.at <= clock
  /\ seed.pc = "up" => seed.at <= counter

\* The seeder mints for a persona that has no live offer, and none appears meanwhile.
MintsForNone == seed.pc \in {"attest", "offer"} => LiveOffer(seed.p) = {}

\* An offer is stored after its attestation, and both for a persona with a profile.
OffersBacked ==
  /\ seed.pc = "offer" => [p |-> seed.p, at |-> seed.at] \in attested
  /\ offered \subseteq attested
  /\ \A o \in offered : o.p \in profiled

OneLive == \A p \in Dummy : \A a, b \in LiveOffer(p) : a = b

SeedInv == SeedTypeOK /\ AtHand /\ RoundBegan /\ MintsForNone /\ OffersBacked /\ OneLive

LEMMA SeedInvInit == SeedInit => SeedInv
<1> SUFFICES ASSUME SeedInit PROVE SeedInv
  OBVIOUS
<1>1. SeedTypeOK
  BY SeedAssumption DEF SeedInit, SeedTypeOK, Down
<1> QED BY <1>1 DEF SeedInit, SeedInv, AtHand, RoundBegan, MintsForNone, OffersBacked, OneLive,
           LiveOffer, Down

Seeder == [pc: {"down", "profile", "reuse", "attest", "offer", "up"}, p: Nat \ {0}, at: Nat]

LEMMA NextPersonaType ==
  ASSUME SeedTypeOK, NextPersona
  PROVE  seed' \in Seeder /\ seed'.pc = "profile" /\ seed'.at = seed.at
<1>1. seed \in Seeder
  BY DEF SeedTypeOK, Seeder
<1>2. seed.p + 1 \in Nat \ {0}
  BY <1>1 DEF Seeder
<1>3. seed' = [seed EXCEPT !.pc = "profile", !.p = seed.p + 1]
  BY <1>1 DEF NextPersona, Seeder
<1> QED BY <1>1, <1>2, <1>3 DEF Seeder

LEMMA SeedingStep ==
  ASSUME SeedInv, Seeding
  PROVE  SeedInv'
<1> USE DEF SeedInv
<1> USE SeedAssumption DEF loop, keys, tables
<1>1. CASE SeedStart
  <2>1. SeedTypeOK'
    BY <1>1 DEF SeedStart, SeedTypeOK
  <2> QED BY <1>1, <2>1 DEF SeedStart, SeedTypeOK, AtHand, RoundBegan, MintsForNone, OffersBacked,
             OneLive, LiveOffer
<1>2. CASE EnsureProfile
  <2>1. SeedTypeOK'
    BY <1>2 DEF EnsureProfile, SeedTypeOK
  <2> QED BY <1>2, <2>1 DEF EnsureProfile, SeedTypeOK, AtHand, RoundBegan, MintsForNone, OffersBacked,
             OneLive, LiveOffer
<1>3. CASE ReuseOffer
  <2>1. seed.p \in Dummy
    BY <1>3 DEF ReuseOffer, AtHand, SeedTypeOK
  <2>2. offerOf' \in [Dummy -> Nat \cup {NoValue}]
    BY <1>3, <2>1 DEF ReuseOffer, LiveOffer, SeedTypeOK, OfferRow
  <2>3. seed' \in Seeder
    <3>1. CASE NextPersona
      BY <3>1, NextPersonaType
    <3>2. CASE seed' = [seed EXCEPT !.pc = "attest"]
      BY <3>2 DEF SeedTypeOK, Seeder
    <3> QED BY <1>3, <3>1, <3>2 DEF ReuseOffer
  <2>4. SeedTypeOK'
    BY <1>3, <2>2, <2>3 DEF ReuseOffer, SeedTypeOK, Seeder
  <2>5. /\ seed'.at = seed.at
        /\ \/ seed'.pc = "profile"
           \/ seed'.pc = "attest" /\ seed'.p = seed.p /\ LiveOffer(seed.p) = {}
    BY <1>3 DEF ReuseOffer, NextPersona, SeedTypeOK
  <2>6. \A p \in Dummy : LiveOffer(p)' = LiveOffer(p)
    BY <1>3 DEF ReuseOffer, LiveOffer
  <2>7. MintsForNone'
    BY <2>1, <2>5, <2>6 DEF MintsForNone
  <2> QED BY <1>3, <2>4, <2>5, <2>6, <2>7 DEF ReuseOffer, AtHand, RoundBegan, OffersBacked, OneLive
<1>4. CASE MintAttestation
  <2>1. [p |-> seed.p, at |-> seed.at] \in OfferRow
    BY <1>4 DEF MintAttestation, AtHand, SeedTypeOK, OfferRow
  <2>2. SeedTypeOK'
    BY <1>4, <2>1 DEF MintAttestation, SeedTypeOK
  <2> QED BY <1>4, <2>2 DEF MintAttestation, SeedTypeOK, AtHand, RoundBegan, MintsForNone, OffersBacked,
             OneLive, LiveOffer
<1>5. CASE MintOffer
  <2> DEFINE o == [p |-> seed.p, at |-> seed.at]
  <2>1. o \in OfferRow /\ seed.p \in Dummy /\ seed.at \in Nat
    BY <1>5 DEF MintOffer, AtHand, SeedTypeOK, OfferRow
  <2>2. seed' \in Seeder /\ seed'.pc = "profile" /\ seed'.at = seed.at
    BY <1>5, NextPersonaType DEF MintOffer
  <2>3. SeedTypeOK'
    BY <1>5, <2>1, <2>2 DEF MintOffer, SeedTypeOK, Seeder
  <2>4. AtHand' /\ RoundBegan' /\ MintsForNone'
    BY <1>5, <2>2 DEF MintOffer, AtHand, RoundBegan, MintsForNone
  <2>5. OffersBacked'
    BY <1>5, <2>2 DEF MintOffer, OffersBacked, AtHand
  <2>6. LiveOffer(seed.p) = {}
    BY <1>5 DEF MintOffer, MintsForNone
  <2>7. offered' = offered \cup {o} /\ clock' = clock
    BY <1>5 DEF MintOffer
  <2>8. ASSUME NEW p \in Dummy, NEW a \in LiveOffer(p)', NEW b \in LiveOffer(p)' PROVE a = b
    BY <2>6, <2>7, <2>8 DEF LiveOffer, OneLive
  <2> QED BY <2>3, <2>4, <2>5, <2>8 DEF OneLive
<1>6. CASE StartBeating
  <2>1. SeedTypeOK'
    BY <1>6 DEF StartBeating, SeedTypeOK
  <2> QED BY <1>6, <2>1 DEF StartBeating, SeedTypeOK, AtHand, RoundBegan, MintsForNone, OffersBacked,
             OneLive, LiveOffer
<1> QED BY <1>1, <1>2, <1>3, <1>4, <1>5, <1>6 DEF Seeding

LEMMA BeatingStep ==
  ASSUME SeedInv, Beating
  PROVE  SeedInv'
<1> USE DEF SeedInv
<1> USE SeedAssumption DEF loop, keys, tables
<1> PICK p \in Dummy : Beat(p) \/ SkipBeat(p) \/ BeatTerms(p)
  BY DEF Beating
<1>1. CASE Beat(p)
  <2>1. PICK price \in Price :
          beat' = [beat EXCEPT ![p] = [seq |-> counter + 1, price |-> price, at |-> clock]]
    BY <1>1 DEF Beat
  <2>2. [seq |-> counter + 1, price |-> price, at |-> clock] \in Heartbeat
    BY DEF SeedTypeOK, Heartbeat
  <2>3. beat' \in [Dummy -> Heartbeat \cup {NoValue}]
    BY <2>1, <2>2 DEF SeedTypeOK
  <2>4. seqOf' \in [Dummy -> Nat \cup {NoValue}] /\ counter' \in Nat
    BY <1>1 DEF Beat, SeedTypeOK
  <2>5. SeedTypeOK'
    BY <1>1, <2>3, <2>4 DEF Beat, SeedTypeOK
  <2> QED BY <1>1, <2>5 DEF Beat, SeedTypeOK, AtHand, RoundBegan, MintsForNone, OffersBacked,
             OneLive, LiveOffer
<1>2. CASE SkipBeat(p)
  <2>1. SeedTypeOK'
    BY <1>2 DEF SkipBeat, SeedTypeOK
  <2> QED BY <1>2, <2>1 DEF SkipBeat, SeedTypeOK, AtHand, RoundBegan, MintsForNone, OffersBacked,
             OneLive, LiveOffer
<1>3. CASE BeatTerms(p)
  <2>1. beat[p] \in Heartbeat
    BY <1>3 DEF BeatTerms, SeedTypeOK
  <2>2. TermsWritten(beat[p]) \in DummyTerms
    BY <2>1 DEF TermsWritten, DummyTerms, Heartbeat, SeedTypeOK
  <2>3. termsOf' \in [Dummy -> DummyTerms \cup {NoValue}]
    BY <1>3, <2>2 DEF BeatTerms, SeedTypeOK
  <2>4. beat' \in [Dummy -> Heartbeat \cup {NoValue}] /\ due' \in [Dummy -> Nat \cup {NoValue}]
    BY <1>3 DEF BeatTerms, SeedTypeOK
  <2>5. SeedTypeOK'
    BY <1>3, <2>3, <2>4 DEF BeatTerms, SeedTypeOK
  <2> QED BY <1>3, <2>5 DEF BeatTerms, SeedTypeOK, AtHand, RoundBegan, MintsForNone, OffersBacked,
             OneLive, LiveOffer
<1> QED BY <1>1, <1>2, <1>3

LEMMA SeedInvNext == SeedInv /\ [SeedNext]_seedVars => SeedInv'
<1> SUFFICES ASSUME SeedInv, [SeedNext]_seedVars PROVE SeedInv'
  OBVIOUS
<1> USE DEF SeedInv
<1>1. CASE SeedCrash
  <2>1. SeedTypeOK'
    BY <1>1, SeedAssumption DEF SeedCrash, SeedForgets, Down, SeedTypeOK, tables, keys
  <2> QED BY <1>1, <2>1 DEF SeedCrash, SeedForgets, Down, tables, AtHand, RoundBegan, MintsForNone,
             OffersBacked, OneLive, LiveOffer
<1>2. CASE SeedTick
  <2>1. SeedTypeOK'
    BY <1>2 DEF SeedTick, SeedTypeOK, tables, loop
  <2>2. clock \in Nat /\ clock' = clock + 1 /\ offered' = offered /\ seed' = seed
    BY <1>2 DEF SeedTick, SeedTypeOK, tables
  <2>3. \A p : LiveOffer(p)' \subseteq LiveOffer(p)
    BY <2>2, SeedAssumption DEF LiveOffer, SeedTypeOK, OfferRow
  <2> QED BY <1>2, <2>1, <2>2, <2>3 DEF SeedTick, tables, loop, SeedTypeOK, AtHand, RoundBegan,
             MintsForNone, OffersBacked, OneLive
<1>3. CASE UNCHANGED seedVars
  BY <1>3 DEF seedVars, tables, loop, keys, SeedTypeOK, AtHand, RoundBegan, MintsForNone,
     OffersBacked, OneLive, LiveOffer
<1> QED BY <1>1, <1>2, <1>3, SeedingStep, BeatingStep DEF SeedNext

LEMMA OneLiveCounts == SeedInv => OneDummyOffer
<1> SUFFICES ASSUME SeedInv, NEW p \in Dummy PROVE Cardinality(LiveOffer(p)) <= 1
  BY DEF SeedInv, OffersBacked, OneDummyOffer
<1>1. CASE LiveOffer(p) = {}
  BY <1>1, FS_EmptySet
<1>2. CASE \E o : o \in LiveOffer(p)
  <2>1. PICK o : o \in LiveOffer(p)
    BY <1>2
  <2>2. LiveOffer(p) = {o}
    BY <2>1 DEF SeedInv, OneLive
  <2>3. Cardinality({o}) = 1
    BY FS_Singleton
  <2> QED BY <2>2, <2>3
<1> QED BY <1>1, <1>2

-----------------------------------------------------------------------------
(* The seeder: theorems                                                    *)

LEMMA SeedInvariant == SeedSpec => []SeedInv
BY SeedInvInit, SeedInvNext, PTL DEF SeedSpec

\* The seeder's state is well typed: in particular the keys its heartbeats write
\* past postTerms hold what postTerms would have accepted.
THEOREM SeedTypeCorrect == SeedSpec => []SeedTypeOK
<1>1. SeedInv => SeedTypeOK
  BY DEF SeedInv
<1> QED BY <1>1, SeedInvariant, PTL

\* ensureProvider is idempotent for every number of personas and of crashes
\* between its statements: never two live offers of one persona, and never an
\* offer before its attestation or without a profile.
THEOREM SeedingIdempotent == SeedSpec => []OneDummyOffer
BY OneLiveCounts, SeedInvariant, PTL

\* "seq must only ever grow, including across restarts" fails in one way only:
\* heartbeats had driven the stored seq past the wall clock before the restart.
THEOREM SeqOutrun == SeedSpec => SeqFallsOnlyWhenOutrun
<1> DEFINE A == \A p \in Dummy :
                  seqOf[p] # NoValue /\ seqOf'[p] # NoValue /\ seqOf'[p] < seqOf[p]
                    => seqOf[p] > seed.at + 1
<1>1. SeedInv /\ [SeedNext]_seedVars => [A]_seedVars
  <2> SUFFICES ASSUME SeedInv, SeedNext, NEW p \in Dummy,
                      seqOf[p] # NoValue, seqOf'[p] # NoValue, seqOf'[p] < seqOf[p]
               PROVE  seqOf[p] > seed.at + 1
    OBVIOUS
  <2>1. seqOf[p] \in Nat /\ seed.at \in Nat /\ counter \in Nat
    BY DEF SeedInv, SeedTypeOK
  <2>2. seqOf'[p] # seqOf[p]
    BY <2>1
  <2>3. seed.pc = "up" /\ seqOf'[p] = counter + 1
    <3>1. CASE Seeding
      BY <2>2, <3>1 DEF Seeding, SeedStart, EnsureProfile, ReuseOffer, MintAttestation, MintOffer,
         StartBeating, keys, SeedInv, SeedTypeOK
    <3>2. CASE Beating
      BY <2>2, <3>2 DEF Beating, Beat, SkipBeat, BeatTerms, keys, SeedInv, SeedTypeOK
    <3>3. CASE SeedCrash \/ SeedTick
      BY <2>2, <3>3 DEF SeedCrash, SeedTick, keys
    <3> QED BY <3>1, <3>2, <3>3 DEF SeedNext
  <2>4. seed.at <= counter
    BY <2>3 DEF SeedInv, RoundBegan
  <2> QED BY <2>1, <2>3, <2>4
<1> QED BY <1>1, SeedInvariant, PTL DEF SeedSpec, SeqFallsOnlyWhenOutrun

-----------------------------------------------------------------------------
(* The requestors: what they may find wrong                                *)

\* On the seeder's state a step of the market is a step of the seeder or none.
LEMMA MarketOnSeed ==
  ASSUME MarketNext
  PROVE  SeedNext \/ UNCHANGED seedVars
<1>1. CASE SimStep
  BY <1>1 DEF SimStep, SimStart, Loading, LoadTotals, LoadEarnings, LoadSpent, LoadFails, Search,
     ServeQuery, QueryFails, NoMatch, Settle, Hire, Insert, InsertFails, OrphanLands, OrphanDies, RealBeat
<1>2. CASE MarketTick
  BY <1>2 DEF MarketTick, SeedNext
<1>3. CASE MarketCrash
  BY <1>3 DEF MarketCrash, SeedCrash, SeedNext
<1>4. CASE (Seeding \/ Beating) /\ UNCHANGED simVars
  BY <1>4 DEF SeedNext
<1> QED BY <1>1, <1>2, <1>3, <1>4 DEF MarketNext

\* The simulated market implements the dummy market it runs on: searches, jobs
\* and settlements of startDevRequestors leave seeding and heartbeats as they are.
THEOREM MarketIsSeeded == MarketSpec => SeedSpec
<1>1. SimInit => SeedInit
  BY DEF SimInit
<1>2. [MarketNext]_marketVars => [SeedNext]_seedVars
  BY MarketOnSeed DEF marketVars
<1> QED BY <1>1, <1>2, PTL DEF MarketSpec, SeedSpec

RequestState ==
  {Idle} \cup [pc: {"query"}, at: Nat]
         \cup [pc: {"reply"}, at: Nat, items: SUBSET Items]
         \cup [pc: {"run"}, at: Nat, p: Dummy, cost: Price]

SearchType ==
  /\ req \in [Persona -> RequestState]
  /\ realTerms \in [RealOffer -> [price: RealPrice, until: Nat] \cup {NoValue}]

\* A persona that is offline never beats, so it has no terms to be found by.
OfflineSilent ==
  \A p \in Dummy : Behavior[p] = "offline" =>
    due[p] = NoValue /\ beat[p] = NoValue /\ termsOf[p] = NoValue

\* validUntil counts from the heartbeat, not from the write.
TermsFromBeat == \A p \in Dummy : termsOf[p] # NoValue => termsOf[p].until = termsOf[p].at + TermsValidity

Searching(r) == req[r].pc \in {"query", "reply"}
InTime == \A r \in Persona : Searching(r) => req[r].at <= clock /\ clock <= req[r].at + HttpDelay

\* Answers take less time than a heartbeat's validUntil has left when its key expires.
Prompt == TermsTtl + HttpDelay < TermsValidity

\* What the registry returned met the query, and a dummy's terms outlast a prompt answer.
SoundFor(r, i) ==
  /\ i.offer \in Fits[r] /\ i.price <= Ceiling[r]
  /\ i.offer \in Dummy => /\ i.price \in Price /\ Behavior[i.offer] # "offline"
                          /\ Prompt => req[r].at + HttpDelay < i.until
AnswersSound == \A r \in Persona : req[r].pc = "reply" => \A i \in req[r].items : SoundFor(r, i)

AlarmInv ==
  /\ SeedInv /\ SearchType /\ OfflineSilent /\ TermsFromBeat
  /\ InTime /\ AnswersSound /\ (Prompt => OnlyLapseAlarms)

LEMMA SilentStep ==
  ASSUME SeedInv, OfflineSilent, TermsFromBeat, SeedNext
  PROVE  OfflineSilent' /\ TermsFromBeat'
<1> USE DEF SeedInv, SeedTypeOK
<1> USE SeedAssumption DEF loop, keys, tables
<1>1. CASE MintOffer
  BY <1>1 DEF MintOffer, OfflineSilent, TermsFromBeat
<1>2. CASE StartBeating
  BY <1>2 DEF StartBeating, Scheduled, OfflineSilent, TermsFromBeat
<1>3. CASE SeedStart \/ EnsureProfile \/ ReuseOffer \/ MintAttestation
  <2>1. UNCHANGED <<due, beat, termsOf>>
    BY <1>3 DEF SeedStart, EnsureProfile, ReuseOffer, MintAttestation
  <2> QED BY <2>1 DEF OfflineSilent, TermsFromBeat
<1>4. ASSUME NEW p \in Dummy, Beat(p) \/ SkipBeat(p)
      PROVE  OfflineSilent' /\ TermsFromBeat'
  <2>1. Behavior[p] # "offline" /\ termsOf' = termsOf
    BY <1>4 DEF Beat, SkipBeat, OfflineSilent
  <2>2. \A q \in Dummy : q # p => beat'[q] = beat[q] /\ due'[q] = due[q]
    BY <1>4 DEF Beat, SkipBeat
  <2> QED BY <2>1, <2>2 DEF OfflineSilent, TermsFromBeat
<1>5. ASSUME NEW p \in Dummy, BeatTerms(p)
      PROVE  OfflineSilent' /\ TermsFromBeat'
  <2>1. Behavior[p] # "offline" /\ beat[p] \in Heartbeat
    BY <1>5 DEF BeatTerms, OfflineSilent
  <2>2. \A q \in Dummy : q # p => beat'[q] = beat[q] /\ due'[q] = due[q] /\ termsOf'[q] = termsOf[q]
    BY <1>5 DEF BeatTerms
  <2>3. termsOf'[p] = termsOf[p] \/ termsOf'[p].until = termsOf'[p].at + TermsValidity
    BY <1>5, <2>1 DEF BeatTerms, TermsWritten
  <2> QED BY <2>1, <2>2, <2>3 DEF OfflineSilent, TermsFromBeat
<1>6. CASE SeedCrash
  BY <1>6 DEF SeedCrash, SeedForgets, OfflineSilent, TermsFromBeat
<1>7. CASE SeedTick
  <2>1. UNCHANGED <<due, beat>>
    BY <1>7 DEF SeedTick
  <2>2. ASSUME NEW p \in Dummy PROVE termsOf'[p] = NoValue \/ termsOf'[p] = termsOf[p]
    BY <1>7 DEF SeedTick
  <2> QED BY <2>1, <2>2 DEF OfflineSilent, TermsFromBeat
<1> QED BY <1>1, <1>2, <1>3, <1>4, <1>5, <1>6, <1>7 DEF SeedNext, Seeding, Beating

\* Every answer is sound when it is given.
LEMMA ServedSound ==
  ASSUME AlarmInv, NEW r \in Persona, req[r].pc = "query", NEW i \in Served(r), Matches(r, i)
  PROVE  i \in Items /\ SoundFor(r, i)
<1> USE DEF AlarmInv
<1>1. i.offer \in Fits[r] /\ i.price <= Ceiling[r]
  BY DEF Matches, Wanted
<1>2. CASE \E p \in Dummy : /\ termsOf[p] # NoValue /\ clock - termsOf[p].at <= TermsTtl
                            /\ i = [offer |-> p, price |-> termsOf[p].price, until |-> termsOf[p].until]
  <2>1. PICK p \in Dummy : /\ termsOf[p] # NoValue /\ clock - termsOf[p].at <= TermsTtl
                           /\ i = [offer |-> p, price |-> termsOf[p].price, until |-> termsOf[p].until]
    BY <1>2
  <2>2. termsOf[p] \in DummyTerms /\ clock \in Nat
    BY <2>1 DEF SeedInv, SeedTypeOK
  <2>3. i \in Items /\ i.offer = p /\ i.price \in Price /\ i.until = termsOf[p].at + TermsValidity
    BY <2>1, <2>2 DEF Items, Market, DummyTerms, TermsFromBeat
  <2>4. Behavior[p] # "offline"
    BY <2>1 DEF OfflineSilent
  <2>5. req[r].at \in Nat /\ req[r].at <= clock
    BY DEF InTime, Searching, SearchType, RequestState, Idle
  <2>6. Prompt => req[r].at + HttpDelay < i.until
    BY <2>1, <2>2, <2>3, <2>5, SeedAssumption, SimAssumption DEF DummyTerms, Prompt
  <2> QED BY <1>1, <2>3, <2>4, <2>6 DEF SoundFor
<1>3. CASE \E o \in RealOffer : /\ realTerms[o] # NoValue
                                /\ i = [offer |-> o, price |-> realTerms[o].price, until |-> realTerms[o].until]
  <2>1. PICK o \in RealOffer : /\ realTerms[o] # NoValue
                               /\ i = [offer |-> o, price |-> realTerms[o].price, until |-> realTerms[o].until]
    BY <1>3
  <2>2. realTerms[o] \in [price: RealPrice, until: Nat]
    BY <2>1 DEF SearchType
  <2>3. i \in Items /\ i.offer = o /\ o \notin Dummy
    BY <2>1, <2>2, SimAssumption DEF Items, Market
  <2> QED BY <1>1, <2>3 DEF SoundFor
<1> QED BY <1>2, <1>3 DEF Served

\* Nothing found in a sound answer is a defect, but a real offer that has lapsed.
LEMMA AlarmsRight ==
  ASSUME Prompt, AlarmInv, NEW r \in Persona, req[r].pc = "reply"
  PROVE  /\ \A b \in Defects(r) : b.what = "expired" /\ b.offer \in RealOffer
         /\ \A S \in SUBSET Candidates(r) : Offline(r, S) = {}
<1> USE DEF AlarmInv
<1>1. req[r].at \in Nat /\ req[r].items \subseteq Items /\ clock \in Nat /\ clock <= req[r].at + HttpDelay
  BY DEF InTime, Searching, SearchType, RequestState, Idle, SeedInv, SeedTypeOK
<1>2. ASSUME NEW i \in req[r].items, Defect(r, i) # "none"
      PROVE  Defect(r, i) = "expired" /\ i.offer \in RealOffer
  <2>1. SoundFor(r, i) /\ i \in Items
    BY <1>1 DEF AnswersSound
  <2>2. i.until \in Nat /\ i.offer \in Market /\ i.price \in Nat /\ Ceiling[r] \in Nat
    BY <2>1, SeedAssumption, SimAssumption DEF Items
  <2>3. i.until <= clock
    BY <1>2, <2>1, <2>2 DEF Defect, Wanted, SoundFor
  <2>4. Defect(r, i) = "expired"
    BY <1>1, <2>2, <2>3 DEF Defect
  <2>5. i.offer \notin Dummy
    BY <1>1, <2>1, <2>2, <2>3, SimAssumption DEF SoundFor
  <2> QED BY <2>2, <2>4, <2>5 DEF Market
<1>3. \A b \in Defects(r) : b.what = "expired" /\ b.offer \in RealOffer
  BY <1>2 DEF Defects
<1>4. \A i \in Candidates(r) : Behavior[i.offer] # "offline"
  BY DEF Candidates, AnswersSound, SoundFor
<1> QED BY <1>3, <1>4 DEF Offline

\* A step that moves one persona's search and no clock.
LEMMA OneSearch ==
  ASSUME AlarmInv, NEW r \in Persona, NEW e \in RequestState,
         req' = [req EXCEPT ![r] = e], UNCHANGED <<seedVars, realTerms>>,
         e.pc \in {"query", "reply"} => e.at <= clock /\ clock <= e.at + HttpDelay,
         e.pc = "reply" => \A i \in e.items : SoundFor(r, i) /\ req[r].at = e.at
  PROVE  SeedInv' /\ SearchType' /\ OfflineSilent' /\ TermsFromBeat' /\ InTime' /\ AnswersSound'
<1> USE DEF AlarmInv
<1>1. SeedInv' /\ OfflineSilent' /\ TermsFromBeat'
  BY SeedInvNext DEF seedVars, loop, keys, OfflineSilent, TermsFromBeat
<1>2. SearchType'
  BY DEF SearchType
<1>3. req'[r] = e /\ \A q \in Persona : q # r => req'[q] = req[q]
  BY DEF SearchType
<1>4. clock' = clock
  BY DEF seedVars
<1>5. InTime'
  BY <1>3, <1>4 DEF InTime, Searching
<1>6. ASSUME NEW q \in Persona, req'[q].pc = "reply", NEW i \in req'[q].items PROVE SoundFor(q, i)'
  <2>1. CASE q = r
    BY <1>3, <1>6, <2>1 DEF SoundFor
  <2>2. CASE q # r
    BY <1>3, <1>6, <2>2 DEF SoundFor, AnswersSound
  <2> QED BY <2>1, <2>2
<1>7. AnswersSound'
  BY <1>6 DEF AnswersSound
<1> QED BY <1>1, <1>2, <1>5, <1>7

\* A step that moves no search and no clock.
LEMMA NoSearch ==
  ASSUME AlarmInv, [SeedNext]_seedVars, UNCHANGED <<clock, req, bugs>>, SearchType'
  PROVE  AlarmInv'
<1> USE DEF AlarmInv
<1>1. SeedInv' /\ OfflineSilent' /\ TermsFromBeat'
  BY SeedInvNext, SilentStep DEF seedVars, loop, keys, OfflineSilent, TermsFromBeat
<1>2. InTime' /\ AnswersSound' /\ (Prompt => OnlyLapseAlarms')
  BY DEF InTime, Searching, AnswersSound, SoundFor, OnlyLapseAlarms
<1> QED BY <1>1, <1>2

LEMMA SearchStep ==
  ASSUME AlarmInv, NEW r \in Persona,
         \/ Search(r) \/ ServeQuery(r) \/ QueryFails(r) \/ NoMatch(r) \/ Settle(r)
         \/ req[r].pc = "reply" /\ \E i \in req[r].items : Hire(r, i)
  PROVE  AlarmInv'
<1> USE DEF AlarmInv
<1>0. clock \in Nat
  BY DEF SeedInv, SeedTypeOK
<1>1. CASE Search(r)
  <2> DEFINE e == [pc |-> "query", at |-> clock]
  <2>1. e \in RequestState
    BY <1>0 DEF RequestState
  <2>2. /\ req' = [req EXCEPT ![r] = e] /\ UNCHANGED <<seedVars, realTerms, bugs>>
        /\ e.at <= clock /\ clock <= e.at + HttpDelay /\ e.pc # "reply"
    BY <1>0, <1>1, SimAssumption DEF Search
  <2> HIDE DEF e
  <2>3. SeedInv' /\ SearchType' /\ OfflineSilent' /\ TermsFromBeat' /\ InTime' /\ AnswersSound'
    BY <2>1, <2>2, OneSearch
  <2> QED BY <2>2, <2>3 DEF OnlyLapseAlarms
<1>2. CASE ServeQuery(r)
  <2> DEFINE e == [pc |-> "reply", at |-> req[r].at, items |-> {i \in Served(r) : Matches(r, i)}]
  <2>1. req[r].pc = "query" /\ req[r].at \in Nat /\ req[r].at <= clock /\ clock <= req[r].at + HttpDelay
    BY <1>2 DEF ServeQuery, InTime, Searching, SearchType, RequestState, Idle
  <2>2. \A i \in e.items : i \in Items /\ SoundFor(r, i)
    BY <2>1, ServedSound
  <2>3. e \in RequestState
    BY <2>1, <2>2 DEF RequestState
  <2>4. /\ req' = [req EXCEPT ![r] = e] /\ UNCHANGED <<seedVars, realTerms, bugs>>
        /\ e.at = req[r].at
    BY <1>2 DEF ServeQuery
  <2> HIDE DEF e
  <2>5. SeedInv' /\ SearchType' /\ OfflineSilent' /\ TermsFromBeat' /\ InTime' /\ AnswersSound'
    BY <2>1, <2>2, <2>3, <2>4, OneSearch
  <2> QED BY <2>4, <2>5 DEF OnlyLapseAlarms
<1>3. CASE QueryFails(r) \/ Settle(r) \/ NoMatch(r)
  <2>1. /\ req' = [req EXCEPT ![r] = Idle] /\ UNCHANGED <<seedVars, realTerms>>
        /\ Idle \in RequestState /\ Idle.pc = "idle"
    BY <1>3 DEF QueryFails, Settle, NoMatch, Idle, RequestState
  <2>2. SeedInv' /\ SearchType' /\ OfflineSilent' /\ TermsFromBeat' /\ InTime' /\ AnswersSound'
    BY <2>1, OneSearch
  <2>3. CASE NoMatch(r)
    <3>1. req[r].pc = "reply" /\ bugs' = bugs \cup Defects(r) \cup Offline(r, Probed(r))
      BY <2>3 DEF NoMatch
    <3>2. Probed(r) \subseteq Candidates(r)
      BY DEF Probed
    <3>3. Prompt => OnlyLapseAlarms'
      BY <3>1, <3>2, AlarmsRight DEF OnlyLapseAlarms
    <3> QED BY <2>2, <3>3
  <2>4. CASE QueryFails(r) \/ Settle(r)
    BY <2>2, <2>4 DEF QueryFails, Settle, OnlyLapseAlarms
  <2> QED BY <1>3, <2>3, <2>4
<1>4. ASSUME req[r].pc = "reply", NEW i \in req[r].items, Hire(r, i) PROVE AlarmInv'
  <2> DEFINE e == [pc |-> "run", at |-> clock, p |-> i.offer, cost |-> i.price]
  <2>1. i \in Candidates(r) /\ Probed(r) \subseteq Candidates(r)
    BY <1>4 DEF Hire, Probed
  <2>2. e \in RequestState
    BY <1>0, <1>4, <2>1 DEF Candidates, AnswersSound, SoundFor, RequestState
  <2>3. /\ req' = [req EXCEPT ![r] = e] /\ UNCHANGED <<seedVars, realTerms>> /\ e.pc = "run"
        /\ bugs' = bugs \cup Defects(r) \cup Offline(r, {j \in Probed(r) : Before(r, j, i)})
    BY <1>4 DEF Hire
  <2> HIDE DEF e
  <2>4. SeedInv' /\ SearchType' /\ OfflineSilent' /\ TermsFromBeat' /\ InTime' /\ AnswersSound'
    BY <2>2, <2>3, OneSearch
  <2>5. Prompt => OnlyLapseAlarms'
    BY <1>4, <2>1, <2>3, AlarmsRight DEF OnlyLapseAlarms
  <2> QED BY <2>4, <2>5
<1> QED BY <1>1, <1>2, <1>3, <1>4

LEMMA AlarmInvNext ==
  ASSUME AlarmInv, [MarketNext]_marketVars
  PROVE  AlarmInv'
<1> USE DEF AlarmInv
<1>1. CASE \/ SimStart \/ Loading \/ (\E row \in inserts : Insert(row) \/ InsertFails(row))
           \/ \E row \in orphans : OrphanLands(row) \/ OrphanDies(row)
  <2>1. UNCHANGED <<seedVars, req, realTerms, bugs>>
    BY <1>1 DEF SimStart, Loading, LoadTotals, LoadEarnings, LoadSpent, LoadFails, Insert, InsertFails,
       OrphanLands, OrphanDies
  <2>2. SearchType' /\ clock' = clock
    BY <2>1 DEF SearchType, seedVars
  <2> QED BY <2>1, <2>2, NoSearch
<1>2. ASSUME NEW o \in RealOffer, RealBeat(o) PROVE AlarmInv'
  <2>1. UNCHANGED <<seedVars, req, bugs>>
    BY <1>2 DEF RealBeat
  <2>2. PICK price \in RealPrice, d \in 1..TermsTtl :
          realTerms' = [realTerms EXCEPT ![o] = [price |-> price, until |-> clock + d]]
    BY <1>2 DEF RealBeat
  <2>3. clock + d \in Nat
    BY SeedAssumption DEF SeedInv, SeedTypeOK
  <2>4. SearchType' /\ clock' = clock
    BY <2>1, <2>2, <2>3 DEF SearchType, seedVars
  <2> QED BY <2>1, <2>4, NoSearch
<1>3. CASE MarketTick
  <2>1. SeedTick /\ UNCHANGED <<req, bugs>> /\ clock' = clock + 1 /\ clock \in Nat
    BY <1>3 DEF MarketTick, SeedTick, SeedInv, SeedTypeOK
  <2>2. SeedInv' /\ OfflineSilent' /\ TermsFromBeat'
    BY <2>1, SeedInvNext, SilentStep DEF SeedNext
  <2>3. SearchType'
    BY <1>3, <2>1 DEF MarketTick, SearchType
  <2>4. \A r \in Persona : Searching(r) => clock < req[r].at + HttpDelay /\ req[r].at \in Nat
    BY <1>3 DEF MarketTick, Searching, SearchType, RequestState, Idle
  <2>5. InTime'
    BY <2>1, <2>4, SimAssumption DEF InTime, Searching
  <2>6. AnswersSound' /\ (Prompt => OnlyLapseAlarms')
    BY <2>1 DEF AnswersSound, SoundFor, OnlyLapseAlarms
  <2> QED BY <2>2, <2>3, <2>5, <2>6
<1>4. CASE MarketCrash
  <2>1. SeedCrash /\ req' = [r \in Persona |-> Idle] /\ UNCHANGED <<bugs, realTerms>>
    BY <1>4 DEF MarketCrash, SeedCrash
  <2>2. SeedInv' /\ OfflineSilent' /\ TermsFromBeat'
    BY <2>1, SeedInvNext, SilentStep DEF SeedNext
  <2> QED BY <2>1, <2>2 DEF SearchType, RequestState, Idle, InTime, Searching, AnswersSound, OnlyLapseAlarms
<1>5. CASE (Seeding \/ Beating) /\ UNCHANGED simVars
  <2>1. SeedNext /\ UNCHANGED <<req, realTerms, bugs>>
    BY <1>5 DEF SeedNext, simVars
  <2>2. clock' = clock
    BY <1>5 DEF Seeding, SeedStart, EnsureProfile, ReuseOffer, MintAttestation, MintOffer, StartBeating,
       Beating, Beat, SkipBeat, BeatTerms
  <2> QED BY <2>1, <2>2, NoSearch DEF SearchType
<1>6. CASE UNCHANGED marketVars
  <2>1. UNCHANGED <<seedVars, req, realTerms, bugs>>
    BY <1>6 DEF marketVars, simVars
  <2> QED BY <2>1, NoSearch DEF SearchType, seedVars
<1> QED BY <1>1, <1>2, <1>3, <1>4, <1>5, <1>6, SearchStep DEF MarketNext, SimStep

LEMMA AlarmInvariant == MarketSpec => []AlarmInv
<1>1. SimInit => AlarmInv
  <2> SUFFICES ASSUME SimInit PROVE AlarmInv
    OBVIOUS
  <2>1. SeedInv
    BY SeedInvInit DEF SimInit
  <2> QED BY <2>1 DEF SimInit, SeedInit, AlarmInv, SearchType, RequestState, Idle, OfflineSilent,
             TermsFromBeat, InTime, Searching, AnswersSound, OnlyLapseAlarms
<1>2. AlarmInv /\ [MarketNext]_marketVars => AlarmInv'
  BY AlarmInvNext
<1> QED BY <1>1, <1>2, PTL DEF MarketSpec

\* verifyOfferItem and the probes of dev-requestors.ts raise no false BUG about a
\* dummy: as long as an answer takes less time than a heartbeat's validUntil has
\* left when its key expires (validUntil is ten minutes, the key one), the only
\* alarm is a real provider's terms that lapsed on the way.
THEOREM AlarmsAreLapses ==
  ASSUME TermsTtl + HttpDelay < TermsValidity
  PROVE  MarketSpec => []OnlyLapseAlarms
<1>1. AlarmInv => OnlyLapseAlarms
  BY DEF AlarmInv, Prompt
<1> QED BY <1>1, AlarmInvariant, PTL
-----------------------------------------------------------------------------
(* The books                                                               *)

BookType ==
  /\ sim \in {"off", "totals", "earnings", "spent", "on"} /\ personas \subseteq Persona
  /\ spent \in [Persona -> Nat] /\ earned \in [Dummy -> Nat] /\ total \in Nat
  /\ ledger \subseteq LedgerRow /\ IsFiniteSet(ledger)
  /\ inserts \subseteq LedgerRow /\ IsFiniteSet(inserts)
  /\ orphans \subseteq LedgerRow /\ IsFiniteSet(orphans) /\ unread \subseteq ledger
  /\ settled \in Nat /\ lost \in Nat /\ unseen \in Nat

\* Row ids are handed out once, and a row is on its way or stored, not both.
RowsApart ==
  /\ ledger \cap inserts = {} /\ ledger \cap orphans = {} /\ inserts \cap orphans = {}
  /\ \A row \in ledger \cup inserts \cup orphans : row.id < settled

\* Only personas of this run search, and only theirs are the rows on their way.
OwnActivity ==
  /\ \A r \in Persona : req[r].pc # "idle" => sim = "on" /\ r \in personas
  /\ \A row \in inserts : sim = "on" /\ row.r \in personas

\* Before the requestors run, the books are as far as loadFromLedger has come.
Loaded ==
  /\ sim # "on" => unseen = 0 /\ spent = Nothing /\ unread = {}
  /\ whole /\ sim \in {"earnings", "spent"} => total = CostOf(ledger)
  /\ whole /\ sim = "spent" => earned = [p \in Dummy |-> CostOf({row \in ledger : row.p = p})]

BookInv == BookType /\ RowsApart /\ OwnActivity /\ Loaded /\ BooksBalance /\ LedgerBacked

PriceOf == [row \in LedgerRow |-> row.cost]

LEMMA CostIsTotal ==
  ASSUME NEW S \in SUBSET LedgerRow, IsFiniteSet(S)
  PROVE  CostOf(S) = Total(S, PriceOf)
<1> DEFINE Sums(g) == g = [s \in SUBSET S |-> IF s = {} THEN 0
                                             ELSE (CHOOSE x \in s : TRUE).cost + g[s \ {CHOOSE x \in s : TRUE}]]
<1> DEFINE iter == CHOOSE g : Sums(g)
<1>1. CostOf(S) = iter[S]
  BY DEF CostOf, MapThenSumSet, MapThenFoldSet
<1>2. \A s \in SUBSET S : s # {} => PriceOf[Pick(s)] = (CHOOSE x \in s : TRUE).cost
  BY DEF PriceOf, Pick
<1>3. \A g : Sums(g) <=> SumFn(g, S, PriceOf)
  BY <1>2 DEF SumFn, Pick
<1>4. \E g : SumFn(g, S, PriceOf)
  BY SumExists
<1> HIDE DEF Sums
<1>5. Sums(iter)
  BY <1>3, <1>4
<1> HIDE DEF iter
<1>6. SumFn(iter, S, PriceOf)
  BY <1>3, <1>5
<1>7. iter[S] = Total(S, PriceOf)
  BY <1>6, SumIsTotal
<1> QED BY <1>1, <1>7

\* What rows cost: a natural number, the sum of the parts, and of the keys.
LEMMA CostType ==
  ASSUME NEW S \in SUBSET LedgerRow, IsFiniteSet(S)
  PROVE  CostOf(S) \in Nat /\ \A row \in S : row.cost \in Nat /\ PriceOf[row] = row.cost
<1>1. \A row \in S : row.cost \in Nat /\ PriceOf[row] = row.cost
  BY SeedAssumption DEF LedgerRow, PriceOf
<1>2. CostOf(S) = Total(S, PriceOf) /\ Total(S, PriceOf) \in Nat
  BY <1>1, CostIsTotal, TotalType
<1> QED BY <1>1, <1>2

LEMMA CostEmpty == CostOf({}) = 0
BY CostIsTotal, TotalEmpty, FS_EmptySet

LEMMA CostAdd ==
  ASSUME NEW S \in SUBSET LedgerRow, IsFiniteSet(S), NEW row \in LedgerRow, row \notin S
  PROVE  CostOf(S \cup {row}) = CostOf(S) + row.cost
<1>1. IsFiniteSet(S \cup {row}) /\ S \cup {row} \in SUBSET LedgerRow
  BY FS_AddElement
<1>2. \A x \in S \cup {row} : PriceOf[x] \in Nat
  BY <1>1, CostType
<1>3. Total(S \cup {row}, PriceOf) = Total(S, PriceOf) + PriceOf[row]
  BY <1>2, TotalAdd
<1>4. CostOf(S \cup {row}) = Total(S \cup {row}, PriceOf) /\ CostOf(S) = Total(S, PriceOf)
  BY <1>1, CostIsTotal
<1> QED BY <1>3, <1>4 DEF PriceOf

LEMMA CostRemove ==
  ASSUME NEW S \in SUBSET LedgerRow, IsFiniteSet(S), NEW row \in S
  PROVE  CostOf(S) = CostOf(S \ {row}) + row.cost
<1>1. IsFiniteSet(S \ {row}) /\ S \ {row} \in SUBSET LedgerRow /\ row \in LedgerRow
  BY FS_RemoveElement
<1>2. CostOf((S \ {row}) \cup {row}) = CostOf(S \ {row}) + row.cost
  BY <1>1, CostAdd
<1> QED BY <1>2

Absent == {row \in Known : row.r \notin personas}

\* BooksBalance in terms of Total.
Balanced ==
  sim = "on" /\ whole =>
    /\ total = Total(Dummy, earned)
    /\ total = Total(personas, spent) + CostOf(Absent)

LEMMA DummiesFinite == IsFiniteSet(Dummy)
BY SeedAssumption, FS_Interval DEF Dummy

LEMMA SubsetsFinite ==
  ASSUME BookType
  PROVE  /\ IsFiniteSet(personas)
         /\ Known \in SUBSET LedgerRow /\ IsFiniteSet(Known)
         /\ Absent \in SUBSET LedgerRow /\ IsFiniteSet(Absent)
BY SimAssumption, FS_Subset DEF BookType, Absent, Known

LEMMA BooksAreTotals == BookType => (BooksBalance <=> Balanced)
<1> SUFFICES ASSUME BookType PROVE BooksBalance <=> Balanced
  OBVIOUS
<1>1. MapThenSumSet(LAMBDA p : earned[p], Dummy) = Total(Dummy, earned)
  BY DummiesFinite, SumOfFunction
<1>2. MapThenSumSet(LAMBDA r : spent[r], personas) = Total(personas, spent)
  BY SubsetsFinite, SumOfFunction
<1> QED BY <1>1, <1>2 DEF BooksBalance, Balanced, Absent

LEMMA BooksAreTotalsNext == BookType' => (BooksBalance' <=> Balanced')
<1> SUFFICES ASSUME BookType' PROVE BooksBalance' <=> Balanced'
  OBVIOUS
<1>1. MapThenSumSet(LAMBDA p : earned'[p], Dummy) = Total(Dummy, earned')
  BY DummiesFinite, SumOfFunction
<1>2. MapThenSumSet(LAMBDA r : spent'[r], personas') = Total(personas', spent')
  BY SimAssumption, FS_Subset, SumOfFunction DEF BookType
<1> QED BY <1>1, <1>2 DEF BooksBalance, Balanced, Absent, MapThenSumSet, MapThenFoldSet

\* A step of a search, or of something else than the requestors.
LEMMA BookQuiet ==
  ASSUME BookInv, UNCHANGED <<sim, personas, books, rows, whole>>,
         \A r \in Persona : req'[r].pc # "idle" => sim = "on" /\ r \in personas
  PROVE  BookInv'
<1> USE DEF BookInv, books, rows
<1>1. BookType' /\ RowsApart' /\ OwnActivity' /\ LedgerBacked'
  BY DEF BookType, RowsApart, OwnActivity, LedgerBacked, Known
<1>2. Loaded'
  BY DEF Loaded
<1>3. Balanced'
  BY BooksAreTotals DEF Balanced, Absent, Known
<1> QED BY <1>1, <1>2, <1>3, BooksAreTotalsNext

\* settleJob moves both sides of the books, the totals and one row of the ledger.
LEMMA BookSettle ==
  ASSUME BookInv, SearchType, NEW r \in Persona, Settle(r)
  PROVE  BookInv'
<1> USE DEF BookInv
<1> DEFINE c == req[r].cost
<1> DEFINE p == req[r].p
<1> DEFINE row == [id |-> settled, r |-> r, p |-> p, cost |-> c]
<1>1. req[r].pc = "run" /\ c \in Price /\ c \in Nat /\ p \in Dummy
  <2>1. req[r].pc = "run" /\ req[r] \in RequestState
    BY DEF Settle, SearchType
  <2>2. req[r] \in [pc: {"run"}, at: Nat, p: Dummy, cost: Price]
    BY <2>1 DEF RequestState, Idle
  <2> QED BY <2>1, <2>2, SeedAssumption
<1>2. sim = "on" /\ r \in personas
  BY <1>1 DEF OwnActivity
<1>3. /\ spent' = [spent EXCEPT ![r] = @ + c] /\ total' = total + c
      /\ earned' = [earned EXCEPT ![p] = @ + c] /\ settled' = settled + 1
      /\ inserts' = inserts \cup {row} /\ req' = [req EXCEPT ![r] = Idle]
      /\ UNCHANGED <<sim, personas, ledger, orphans, unread, lost, unseen, whole>>
  BY DEF Settle, Credit
<1>4. row \in LedgerRow /\ row \notin ledger \cup inserts \cup orphans /\ row.cost = c /\ row.r = r /\ row.id = settled
  BY <1>1 DEF LedgerRow, RowsApart, BookType
<1> HIDE DEF c, p, row
<1>5. IsFiniteSet(inserts') /\ Cardinality(inserts') = Cardinality(inserts) + 1
  BY <1>3, <1>4, FS_AddElement DEF BookType
<1>6. BookType'
  BY <1>1, <1>3, <1>4, <1>5 DEF BookType
<1>7. RowsApart' /\ OwnActivity'
  <2>1. RowsApart'
    BY <1>3, <1>4 DEF RowsApart, BookType, LedgerRow
  <2>2. \A q \in Persona : req'[q].pc # "idle" => req[q].pc # "idle"
    BY <1>3 DEF Idle, SearchType
  <2> QED BY <1>2, <1>3, <1>4, <2>1, <2>2 DEF OwnActivity
<1>8. Loaded'
  BY <1>2, <1>3 DEF Loaded
<1>9. Balanced'
  <2>1. Total(Dummy, earned') = Total(Dummy, earned) + c
    <3>1. earned'[p] = earned[p] + c /\ \A q \in Dummy \ {p} : earned[q] = earned'[q]
      BY <1>1, <1>3 DEF BookType
    <3>2. \A q \in Dummy : earned[q] \in Nat
      BY DEF BookType
    <3> QED BY <1>1, <3>1, <3>2, DummiesFinite, TotalUpdate
  <2>2. Total(personas, spent') = Total(personas, spent) + c /\ Total(personas, spent) \in Nat
    <3>1. spent'[r] = spent[r] + c /\ \A q \in personas \ {r} : spent[q] = spent'[q]
      BY <1>3 DEF BookType
    <3>2. IsFiniteSet(personas) /\ \A q \in personas : spent[q] \in Nat
      BY SubsetsFinite DEF BookType
    <3> QED BY <1>1, <1>2, <3>1, <3>2, TotalUpdate, TotalType
  <2>3. CostOf(Absent) \in Nat /\ Absent' = Absent
    BY <1>3, SubsetsFinite, CostType DEF Absent, Known
  <2> QED BY <1>1, <1>3, <2>1, <2>2, <2>3, BooksAreTotals DEF Balanced, BookType
<1>10. LedgerBacked'
  <2>1. CostOf(inserts') = CostOf(inserts) + c
    BY <1>3, <1>4, CostAdd DEF BookType
  <2>2. CostOf(inserts) \in Nat /\ CostOf(Known) \in Nat /\ Known' = Known
    BY <1>3, SubsetsFinite, CostType DEF BookType, Known
  <2>3. Cardinality(ledger) \in Nat /\ Cardinality(inserts) \in Nat /\ Cardinality(orphans) \in Nat
    BY FS_CardinalityType DEF BookType
  <2>4. Cardinality(ledger') + Cardinality(inserts') + Cardinality(orphans') + lost' = settled'
    <3>1. Cardinality(ledger') = Cardinality(ledger) /\ Cardinality(orphans') = Cardinality(orphans)
      BY <1>3
    <3>2. lost' = lost /\ settled' = settled + 1 /\ lost \in Nat
      BY <1>3 DEF BookType
    <3> QED BY <1>5, <2>3, <3>1, <3>2 DEF LedgerBacked
  <2>5. sim' = "on" /\ whole' => total' = CostOf(Known') + CostOf(inserts') + unseen'
    BY <1>1, <1>3, <2>1, <2>2 DEF LedgerBacked, BookType
  <2> QED BY <2>4, <2>5 DEF LedgerBacked
<1> QED BY <1>6, <1>7, <1>8, <1>9, <1>10, BooksAreTotalsNext

\* A row leaves inserts: into the ledger, or lost and counted in unseen.
LEMMA BookInsert ==
  ASSUME BookInv, NEW row \in inserts, Insert(row) \/ InsertFails(row)
  PROVE  BookInv'
<1> USE DEF BookInv
<1>1. /\ inserts' = inserts \ {row}
      /\ UNCHANGED <<sim, personas, req, spent, earned, total, orphans, unread, settled, whole>>
      /\ \/ ledger' = ledger \cup {row} /\ UNCHANGED <<lost, unseen>>
         \/ ledger' = ledger /\ lost' = lost + 1 /\ unseen' = unseen + row.cost
  BY DEF Insert, InsertFails, books
<1>2. row \in LedgerRow /\ row \notin ledger /\ row \notin Known /\ sim = "on" /\ row.r \in personas
  BY DEF BookType, RowsApart, OwnActivity, Known
<1>3. row.cost \in Nat /\ CostOf(inserts) \in Nat /\ CostOf(Known) \in Nat
  BY SubsetsFinite, CostType DEF BookType
<1>4. /\ IsFiniteSet(inserts') /\ Cardinality(inserts') = Cardinality(inserts) - 1
      /\ IsFiniteSet(ledger \cup {row}) /\ Cardinality(ledger \cup {row}) = Cardinality(ledger) + 1
  BY <1>1, <1>2, FS_RemoveElement, FS_AddElement DEF BookType
<1>5. Cardinality(ledger) \in Nat /\ Cardinality(inserts) \in Nat /\ Cardinality(orphans) \in Nat
  BY FS_CardinalityType DEF BookType
<1>6. CostOf(inserts) = CostOf(inserts') + row.cost
  BY <1>1, CostRemove DEF BookType
<1>7. CostOf(inserts') \in Nat
  BY <1>1, <1>4, CostType DEF BookType
<1>8. /\ CostOf(Known \cup {row}) = CostOf(Known) + row.cost
      /\ (ledger \cup {row}) \ unread = Known \cup {row}
  BY <1>2, SubsetsFinite, CostAdd DEF BookType, Known
<1>9. BookType'
  <2>1. lost' \in Nat /\ unseen' \in Nat
    BY <1>1, <1>3 DEF BookType
  <2>2. ledger' \subseteq LedgerRow /\ IsFiniteSet(ledger')
    BY <1>1, <1>2, <1>4 DEF BookType
  <2>3. inserts' \subseteq LedgerRow
    BY <1>1 DEF BookType
  <2> QED BY <1>1, <1>4, <2>1, <2>2, <2>3 DEF BookType
<1>10. RowsApart' /\ OwnActivity' /\ Loaded'
  BY <1>1, <1>2 DEF RowsApart, OwnActivity, Loaded
<1>11. Balanced'
  <2>1. Absent' = Absent
    BY <1>1, <1>2 DEF Absent, Known
  <2> QED BY <1>1, <2>1, BooksAreTotals DEF Balanced
<1>12. LedgerBacked'
  <2>1. \/ ledger' = ledger \cup {row} /\ lost' = lost /\ unseen' = unseen
        \/ ledger' = ledger /\ lost' = lost + 1 /\ unseen' = unseen + row.cost
    BY <1>1
  <2>2. Cardinality(ledger') + Cardinality(inserts') + Cardinality(orphans') + lost' = settled'
    <3>1. /\ Cardinality(ledger) + Cardinality(inserts) + Cardinality(orphans) + lost = settled
          /\ lost \in Nat /\ settled' = settled /\ orphans' = orphans
      BY <1>1 DEF LedgerBacked, BookType
    <3>2. CASE ledger' = ledger \cup {row} /\ lost' = lost
      <4>1. Cardinality(ledger') = Cardinality(ledger) + 1
        BY <1>4, <3>2
      <4> QED BY <1>4, <1>5, <3>1, <3>2, <4>1
    <3>3. CASE ledger' = ledger /\ lost' = lost + 1
      <4>1. Cardinality(ledger') = Cardinality(ledger)
        BY <3>3
      <4> QED BY <1>4, <1>5, <3>1, <3>3, <4>1
    <3> QED BY <2>1, <3>2, <3>3
  <2>3. CostOf(Known') + CostOf(inserts') + unseen' = CostOf(Known) + CostOf(inserts) + unseen
    <3>1. Known' = IF ledger' = ledger THEN Known ELSE Known \cup {row}
      BY <1>1, <1>2, <1>8 DEF Known
    <3> QED BY <1>2, <1>3, <1>6, <1>7, <1>8, <2>1, <3>1 DEF BookType
  <2> QED BY <1>1, <2>2, <2>3 DEF LedgerBacked
<1> QED BY <1>9, <1>10, <1>11, <1>12, BooksAreTotalsNext

\* A row of a dead process comes into the ledger, or never will.
LEMMA BookOrphan ==
  ASSUME BookInv, NEW row \in orphans, OrphanLands(row) \/ OrphanDies(row)
  PROVE  BookInv'
<1> USE DEF BookInv
<1>1. /\ orphans' = orphans \ {row}
      /\ UNCHANGED <<sim, personas, req, spent, earned, total, inserts, unseen, settled>>
  BY DEF OrphanLands, OrphanDies, books
<1>2. row \in LedgerRow /\ row \notin ledger /\ row \notin inserts /\ row \notin unread
  BY DEF BookType, RowsApart
<1>3. /\ IsFiniteSet(orphans') /\ Cardinality(orphans') = Cardinality(orphans) - 1
      /\ IsFiniteSet(ledger \cup {row}) /\ Cardinality(ledger \cup {row}) = Cardinality(ledger) + 1
  BY <1>1, <1>2, FS_RemoveElement, FS_AddElement DEF BookType
<1>4. Cardinality(ledger) \in Nat /\ Cardinality(inserts) \in Nat /\ Cardinality(orphans) \in Nat
  BY FS_CardinalityType DEF BookType
<1>5. CASE OrphanDies(row)
  <2>1. lost' = lost + 1 /\ UNCHANGED <<ledger, unread, whole>>
    BY <1>5 DEF OrphanDies
  <2>2. BookType' /\ RowsApart' /\ OwnActivity' /\ Loaded'
    BY <1>1, <1>3, <2>1 DEF BookType, RowsApart, OwnActivity, Loaded
  <2>3. Known' = Known /\ Absent' = Absent
    BY <1>1, <2>1 DEF Known, Absent
  <2>4. Balanced'
    BY <1>1, <2>1, <2>3, BooksAreTotals DEF Balanced
  <2>5. LedgerBacked'
    BY <1>1, <1>3, <1>4, <2>1, <2>3 DEF LedgerBacked, BookType
  <2> QED BY <2>2, <2>4, <2>5, BooksAreTotalsNext
<1>6. CASE OrphanLands(row)
  <2>1. /\ ledger' = ledger \cup {row} /\ lost' = lost
        /\ whole' = (whole /\ sim \notin {"earnings", "spent"})
        /\ unread' = IF sim = "on" THEN unread \cup {row} ELSE unread
    BY <1>6 DEF OrphanLands
  <2>2. BookType'
    BY <1>1, <1>2, <1>3, <2>1 DEF BookType
  <2>3. RowsApart' /\ OwnActivity' /\ Loaded'
    BY <1>1, <1>2, <2>1 DEF RowsApart, OwnActivity, Loaded
  <2>4. sim = "on" => Known' = Known /\ Absent' = Absent
    BY <1>1, <1>2, <2>1 DEF Known, Absent
  <2>5. Balanced'
    BY <1>1, <2>1, <2>4, BooksAreTotals DEF Balanced
  <2>6. LedgerBacked'
    <3>1. Cardinality(ledger') = Cardinality(ledger) + 1 /\ Cardinality(inserts') = Cardinality(inserts)
      BY <1>1, <1>3, <2>1
    <3>2. lost' = lost /\ settled' = settled /\ lost \in Nat
      BY <1>1, <2>1 DEF BookType
    <3>3. Cardinality(ledger') + Cardinality(inserts') + Cardinality(orphans') + lost' = settled'
      BY <1>3, <1>4, <3>1, <3>2 DEF LedgerBacked
    <3>4. sim' = "on" /\ whole' => total' = CostOf(Known') + CostOf(inserts') + unseen'
      BY <1>1, <2>1, <2>4 DEF LedgerBacked
    <3> QED BY <3>3, <3>4 DEF LedgerBacked
  <2> QED BY <2>2, <2>3, <2>5, <2>6, BooksAreTotalsNext
<1> QED BY <1>5, <1>6

\* Rows add up to the same when they are summed group by group.
LEMMA CostByGroup ==
  ASSUME NEW R \in SUBSET LedgerRow, IsFiniteSet(R), NEW D, IsFiniteSet(D),
         NEW G, \A d \in D : G[d] \subseteq R,
         \A d, e \in D : d # e => G[d] \cap G[e] = {},
         \A x \in R : \E d \in D : x \in G[d],
         NEW h, \A d \in D : h[d] = CostOf(G[d])
  PROVE  Total(D, h) = CostOf(R)
<1>1. \A x \in R : PriceOf[x] \in Nat
  BY CostType
<1>2. \A d \in D : h[d] = Total(G[d], PriceOf)
  BY FS_Subset, CostIsTotal
<1>3. Total(D, h) = Total(R, PriceOf)
  BY <1>1, <1>2, TotalByGroup
<1> QED BY <1>3, CostIsTotal

\* The ledger's rows by provider, and by the personas of the run and the others.
LEMMA LedgerByKey ==
  ASSUME BookType, unread = {}
  PROVE  /\ \A e : e = [p \in Dummy |-> CostOf({row \in ledger : row.p = p})]
                     => e \in [Dummy -> Nat] /\ Total(Dummy, e) = CostOf(ledger)
         /\ SpentLoaded \in [Persona -> Nat]
         /\ CostOf(ledger) = Total(personas, SpentLoaded) + CostOf(Absent)
<1>1. \A S \in SUBSET ledger : S \in SUBSET LedgerRow /\ IsFiniteSet(S)
  BY FS_Subset DEF BookType
<1>2. \A x \in ledger : x.p \in Dummy /\ x.r \in Persona
  BY DEF BookType, LedgerRow
<1>3. ASSUME NEW e, e = [p \in Dummy |-> CostOf({row \in ledger : row.p = p})]
      PROVE  e \in [Dummy -> Nat] /\ Total(Dummy, e) = CostOf(ledger)
  <2> DEFINE G == [p \in Dummy |-> {row \in ledger : row.p = p}]
  <2>1. /\ \A p \in Dummy : G[p] \subseteq ledger /\ e[p] = CostOf(G[p])
        /\ \A p, q \in Dummy : p # q => G[p] \cap G[q] = {}
        /\ \A x \in ledger : \E p \in Dummy : x \in G[p]
    BY <1>2, <1>3
  <2> HIDE DEF G
  <2>2. Total(Dummy, e) = CostOf(ledger)
    BY <1>1, <2>1, DummiesFinite, CostByGroup
  <2>3. \A p \in Dummy : e[p] \in Nat
    BY <1>1, <2>1, CostType
  <2> QED BY <1>3, <2>2, <2>3
<1>4. SpentLoaded \in [Persona -> Nat]
  BY <1>1, CostType DEF SpentLoaded
<1>5. CostOf(ledger) = Total(personas, SpentLoaded) + CostOf(Absent)
  <2> DEFINE Kept == ledger \ Absent
  <2> DEFINE G == [r \in personas |-> {row \in ledger : row.r = r}]
  <2> DEFINE e == SpentLoaded
  <2>1. /\ \A r \in personas : G[r] \subseteq Kept
        /\ \A r, q \in personas : r # q => G[r] \cap G[q] = {}
        /\ \A x \in Kept : \E r \in personas : x \in G[r]
    BY DEF Absent, Known
  <2>2. \A r \in personas : e[r] = CostOf(G[r])
    BY DEF SpentLoaded, BookType
  <2>3. IsFiniteSet(personas) /\ IsFiniteSet(Kept) /\ Kept \in SUBSET LedgerRow
    BY <1>1, SubsetsFinite DEF BookType
  <2>4. Kept \cup Absent = ledger /\ Kept \cap Absent = {}
    BY DEF Absent, Known
  <2> HIDE DEF Kept, G, e
  <2>5. Total(personas, e) = CostOf(Kept)
    BY <2>1, <2>2, <2>3, CostByGroup
  <2>6. IsFiniteSet(Absent) /\ \A row \in Kept \cup Absent : PriceOf[row] \in Nat
    BY <1>1, <2>4, CostType
  <2>7. Total(Kept \cup Absent, PriceOf) = Total(Kept, PriceOf) + Total(Absent, PriceOf)
    BY <2>3, <2>4, <2>6, TotalUnion
  <2>8. /\ CostOf(ledger) = Total(Kept \cup Absent, PriceOf)
        /\ CostOf(Kept) = Total(Kept, PriceOf) /\ CostOf(Absent) = Total(Absent, PriceOf)
    BY <1>1, <2>4, CostIsTotal
  <2> QED BY <2>5, <2>7, <2>8 DEF e
<1> QED BY <1>3, <1>4, <1>5

LEMMA BookLoading ==
  ASSUME BookInv, SimStart \/ Loading
  PROVE  BookInv'
<1> USE DEF BookInv
<1>1. UNCHANGED <<req, rows>> /\ sim # "on"
  BY DEF SimStart, Loading, LoadTotals, LoadEarnings, LoadSpent, LoadFails
<1>2. inserts = {} /\ \A r \in Persona : req[r].pc = "idle"
  BY <1>1 DEF OwnActivity
<1>3. RowsApart' /\ OwnActivity' /\ CostOf(inserts) = 0 /\ CostOf(ledger) \in Nat
  BY <1>1, <1>2, CostEmpty, CostType DEF RowsApart, OwnActivity, rows, BookType
<1>4. unseen = 0 /\ spent = Nothing /\ unread = {} /\ Known = ledger
  BY <1>1 DEF Loaded, Known
<1>5. CASE SimStart \/ LoadFails
  <2>1. BookType' /\ Loaded' /\ ~ (sim' = "on" /\ whole')
    BY <1>1, <1>4, <1>5 DEF SimStart, LoadFails, BookType, Loaded, books, rows
  <2>2. Balanced' /\ LedgerBacked'
    BY <1>1, <2>1 DEF Balanced, LedgerBacked, rows
  <2> QED BY <1>3, <2>1, <2>2, BooksAreTotalsNext
<1>6. CASE LoadTotals
  <2>1. BookType' /\ Loaded' /\ sim' # "on"
    BY <1>1, <1>3, <1>4, <1>6 DEF LoadTotals, BookType, Loaded, rows
  <2>2. Balanced' /\ LedgerBacked'
    BY <1>1, <2>1 DEF Balanced, LedgerBacked, rows
  <2> QED BY <1>3, <2>1, <2>2, BooksAreTotalsNext
<1>7. CASE LoadEarnings
  <2>1. BookType' /\ Loaded' /\ sim' # "on"
    BY <1>1, <1>4, <1>7, LedgerByKey DEF LoadEarnings, BookType, Loaded, rows
  <2>2. Balanced' /\ LedgerBacked'
    BY <1>1, <2>1 DEF Balanced, LedgerBacked, rows
  <2> QED BY <1>3, <2>1, <2>2, BooksAreTotalsNext
<1>8. CASE LoadSpent
  <2>1. /\ spent' = SpentLoaded /\ sim' = "on" /\ UNCHANGED <<personas, earned, total, ledger, inserts, unseen, unread, whole>>
        /\ whole => total = CostOf(ledger) /\ Total(Dummy, earned) = CostOf(ledger)
    BY <1>4, <1>8, LedgerByKey DEF LoadSpent, Loaded, rows
  <2>2. BookType' /\ Loaded'
    BY <1>1, <1>4, <2>1, LedgerByKey DEF BookType, Loaded, rows
  <2>3. Absent' = Absent
    BY <2>1 DEF Absent, Known
  <2>4. Balanced'
    BY <1>4, <2>1, <2>3, LedgerByKey DEF Balanced
  <2>5. LedgerBacked'
    BY <1>1, <1>3, <1>4, <2>1 DEF LedgerBacked, Known, rows
  <2> QED BY <1>3, <2>2, <2>4, <2>5, BooksAreTotalsNext
<1> QED BY <1>5, <1>6, <1>7, <1>8 DEF Loading

LEMMA BookCrash ==
  ASSUME BookInv, MarketCrash
  PROVE  BookInv'
<1> USE DEF BookInv
<1>1. /\ orphans' = orphans \cup inserts /\ inserts' = {} /\ unread' = {} /\ unseen' = 0
      /\ UNCHANGED <<ledger, lost, settled>>
      /\ sim' = "off" /\ personas' = {} /\ req' = [r \in Persona |-> Idle]
      /\ spent' = Nothing /\ earned' = [p \in Dummy |-> 0] /\ total' = 0 /\ whole' = TRUE
  BY DEF MarketCrash
<1>2. /\ IsFiniteSet(orphans \cup inserts)
      /\ Cardinality(orphans \cup inserts) = Cardinality(orphans) + Cardinality(inserts) - 0
  BY FS_Union, FS_EmptySet DEF BookType, RowsApart
<1>3. Cardinality(ledger) \in Nat /\ Cardinality(inserts) \in Nat /\ Cardinality(orphans) \in Nat
  BY FS_CardinalityType DEF BookType
<1>4. BookType'
  BY <1>1, <1>2, FS_EmptySet DEF BookType, Nothing
<1>5. RowsApart' /\ OwnActivity' /\ Loaded'
  BY <1>1 DEF RowsApart, OwnActivity, Loaded, Idle
<1>6. Balanced'
  BY <1>1 DEF Balanced
<1>7. LedgerBacked'
  BY <1>1, <1>2, <1>3, FS_EmptySet DEF LedgerBacked, BookType
<1> QED BY <1>4, <1>5, <1>6, <1>7, BooksAreTotalsNext

LEMMA BookInvNext ==
  ASSUME SearchType, BookInv, [MarketNext]_marketVars
  PROVE  BookInv'
<1>1. CASE SimStart \/ Loading
  BY <1>1, BookLoading
<1>2. ASSUME NEW r \in Persona,
             \/ Search(r) \/ ServeQuery(r) \/ QueryFails(r) \/ NoMatch(r)
             \/ req[r].pc = "reply" /\ \E i \in req[r].items : Hire(r, i)
      PROVE  BookInv'
  <2>1. UNCHANGED <<sim, personas, books, rows, whole>>
    BY <1>2 DEF Search, ServeQuery, QueryFails, NoMatch, Hire
  <2>2. sim = "on" /\ r \in personas
    BY <1>2 DEF Search, ServeQuery, QueryFails, NoMatch, BookInv, OwnActivity
  <2>3. \A q \in Persona : q # r => req'[q] = req[q]
    BY <1>2 DEF Search, ServeQuery, QueryFails, NoMatch, Hire, SearchType
  <2> QED BY <2>1, <2>2, <2>3, BookQuiet DEF BookInv, OwnActivity
<1>3. CASE MarketCrash
  BY <1>3, BookCrash
<1>4. CASE MarketTick \/ (\E o \in RealOffer : RealBeat(o)) \/ UNCHANGED simVars
  <2>1. UNCHANGED <<req, sim, personas, books, rows, whole>>
    BY <1>4 DEF MarketTick, RealBeat, simVars
  <2> QED BY <2>1, BookQuiet DEF BookInv, OwnActivity
<1> QED BY <1>1, <1>2, <1>3, <1>4, BookSettle, BookInsert, BookOrphan DEF MarketNext, SimStep, marketVars

LEMMA BookInvariant == MarketSpec => []BookInv
<1>1. SimInit => BookInv
  <2> SUFFICES ASSUME SimInit PROVE BookInv
    OBVIOUS
  <2>1. BookType /\ RowsApart /\ OwnActivity /\ Loaded
    BY FS_EmptySet DEF SimInit, BookType, RowsApart, OwnActivity, Loaded, Nothing, Idle
  <2>2. Balanced /\ LedgerBacked
    BY FS_EmptySet DEF SimInit, Balanced, LedgerBacked
  <2> QED BY <2>1, <2>2, BooksAreTotals DEF BookInv
<1>2. AlarmInv /\ BookInv /\ [MarketNext]_marketVars => BookInv'
  BY BookInvNext DEF AlarmInv
<1> QED BY <1>1, <1>2, AlarmInvariant, PTL DEF MarketSpec

\* "Σ spent === Σ earned" of settleJob: whichever jobs settle, inserts fail and
\* restarts reload, and whichever personas run, after a complete load the totals,
\* the dummies' earnings and the personas' spending agree, once the jobs of
\* personas that no longer run are counted.
THEOREM BooksAlwaysBalance == MarketSpec => []BooksBalance
<1>1. BookInv => BooksBalance
  BY DEF BookInv
<1> QED BY <1>1, BookInvariant, PTL

\* Simulated money survives restarts (loadFromLedger): the totals are what the
\* ledger holds, without what earlier processes still put there, plus the rows on
\* their way, plus those this run has lost; and no settled job is ever counted
\* twice or forgotten without being counted as lost.
THEOREM LedgerAlwaysBacks == MarketSpec => []LedgerBacked
<1>1. BookInv => LedgerBacked
  BY DEF BookInv
<1> QED BY <1>1, BookInvariant, PTL

-----------------------------------------------------------------------------
(* Statistics: what the median and the means come to                       *)

\* The median of a bag of prices lies between its extremes.
LEMMA MedianBetween ==
  ASSUME NEW D \in SUBSET Nat, IsFiniteSet(D), D # {}, NEW prices \in [D -> Nat \ {0}]
  PROVE  /\ Median2(prices) \in Nat
         /\ 2 * Min(D) <= Median2(prices) /\ Median2(prices) <= 2 * Max(D)
<1> DEFINE below(c) == MapThenSumSet(LAMBDA x : prices[x], {x \in DOMAIN prices : x <= c})
           size == MapThenSumSet(LAMBDA x : prices[x], DOMAIN prices)
           reach(k) == {c \in DOMAIN prices : below(c) >= k}
           nth(k) == Min(reach(k))
<1>1. DOMAIN prices = D /\ Max(D) \in D /\ Min(D) \in D /\ \A y \in D : Min(D) <= y /\ Max(D) >= y
  BY Extremes
<1>2. size = Total(D, prices) /\ Total(D, prices) \in Nat /\ size >= 1
  <2>1. size = Total(D, prices)
    BY <1>1, SumOfFunction
  <2>2. Total(D, prices) \in Nat /\ Total(D, prices) >= prices[Max(D)]
    BY <1>1, TotalType, TotalAtLeast
  <2> QED BY <1>1, <2>1, <2>2
<1>3. below(Max(D)) = size
  <2>1. {x \in DOMAIN prices : x <= Max(D)} = DOMAIN prices
    BY <1>1
  <2> QED BY <2>1
<1> HIDE DEF below, size
<1>4. ASSUME NEW k \in Nat, k <= size PROVE nth(k) \in D
  <2>1. reach(k) \in SUBSET D /\ Max(D) \in reach(k)
    BY <1>1, <1>2, <1>3, <1>4
  <2>2. IsFiniteSet(reach(k)) /\ reach(k) \in SUBSET Nat /\ reach(k) # {}
    BY <2>1, FS_Subset
  <2> HIDE DEF reach
  <2>3. Min(reach(k)) \in reach(k)
    BY <2>2, Extremes
  <2> QED BY <2>1, <2>3
<1>5. Median2(prices) = IF size % 2 = 1 THEN 2 * nth((size + 1) \div 2)
                                         ELSE nth(size \div 2) + nth(size \div 2 + 1)
  BY DEF Median2, below, size
<1> HIDE DEF nth
<1>6. /\ (size + 1) \div 2 \in Nat /\ (size + 1) \div 2 <= size
      /\ size \div 2 \in Nat /\ size \div 2 <= size
      /\ size % 2 # 1 => size \div 2 + 1 \in Nat /\ size \div 2 + 1 <= size
  BY <1>2
<1>7. CASE size % 2 = 1
  <2>1. nth((size + 1) \div 2) \in D
    BY <1>4, <1>6
  <2>2. PICK u \in D : Median2(prices) = 2 * u
    BY <1>5, <1>7, <2>1
  <2>3. u \in Nat /\ Min(D) \in Nat /\ Max(D) \in Nat /\ Min(D) <= u /\ u <= Max(D)
    BY <1>1
  <2> QED BY <2>2, <2>3
<1>8. CASE size % 2 # 1
  <2>1. nth(size \div 2) \in D /\ nth(size \div 2 + 1) \in D
    BY <1>4, <1>6, <1>8
  <2>2. PICK u \in D, v \in D : Median2(prices) = u + v
    BY <1>5, <1>8, <2>1
  <2>3. /\ u \in Nat /\ v \in Nat /\ Min(D) \in Nat /\ Max(D) \in Nat
        /\ Min(D) <= u /\ u <= Max(D) /\ Min(D) <= v /\ v <= Max(D)
    BY <1>1
  <2> QED BY <2>2, <2>3
<1> QED BY <1>7, <1>8

\* Rounding a mean keeps the order of two columns.
LEMMA MeansOrdered ==
  ASSUME NEW S, IsFiniteSet(S), S # {}, NEW f \in [S -> Nat], NEW g \in [S -> Nat], \A x \in S : f[x] <= g[x]
  PROVE  RoundedMean(f) <= RoundedMean(g)
<1> DEFINE n == Cardinality(S)
<1>1. n \in Nat /\ n > 0
  <2>1. n \in Nat /\ n # 0
    BY FS_CardinalityType, FS_EmptySet
  <2> QED BY <2>1
<1>2. /\ MapThenSumSet(LAMBDA r : f[r], S) = Total(S, f)
      /\ MapThenSumSet(LAMBDA r : g[r], S) = Total(S, g)
  BY SumOfFunction
<1>3. Total(S, f) \in Nat /\ Total(S, g) \in Nat /\ Total(S, f) <= Total(S, g)
  BY TotalType, TotalMono
<1>4. /\ RoundedMean(f) = (2 * Total(S, f) + n) \div (2 * n)
      /\ RoundedMean(g) = (2 * Total(S, g) + n) \div (2 * n)
  <2>1. DOMAIN f = S /\ DOMAIN g = S
    OBVIOUS
  <2> QED BY <1>2, <2>1 DEF RoundedMean
<1> HIDE DEF n
<1>5. (2 * Total(S, f) + n) \div (2 * n) <= (2 * Total(S, g) + n) \div (2 * n)
  BY <1>1, <1>3, DivMono
<1> QED BY <1>4, <1>5

-----------------------------------------------------------------------------
(* Statistics: the inductive invariant.  A computation keeps what it read: *)
(* the owners of the offers it found live were registered then and still   *)
(* are, since rows are never deleted, so later counts can only be smaller  *)
(* where they are of fewer offers and larger where they are of more.       *)

Computation ==
  [pc: {"live", "active", "totals", "busy", "owners", "done"}, kind: {"sample", "get"}, at: Nat,
   live: SUBSET Offr, price: [Offr -> Cents \cup {0}], busy: SUBSET Offr,
   provActive: Nat, provTotal: Nat, offActive: Nat, provBusy: Nat]

WorldOK ==
  /\ providers \in SUBSET Prov /\ offers \in SUBSET Offr /\ active \in SUBSET offers
  /\ quote \in [Offr -> Cents \cup {0}]
  /\ \A o \in Offr : quote[o] # 0 => o \in active
  /\ \A o \in offers : OwnerOf[o] \in providers

OwnersOf(S) == {OwnerOf[o] : o \in S}

\* Computation g, when the rows of offers are R.
JobInv(g, R) ==
  /\ g \in Computation
  /\ g.live \subseteq R /\ g.busy \subseteq g.live
  /\ g.pc \notin {"owners", "done"} => g.busy = {}
  /\ g.pc \in {"totals", "busy", "owners", "done"} => g.provActive = Cardinality(OwnersOf(g.live))
  /\ g.pc \in {"busy", "owners", "done"} => g.provActive <= g.provTotal
  /\ g.pc = "done" => g.provBusy <= g.provActive

GoodAgg(g) ==
  /\ g.provTotal \in Nat /\ g.provActive \in Nat /\ g.provBusy \in Nat /\ g.offLive \in Nat /\ g.offBusy \in Nat
  /\ Coherent(g) /\ g.provFree + g.provBusy = g.provActive
  /\ 2 * g.priceMin <= g.priceMed2 /\ g.priceMed2 <= 2 * g.priceMax

JobsOK == job \in [Job -> Computation \cup {Rest}] /\ \A j \in Job : job[j] # Rest => JobInv(job[j], offers)

StatsInv ==
  /\ statTime \in Nat /\ WorldOK /\ JobsOK
  /\ IsFiniteSet(snapshots) /\ \A r \in snapshots : GoodAgg(r.agg)
  /\ blob # NoBlob => GoodAgg(blob.agg)

\* Fewer offers have no more owners.
LEMMA FewerOwners ==
  ASSUME NEW S \in SUBSET Offr, NEW T \in SUBSET S
  PROVE  /\ Cardinality(OwnersOf(S)) \in Nat /\ Cardinality(OwnersOf(T)) \in Nat
         /\ Cardinality(OwnersOf(T)) <= Cardinality(OwnersOf(S))
         /\ Cardinality(S) \in Nat /\ Cardinality(T) \in Nat /\ Cardinality(T) <= Cardinality(S)
<1>1. OwnersOf(T) \subseteq OwnersOf(S) /\ OwnersOf(S) \subseteq Prov
  BY StatsAssumption DEF OwnersOf
<1>2. IsFiniteSet(Prov) /\ IsFiniteSet(Offr)
  BY StatsAssumption
<1>3. IsFiniteSet(OwnersOf(S)) /\ IsFiniteSet(S)
  BY <1>1, <1>2, FS_Subset
<1>4. IsFiniteSet(OwnersOf(T)) /\ Cardinality(OwnersOf(T)) <= Cardinality(OwnersOf(S))
  BY <1>1, <1>3, FS_Subset
<1>5. IsFiniteSet(T) /\ Cardinality(T) <= Cardinality(S)
  BY <1>3, FS_Subset
<1> QED BY <1>3, <1>4, <1>5, FS_CardinalityType

\* A finished computation yields coherent numbers.
LEMMA DoneIsGood ==
  ASSUME NEW g, NEW R, JobInv(g, R), g.pc = "done"
  PROVE  GoodAgg(Aggregates(g))
<1> DEFINE a == Aggregates(g)
<1>1. /\ g.live \in SUBSET Offr /\ g.busy \in SUBSET g.live
      /\ g.price \in [Offr -> Cents \cup {0}]
      /\ g.provActive \in Nat /\ g.provTotal \in Nat /\ g.provBusy \in Nat
      /\ g.provActive <= g.provTotal /\ g.provBusy <= g.provActive
  BY DEF JobInv, Computation
<1>2. Cardinality(g.live) \in Nat /\ Cardinality(g.busy) \in Nat /\ Cardinality(g.busy) <= Cardinality(g.live)
  BY <1>1, FewerOwners
<1>3. a.provFree + a.provBusy = a.provActive
  BY <1>1 DEF Aggregates
<1>4. /\ a.provTotal = g.provTotal /\ a.provActive = g.provActive /\ a.provBusy = g.provBusy
      /\ a.offLive = Cardinality(g.live) /\ a.offBusy = Cardinality(g.busy)
  BY DEF Aggregates
<1>5. 2 * a.priceMin <= a.priceMed2 /\ a.priceMed2 <= 2 * a.priceMax
  <2>1. CASE g.live = {}
    BY <2>1 DEF Aggregates
  <2>2. CASE g.live # {}
    <3> DEFINE D == {g.price[o] : o \in g.live}
    <3>1. D \in SUBSET Nat /\ D # {}
      <4>0. Cents \cup {0} \subseteq Nat
        BY StatsAssumption
      <4>1. \A o \in g.live : g.price[o] \in Nat
        BY <1>1, <4>0
      <4>2. PICK o \in g.live : TRUE
        BY <2>2
      <4>3. g.price[o] \in D
        OBVIOUS
      <4> QED BY <4>1, <4>3
    <3>2. IsFiniteSet(g.live)
      BY <1>1, StatsAssumption, FS_Subset
    <3>3. IsFiniteSet(D)
      <4> DEFINE f == [o \in g.live |-> g.price[o]]
      <4>1. f \in Surjection(g.live, D)
        BY DEF Surjection
      <4> QED BY <3>2, <4>1, FS_Surjection
    <3>4. ASSUME NEW c \in D PROVE Cardinality({o \in g.live : g.price[o] = c}) \in Nat \ {0}
      <4> DEFINE A == {o \in g.live : g.price[o] = c}
      <4>1. A # {} /\ A \subseteq g.live
        OBVIOUS
      <4>2. IsFiniteSet(A)
        BY <3>2, <4>1, FS_Subset
      <4> HIDE DEF A
      <4>3. Cardinality(A) \in Nat /\ Cardinality(A) # 0
        BY <4>1, <4>2, FS_CardinalityType, FS_EmptySet
      <4> QED BY <4>3 DEF A
    <3>5. Prices(g) \in [D -> Nat \ {0}] /\ DOMAIN Prices(g) = D
      BY <3>4 DEF Prices
    <3> HIDE DEF D
    <3>6. 2 * Min(D) <= Median2(Prices(g)) /\ Median2(Prices(g)) <= 2 * Max(D)
      BY <3>1, <3>3, <3>5, MedianBetween
    <3>7. a.priceMin = Min(D) /\ a.priceMed2 = Median2(Prices(g)) /\ a.priceMax = Max(D)
      BY <2>2, <3>5 DEF Aggregates
    <3> QED BY <3>6, <3>7
  <2> QED BY <2>1, <2>2
<1> HIDE DEF a
<1>6. GoodAgg(a)
  BY <1>1, <1>2, <1>3, <1>4, <1>5 DEF GoodAgg, Coherent
<1> QED BY <1>6 DEF a

\* What the registry serves is coherent, the history included.
LEMMA GoodIsCoherent == StatsInv => AggregatesCoherent
<1> SUFFICES ASSUME StatsInv PROVE AggregatesCoherent
  OBVIOUS
<1>1. \A g \in {r.agg : r \in snapshots} \cup (IF blob = NoBlob THEN {} ELSE {blob.agg}) : GoodAgg(g)
  BY DEF StatsInv
<1>2. ASSUME NEW range \in Ranges, NEW p \in History(range) PROVE Coherent(p)
  <2> DEFINE recent == {r \in snapshots : r.at + range.window > statTime}
  <2>1. PICK t \in recent : p =
          LET R == {r \in recent : r.at \div range.step = t.at \div range.step}
          IN  [at |-> (t.at \div range.step) * range.step,
               provTotal |-> RoundedMean([r \in R |-> r.agg.provTotal]),
               provActive |-> RoundedMean([r \in R |-> r.agg.provActive]),
               provBusy |-> RoundedMean([r \in R |-> r.agg.provBusy]),
               offLive |-> RoundedMean([r \in R |-> r.agg.offLive]),
               offBusy |-> RoundedMean([r \in R |-> r.agg.offBusy])]
    BY <1>2 DEF History
  <2> DEFINE Rows == {r \in recent : r.at \div range.step = t.at \div range.step}
             tot == [r \in Rows |-> r.agg.provTotal]
             act == [r \in Rows |-> r.agg.provActive]
             bsy == [r \in Rows |-> r.agg.provBusy]
             lve == [r \in Rows |-> r.agg.offLive]
             obs == [r \in Rows |-> r.agg.offBusy]
  <2>2. p.provTotal = RoundedMean(tot) /\ p.provActive = RoundedMean(act) /\ p.provBusy = RoundedMean(bsy)
        /\ p.offLive = RoundedMean(lve) /\ p.offBusy = RoundedMean(obs)
    BY <2>1
  <2>3. IsFiniteSet(Rows) /\ Rows # {} /\ Rows \subseteq snapshots
    <3>1. Rows \subseteq snapshots /\ t \in Rows /\ IsFiniteSet(snapshots)
      BY DEF StatsInv
    <3> QED BY <3>1, FS_Subset
  <2>4. \A r \in Rows : GoodAgg(r.agg)
    BY DEF StatsInv
  <2> HIDE DEF Rows
  <2>5. /\ tot \in [Rows -> Nat] /\ act \in [Rows -> Nat] /\ bsy \in [Rows -> Nat]
        /\ lve \in [Rows -> Nat] /\ obs \in [Rows -> Nat]
        /\ \A r \in Rows : bsy[r] <= act[r] /\ act[r] <= tot[r] /\ obs[r] <= lve[r]
    BY <2>4 DEF GoodAgg, Coherent
  <2> HIDE DEF tot, act, bsy, lve, obs
  <2>6. RoundedMean(bsy) <= RoundedMean(act)
    BY <2>3, <2>5, MeansOrdered
  <2>7. RoundedMean(act) <= RoundedMean(tot)
    BY <2>3, <2>5, MeansOrdered
  <2>8. RoundedMean(obs) <= RoundedMean(lve)
    BY <2>3, <2>5, MeansOrdered
  <2> QED BY <2>2, <2>6, <2>7, <2>8 DEF Coherent
<1> QED BY <1>1, <1>2 DEF AggregatesCoherent, GoodAgg

\* A step that leaves the computations alone and deletes no offer row.
LEMMA JobsStay ==
  ASSUME JobsOK, UNCHANGED job, offers \subseteq offers'
  PROVE  JobsOK'
BY DEF JobsOK, JobInv

\* One computation moves on.
LEMMA JobMoves ==
  ASSUME JobsOK, NEW j \in Job, NEW g, job' = [job EXCEPT ![j] = g], UNCHANGED offers,
         g = Rest \/ JobInv(g, offers)
  PROVE  JobsOK'
<1>1. job' \in [Job -> Computation \cup {Rest}]
  BY DEF JobsOK, JobInv
<1>2. \A i \in Job : job'[i] = IF i = j THEN g ELSE job[i]
  BY DEF JobsOK
<1> QED BY <1>1, <1>2 DEF JobsOK

LEMMA ReadSteps ==
  ASSUME StatsInv, NEW j \in Job,
         ReadLive(j) \/ ReadActive(j) \/ ReadTotals(j) \/ ReadBusy(j) \/ ReadBusyOwners(j)
  PROVE  StatsInv'
<1> DEFINE g == job[j]
<1>1. UNCHANGED <<statTime, providers, offers, active, quote, flagged, snapshots, blob>>
  BY DEF ReadLive, ReadActive, ReadTotals, ReadBusy, ReadBusyOwners, At, world
<1>2. JobInv(g, offers) /\ g \in Computation /\ WorldOK /\ JobsOK
  <2>1. g.pc \in {"live", "active", "totals", "busy", "owners"}
    BY DEF ReadLive, ReadActive, ReadTotals, ReadBusy, ReadBusyOwners, At
  <2>2. Rest.pc = "rest"
    BY DEF Rest
  <2>3. job[j] # Rest
    BY <2>1, <2>2
  <2> QED BY <2>3 DEF StatsInv, JobsOK, JobInv
<1>3. SUFFICES JobsOK'
  BY <1>1, <1>3 DEF StatsInv, WorldOK
<1>4. /\ g.live \in SUBSET Offr /\ g.busy \in SUBSET g.live /\ g.live \subseteq offers
      /\ job \in [Job -> Computation \cup {Rest}]
  BY <1>2 DEF JobInv, Computation, JobsOK
<1>5. \A S \in SUBSET offers : Owners(S) = OwnersOf(S)
  BY DEF Owners, OwnersOf
<1>6. CASE ReadLive(j)
  <2> DEFINE L == {o \in Offr : quote[o] # 0}
             e1 == [g EXCEPT !.pc = "active", !.live = L, !.price = quote]
             e2 == [g EXCEPT !.pc = "active"]
  <2>1. /\ job' = [job EXCEPT ![j] = e1] \/ job' = [job EXCEPT ![j] = e2]
        /\ g.pc = "live"
    BY <1>4, <1>6 DEF ReadLive, At
  <2>2. L \subseteq offers /\ L \subseteq Offr /\ quote \in [Offr -> Cents \cup {0}]
    BY <1>2 DEF WorldOK
  <2> HIDE DEF L
  <2>3. g.busy = {}
    BY <1>2, <2>1 DEF JobInv
  <2>4. JobInv(e1, offers)
    BY <1>2, <2>2, <2>3 DEF JobInv, Computation
  <2>5. JobInv(e2, offers)
    BY <1>2, <2>3 DEF JobInv, Computation
  <2> QED BY <1>1, <1>2, <2>1, <2>4, <2>5, JobMoves
<1>7. CASE ReadActive(j)
  <2> DEFINE e == [g EXCEPT !.pc = "totals", !.provActive = Cardinality(Owners(g.live))]
  <2>1. job' = [job EXCEPT ![j] = e] /\ g.pc = "active"
    BY <1>4, <1>7 DEF ReadActive, At
  <2>2. Cardinality(Owners(g.live)) = Cardinality(OwnersOf(g.live)) /\ Cardinality(Owners(g.live)) \in Nat
    BY <1>4, <1>5, FewerOwners
  <2>3. JobInv(e, offers)
    BY <1>2, <2>1, <2>2 DEF JobInv, Computation
  <2> QED BY <1>1, <1>2, <2>1, <2>3, JobMoves
<1>8. CASE ReadTotals(j)
  <2> DEFINE e == [g EXCEPT !.pc = "busy", !.provTotal = Cardinality(providers), !.offActive = Cardinality(active)]
  <2>1. job' = [job EXCEPT ![j] = e] /\ g.pc = "totals"
    BY <1>4, <1>8 DEF ReadTotals, At
  <2>2. IsFiniteSet(providers) /\ IsFiniteSet(active)
    BY <1>2, StatsAssumption, FS_Subset DEF WorldOK
  <2>3. OwnersOf(g.live) \subseteq providers
    BY <1>2, <1>4 DEF WorldOK, OwnersOf
  <2>4. /\ Cardinality(providers) \in Nat /\ Cardinality(active) \in Nat
        /\ Cardinality(OwnersOf(g.live)) <= Cardinality(providers)
    BY <2>2, <2>3, FS_CardinalityType, FS_Subset
  <2>5. JobInv(e, offers)
    BY <1>2, <2>1, <2>4 DEF JobInv, Computation
  <2> QED BY <1>1, <1>2, <2>1, <2>5, JobMoves
<1>9. CASE ReadBusy(j)
  <2>1. PICK b \in SUBSET g.live : job' = [job EXCEPT ![j] = [g EXCEPT !.pc = "owners", !.busy = b]] /\ g.pc = "busy"
    <3>1. CASE job' = [job EXCEPT ![j].pc = "owners", ![j].busy = BusyAmong(g.live)]
      <4>1. BusyAmong(g.live) \in SUBSET g.live
        BY DEF BusyAmong
      <4>2. job' = [job EXCEPT ![j] = [g EXCEPT !.pc = "owners", !.busy = BusyAmong(g.live)]]
        BY <1>4, <3>1
      <4> QED BY <1>9, <4>1, <4>2 DEF ReadBusy, At
    <3>2. CASE job' = [job EXCEPT ![j].pc = "owners"]
      <4>1. [g EXCEPT !.pc = "owners"] = [g EXCEPT !.pc = "owners", !.busy = g.busy]
        BY <1>2 DEF Computation
      <4>2. job' = [job EXCEPT ![j] = [g EXCEPT !.pc = "owners", !.busy = g.busy]]
        BY <1>4, <3>2, <4>1
      <4> QED BY <1>4, <1>9, <4>2 DEF ReadBusy, At
    <3> QED BY <1>9, <3>1, <3>2 DEF ReadBusy
  <2>2. JobInv([g EXCEPT !.pc = "owners", !.busy = b], offers)
    BY <1>2, <1>4, <2>1 DEF JobInv, Computation
  <2> QED BY <1>1, <1>2, <2>1, <2>2, JobMoves
<1>10. CASE ReadBusyOwners(j)
  <2> DEFINE e == [g EXCEPT !.pc = "done", !.provBusy = Cardinality(Owners(g.busy))]
  <2>1. job' = [job EXCEPT ![j] = e] /\ g.pc = "owners"
    BY <1>4, <1>10 DEF ReadBusyOwners, At
  <2>2. /\ Cardinality(Owners(g.busy)) \in Nat
        /\ Cardinality(Owners(g.busy)) <= Cardinality(OwnersOf(g.live))
    BY <1>4, <1>5, FewerOwners
  <2>3. JobInv(e, offers)
    BY <1>2, <2>1, <2>2 DEF JobInv, Computation
  <2> QED BY <1>1, <1>2, <2>1, <2>3, JobMoves
<1> QED BY <1>6, <1>7, <1>8, <1>9, <1>10

LEMMA StatsStart == StatsInit => StatsInv
<1> SUFFICES ASSUME StatsInit PROVE StatsInv
  OBVIOUS
<1>1. WorldOK
  BY StatsAssumption DEF StatsInit, WorldOK
<1>2. JobsOK
  BY DEF StatsInit, JobsOK
<1>3. IsFiniteSet(snapshots)
  BY FS_EmptySet DEF StatsInit
<1> QED BY <1>1, <1>2, <1>3 DEF StatsInit, StatsInv

LEMMA ComputeStep ==
  ASSUME StatsInv, NEW j \in Job, NEW kind \in {"sample", "get"}, Compute(j, kind)
  PROVE  StatsInv'
<1> DEFINE e == [pc |-> "live", kind |-> kind, at |-> statTime, live |-> {}, price |-> [o \in Offr |-> 0],
                 busy |-> {}, provActive |-> 0, provTotal |-> 0, offActive |-> 0, provBusy |-> 0]
<1>1. job' = [job EXCEPT ![j] = e]
  BY DEF Compute
<1>2. UNCHANGED <<statTime, providers, offers, active, quote, flagged, snapshots, blob>>
  BY DEF Compute, world
<1>3. JobInv(e, offers)
  BY DEF JobInv, Computation, StatsInv
<1>4. JobsOK'
  BY <1>1, <1>2, <1>3, JobMoves DEF StatsInv
<1> QED BY <1>2, <1>4 DEF StatsInv, WorldOK

\* A row is added only for a finished computation.
LEMMA SampleStep ==
  ASSUME StatsInv, NEW j \in Job, Sample(j)
  PROVE  StatsInv'
<1> DEFINE row == [at |-> job[j].at, agg |-> Aggregates(job[j])]
<1>1. GoodAgg(row.agg)
  <2>1. Rest.pc = "rest" /\ job[j].pc = "done"
    BY DEF Rest, Sample
  <2>2. JobInv(job[j], offers)
    BY <2>1 DEF StatsInv, JobsOK
  <2> QED BY <2>1, <2>2, DoneIsGood
<1>2. UNCHANGED <<statTime, providers, offers, active, quote, flagged, blob>>
  BY DEF Sample, world
<1>3. snapshots' \subseteq snapshots \cup {row}
  BY DEF Sample
<1> HIDE DEF row
<1>4. IsFiniteSet(snapshots')
  <2>1. IsFiniteSet(snapshots \cup {row})
    BY FS_AddElement DEF StatsInv
  <2> QED BY <1>3, <2>1, FS_Subset
<1>5. \A r \in snapshots' : GoodAgg(r.agg)
  BY <1>1, <1>3 DEF StatsInv
<1>6. JobsOK'
  BY <1>2, JobMoves DEF StatsInv, Sample
<1> QED BY <1>2, <1>4, <1>5, <1>6 DEF StatsInv, WorldOK, GoodAgg, Coherent

LEMMA CacheStep ==
  ASSUME StatsInv, NEW j \in Job, Cache(j)
  PROVE  StatsInv'
<1>1. GoodAgg(Aggregates(job[j]))
  <2>1. Rest.pc = "rest" /\ job[j].pc = "done"
    BY DEF Rest, Cache
  <2>2. JobInv(job[j], offers)
    BY <2>1 DEF StatsInv, JobsOK
  <2> QED BY <2>1, <2>2, DoneIsGood
<1>2. UNCHANGED <<statTime, providers, offers, active, quote, flagged, snapshots>>
  BY DEF Cache, world
<1>3. GoodAgg(blob'.agg)
  <2>1. blob'.agg = Aggregates(job[j])
    BY DEF Cache
  <2> QED BY <1>1, <2>1
<1>4. JobsOK'
  BY <1>2, JobMoves DEF StatsInv, Cache
<1> QED BY <1>2, <1>3, <1>4 DEF StatsInv, WorldOK, GoodAgg, Coherent, NoBlob

LEMMA ComputeFailsStep ==
  ASSUME StatsInv, NEW j \in Job, ComputeFails(j)
  PROVE  StatsInv'
<1>1. UNCHANGED <<statTime, providers, offers, active, quote, flagged, snapshots, blob>>
  BY DEF ComputeFails, world
<1>2. JobsOK'
  BY <1>1, JobMoves DEF StatsInv, ComputeFails
<1> QED BY <1>1, <1>2 DEF StatsInv, WorldOK

\* Time passes, or the market moves under the computations.
LEMMA MarketMoves ==
  ASSUME StatsInv,
         \/ StatTick
         \/ \E p \in Prov : Join(p)
         \/ \E o \in Offr : PostOffer(o) \/ EndOffer(o) \/ Flag(o) \/ \E c \in Cents \cup {0} : Quote(o, c)
  PROVE  StatsInv'
<1>1. UNCHANGED <<job, snapshots>> /\ offers \subseteq offers'
  BY DEF StatTick, Join, PostOffer, EndOffer, Flag, Quote, Move, world
<1>2. JobsOK'
  BY <1>1, JobsStay DEF StatsInv
<1>3. statTime' \in Nat /\ (blob' = NoBlob \/ blob' = blob)
  BY DEF StatTick, Join, PostOffer, EndOffer, Flag, Quote, Move, StatsInv
<1>4. WorldOK'
  <2>1. CASE StatTick
    BY <2>1 DEF StatTick, world, StatsInv, WorldOK
  <2>2. ASSUME NEW p \in Prov, Join(p) PROVE WorldOK'
    BY <2>2 DEF Join, StatsInv, WorldOK
  <2>3. ASSUME NEW o \in Offr, PostOffer(o) PROVE WorldOK'
    BY <2>3 DEF PostOffer, StatsInv, WorldOK
  <2>4. ASSUME NEW o \in Offr, EndOffer(o) PROVE WorldOK'
    <3>1. \A x \in Offr : quote'[x] = IF x = o THEN 0 ELSE quote[x]
      BY <2>4 DEF EndOffer, StatsInv, WorldOK
    <3> QED BY <2>4, <3>1 DEF EndOffer, StatsInv, WorldOK
  <2>5. ASSUME NEW o \in Offr, Flag(o) PROVE WorldOK'
    BY <2>5 DEF Flag, StatsInv, WorldOK
  <2>6. ASSUME NEW o \in Offr, NEW c \in Cents \cup {0}, Quote(o, c) PROVE WorldOK'
    <3>1. \A x \in Offr : quote'[x] = IF x = o THEN c ELSE quote[x]
      BY <2>6 DEF Quote, StatsInv, WorldOK
    <3> QED BY <2>6, <3>1 DEF Quote, StatsInv, WorldOK
  <2> QED BY <2>1, <2>2, <2>3, <2>4, <2>5, <2>6
<1>5. (\A r \in snapshots' : GoodAgg(r.agg)) /\ IsFiniteSet(snapshots')
  BY <1>1 DEF StatsInv
<1>6. blob' # NoBlob => GoodAgg(blob'.agg)
  BY <1>3 DEF StatsInv
<1> QED BY <1>2, <1>3, <1>4, <1>5, <1>6 DEF StatsInv, NoBlob, GoodAgg, Coherent

\* Every row of the history, every cached answer and every mean of the history
\* endpoint is coherent, though its numbers were read at five moments of a market
\* that moved in between and Redis may have answered only some of the reads
\* (computeMarketAggregates, takeMarketSnapshot, getStats, getStatsHistory): for
\* any market, any number of overlapping computations and any retention.
THEOREM NumbersCohere == StatsSpec => []AggregatesCoherent
<1>1. StatsInit => StatsInv
  BY StatsStart
<1>2. StatsInv /\ [StatsNext]_statVars => StatsInv'
  <2> SUFFICES ASSUME StatsInv, [StatsNext]_statVars PROVE StatsInv'
    OBVIOUS
  <2>1. CASE UNCHANGED statVars
    BY <2>1 DEF statVars, StatsInv, WorldOK, JobsOK
  <2>2. ASSUME NEW j \in Job, NEW kind \in {"sample", "get"}, Compute(j, kind) PROVE StatsInv'
    BY <2>2, ComputeStep
  <2>3. ASSUME NEW j \in Job, Sample(j) PROVE StatsInv'
    BY <2>3, SampleStep
  <2>4. ASSUME NEW j \in Job, Cache(j) PROVE StatsInv'
    BY <2>4, CacheStep
  <2>5. ASSUME NEW j \in Job, ComputeFails(j) PROVE StatsInv'
    BY <2>5, ComputeFailsStep
  <2>6. ASSUME NEW j \in Job,
               ReadLive(j) \/ ReadActive(j) \/ ReadTotals(j) \/ ReadBusy(j) \/ ReadBusyOwners(j)
        PROVE  StatsInv'
    BY <2>6, ReadSteps
  <2>7. CASE \/ StatTick
             \/ \E p \in Prov : Join(p)
             \/ \E o \in Offr : PostOffer(o) \/ EndOffer(o) \/ Flag(o) \/ \E c \in Cents \cup {0} : Quote(o, c)
    BY <2>7, MarketMoves
  <2> QED BY <2>1, <2>2, <2>3, <2>4, <2>5, <2>6, <2>7 DEF StatsNext
<1> QED BY <1>1, <1>2, GoodIsCoherent, PTL DEF StatsSpec

-----------------------------------------------------------------------------
(* The rate limiter: the inductive invariant.  While its window lasts a    *)
(* counter cannot expire, since its TTL is a whole window from a moment    *)
(* within it.  So INCR gives every call of the window a number of its own, *)
(* a call is admitted in time only with a number up to Limit, and each     *)
(* admission uses one of those up.                                         *)

RateTypeOK ==
  /\ rlClock \in Nat /\ rlClock <= MaxClock /\ outages \in Nat
  /\ rlKeys \in [Windows -> [n: Nat, ttl: Nat]]
  /\ rlSlots \in [Slot -> [pc: {"free", "incr", "expire", "judge"}, w: Windows, n: Nat]]
  /\ arrived \in [Windows -> Nat] /\ admitted \in [Windows -> Nat]
  /\ refused \subseteq Windows /\ untimed \subseteq Windows

\* Slot s holds a number of window w's counter.
Counted(s, w) == rlSlots[s].pc \in {"expire", "judge"} /\ rlSlots[s].w = w

\* A call in flight belongs to a window that has begun.
Begun == \A s \in Slot : rlSlots[s].w * WindowLen <= rlClock

\* Neither a counter nor a number a call was given exceeds the calls that arrived.
ArrivedFirst ==
  /\ \A w \in Windows : rlKeys[w].n <= arrived[w]
  /\ \A s \in Slot, w \in Windows : Counted(s, w) => rlSlots[s].n <= arrived[w]

\* Window w is not over.
Open(w) == rlClock < (w + 1) * WindowLen

\* Its key outlives it, and its calls have different numbers of that key.
KeyOutlives == \A w \in Windows : Open(w) /\ rlKeys[w].ttl # 0 => (w + 1) * WindowLen <= rlKeys[w].ttl
NumbersIssued ==
  \A w \in Windows, s \in Slot :
    Open(w) /\ Counted(s, w) => rlSlots[s].n \in 1..rlKeys[w].n
NumbersDiffer ==
  \A w \in Windows : \A s, t \in Slot :
    Open(w) /\ Counted(s, w) /\ Counted(t, w) /\ rlSlots[s].n = rlSlots[t].n => s = t

\* The admissible numbers of window w that were issued and are in no call's hands.
Spent(w) == {k \in 1..Limit : k <= rlKeys[w].n /\ \A s \in Slot : Counted(s, w) => rlSlots[s].n # k}

AdmittedSpent == \A w \in Windows : Open(w) => admitted[w] <= Cardinality(Spent(w))

RateInv ==
  /\ RateTypeOK /\ Begun /\ ArrivedFirst
  /\ KeyOutlives /\ NumbersIssued /\ NumbersDiffer /\ AdmittedSpent
  /\ LimitExact

-----------------------------------------------------------------------------
(* Arithmetic of windows                                                   *)

LEMMA WindowBounds ==
  ASSUME NEW t \in Nat
  PROVE  /\ KeyOf(t) \in Nat
         /\ KeyOf(t) * WindowLen <= t
         /\ t < (KeyOf(t) + 1) * WindowLen
BY RateAssumption DEF KeyOf

LEMMA WindowsAreNat ==
  ASSUME NEW w \in Windows
  PROVE  w \in Nat /\ w * WindowLen \in Nat /\ (w + 1) * WindowLen = w * WindowLen + WindowLen
BY RateAssumption DEF Windows

LEMMA KeyInRange ==
  ASSUME NEW t \in Nat, t <= MaxClock
  PROVE  KeyOf(t) \in Windows
<1>1. KeyOf(t) \in Nat /\ KeyOf(t) * WindowLen <= MaxClock
  BY WindowBounds, RateAssumption
<1>2. MaxClock < (KeyOf(MaxClock) + 1) * WindowLen /\ KeyOf(MaxClock) \in Nat
  BY WindowBounds, RateAssumption
<1>3. KeyOf(t) < KeyOf(MaxClock) + 1
  <2>1. SUFFICES ASSUME KeyOf(MaxClock) + 1 <= KeyOf(t) PROVE FALSE
    BY <1>1, <1>2
  <2> DEFINE a == KeyOf(MaxClock) + 1
             b == KeyOf(t)
  <2>2. a \in Nat /\ b \in Nat /\ a <= b
    BY <1>1, <1>2, <2>1
  <2> HIDE DEF a, b
  <2>3. a * WindowLen <= b * WindowLen
    BY <2>2, RateAssumption
  <2> QED BY <1>1, <1>2, <2>2, <2>3, RateAssumption DEF a, b
<1> QED BY <1>1, <1>2, <1>3 DEF Windows, KeyOf

-----------------------------------------------------------------------------
(* The steps of a call                                                     *)

LEMMA SpentFinite ==
  ASSUME RateInv, NEW w \in Windows
  PROVE  /\ IsFiniteSet(Spent(w)) /\ Cardinality(Spent(w)) \in Nat
         /\ Cardinality(Spent(w)) <= Limit
<1>1. IsFiniteSet(1..Limit) /\ Cardinality(1..Limit) = Limit
  BY FS_Interval, RateAssumption
<1>2. Spent(w) \subseteq 1..Limit
  BY DEF Spent
<1>3. IsFiniteSet(Spent(w)) /\ Cardinality(Spent(w)) <= Cardinality(1..Limit)
  BY <1>1, <1>2, FS_Subset
<1> QED BY <1>1, <1>3, FS_CardinalityType

LEMMA CallStep ==
  ASSUME RateInv, NEW s \in Slot, RateCall(s)
  PROVE  RateInv'
<1> USE DEF RateInv
<1> DEFINE v == KeyOf(rlClock)
<1>1. v \in Windows /\ v * WindowLen <= rlClock
  BY KeyInRange, WindowBounds DEF RateTypeOK
<1> HIDE DEF v
<1>2. /\ rlSlots[s].pc = "free"
      /\ rlSlots' = [rlSlots EXCEPT ![s] = [pc |-> "incr", w |-> v, n |-> 0]]
      /\ UNCHANGED <<rlClock, rlKeys, outages, arrived, admitted, refused, untimed>>
  BY DEF RateCall, Free, v
<1>3. RateTypeOK'
  BY <1>1, <1>2 DEF RateTypeOK
<1>4. Begun'
  BY <1>1, <1>2 DEF Begun, RateTypeOK
<1>5. \A t \in Slot : /\ rlSlots'[t].pc \in {"expire", "judge"} <=> rlSlots[t].pc \in {"expire", "judge"}
                      /\ rlSlots[t].pc \in {"expire", "judge"} => rlSlots'[t] = rlSlots[t]
  BY <1>2 DEF RateTypeOK
<1>6. ArrivedFirst' /\ NumbersIssued' /\ NumbersDiffer' /\ KeyOutlives'
  BY <1>2, <1>5 DEF ArrivedFirst, NumbersIssued, NumbersDiffer, KeyOutlives, Counted, Open
<1>7. \A w \in Windows : Spent(w)' = Spent(w)
  BY <1>2, <1>5 DEF Spent, Counted
<1>8. AdmittedSpent'
  BY <1>2, <1>7 DEF AdmittedSpent, Open
<1>9. LimitExact'
  BY <1>2, <1>5 DEF LimitExact, RateTypeOK
<1> QED BY <1>3, <1>4, <1>6, <1>8, <1>9

LEMMA IncrStep ==
  ASSUME RateInv, NEW s \in Slot, RateIncr(s)
  PROVE  RateInv'
<1> USE DEF RateInv
<1> DEFINE v == rlSlots[s].w
           k == rlKeys[v].n + 1
<1>1. /\ v \in Windows /\ k \in Nat /\ rlKeys[v].n \in Nat /\ k = rlKeys[v].n + 1
      /\ rlSlots[s].w = v /\ v * WindowLen <= rlClock
  BY DEF RateTypeOK, Begun
<1>2. /\ rlSlots[s].pc = "incr"
      /\ rlKeys' = [rlKeys EXCEPT ![v].n = k]
      /\ rlSlots' = [rlSlots EXCEPT ![s].pc = IF k = 1 THEN "expire" ELSE "judge", ![s].n = k]
      /\ arrived' = [arrived EXCEPT ![v] = @ + 1]
      /\ UNCHANGED <<rlClock, outages, admitted, refused, untimed>>
  BY DEF RateIncr
<1> HIDE DEF v, k
<1>3. RateTypeOK'
  <2>1. rlKeys' \in [Windows -> [n: Nat, ttl: Nat]]
    BY <1>1, <1>2 DEF RateTypeOK
  <2>2. rlSlots' \in [Slot -> [pc: {"free", "incr", "expire", "judge"}, w: Windows, n: Nat]]
    <3> DEFINE R == [pc: {"free", "incr", "expire", "judge"}, w: Windows, n: Nat]
               q == IF k = 1 THEN "expire" ELSE "judge"
               e == [rlSlots[s] EXCEPT !.pc = q, !.n = k]
    <3>1. rlSlots[s] \in R /\ q \in {"free", "incr", "expire", "judge"}
      BY DEF RateTypeOK
    <3>2. rlSlots' = [rlSlots EXCEPT ![s] = e]
      BY <1>2 DEF RateTypeOK
    <3> HIDE DEF q
    <3>3. e \in R
      BY <1>1, <3>1
    <3> QED BY <3>2, <3>3 DEF RateTypeOK
  <2>3. arrived' \in [Windows -> Nat]
    BY <1>1, <1>2 DEF RateTypeOK
  <2> QED BY <1>2, <2>1, <2>2, <2>3 DEF RateTypeOK
<1>4. /\ rlSlots'[s].n = k /\ rlSlots'[s].w = v /\ rlSlots'[s].pc = (IF k = 1 THEN "expire" ELSE "judge")
      /\ rlKeys'[v].n = k /\ rlKeys'[v].ttl = rlKeys[v].ttl /\ arrived'[v] = arrived[v] + 1
  BY <1>1, <1>2 DEF RateTypeOK
<1>5. /\ \A t \in Slot : t # s => rlSlots'[t] = rlSlots[t]
      /\ \A w \in Windows : w # v => rlKeys'[w] = rlKeys[w] /\ arrived'[w] = arrived[w]
  BY <1>1, <1>2 DEF RateTypeOK
<1>6. Begun'
  BY <1>1, <1>2, <1>4, <1>5 DEF Begun
<1>7. /\ \A t \in Slot, w \in Windows : t # s => (Counted(t, w)' <=> Counted(t, w))
      /\ \A w \in Windows : Counted(s, w)' <=> w = v
      /\ \A w \in Windows : ~ Counted(s, w)
  BY <1>2, <1>4, <1>5 DEF Counted
<1>8. ArrivedFirst'
  <2>1. \A w \in Windows : arrived[w] \in Nat /\ arrived'[w] \in Nat /\ arrived[w] <= arrived'[w]
    BY <1>4, <1>5 DEF RateTypeOK
  <2>2. k <= arrived'[v]
    BY <1>1, <1>4 DEF ArrivedFirst, RateTypeOK
  <2>3. \A w \in Windows : rlKeys'[w].n <= arrived'[w]
    BY <1>4, <1>5, <2>2 DEF ArrivedFirst
  <2>4. \A t \in Slot, w \in Windows : Counted(t, w)' => rlSlots'[t].n <= arrived'[w]
    <3> SUFFICES ASSUME NEW t \in Slot, NEW w \in Windows, Counted(t, w)' PROVE rlSlots'[t].n <= arrived'[w]
      OBVIOUS
    <3>1. CASE t = s
      BY <1>4, <1>7, <2>2, <3>1
    <3>2. CASE t # s
      <4>1. rlSlots[t].n <= arrived[w] /\ rlSlots[t].n \in Nat
        BY <1>7, <3>2 DEF ArrivedFirst, RateTypeOK
      <4> QED BY <1>5, <2>1, <3>2, <4>1
    <3> QED BY <3>1, <3>2
  <2> QED BY <2>3, <2>4 DEF ArrivedFirst
<1>9. \A w \in Windows : Open(w)' <=> Open(w)
  BY <1>2 DEF Open
<1>10. KeyOutlives'
  BY <1>1, <1>4, <1>5, <1>9 DEF KeyOutlives
<1>11. NumbersIssued'
  BY <1>1, <1>4, <1>5, <1>7, <1>9 DEF NumbersIssued, RateTypeOK
<1>12. NumbersDiffer'
  <2> SUFFICES ASSUME NEW w \in Windows, NEW t \in Slot, NEW u \in Slot, Open(w),
                      Counted(t, w)', Counted(u, w)', rlSlots'[t].n = rlSlots'[u].n
               PROVE  t = u
    BY <1>9 DEF NumbersDiffer
  <2>1. CASE t # s /\ u # s
    BY <1>5, <1>7, <2>1 DEF NumbersDiffer
  <2>2. \A x \in Slot : x # s /\ Counted(x, w)' /\ w = v => rlSlots'[x].n # k
    BY <1>1, <1>5, <1>7 DEF NumbersIssued, RateTypeOK
  <2> QED BY <1>4, <1>7, <2>1, <2>2
<1>13. ASSUME NEW w \in Windows, Open(w) PROVE Spent(w)' = Spent(w)
  <2>1. CASE w # v
    BY <1>5, <1>7, <2>1 DEF Spent
  <2>2. CASE w = v
    <3>1. ASSUME NEW j \in 1..Limit
          PROVE  j \in Spent(w)' <=> j \in Spent(w)
      <4>1. j \in Nat
        BY RateAssumption
      <4>2. j = k => j \notin Spent(w) /\ j \notin Spent(w)'
        BY <1>1, <1>4, <1>7, <2>2 DEF Spent
      <4>3. j # k => (j <= rlKeys'[w].n <=> j <= rlKeys[w].n)
        BY <1>1, <1>4, <2>2, <4>1
      <4>4. j # k => ((\A t \in Slot : Counted(t, w)' => rlSlots'[t].n # j)
                       <=> (\A t \in Slot : Counted(t, w) => rlSlots[t].n # j))
        BY <1>4, <1>5, <1>7, <2>2
      <4> QED BY <4>2, <4>3, <4>4 DEF Spent
    <3> QED BY <3>1 DEF Spent
  <2> QED BY <2>1, <2>2
<1>14. AdmittedSpent'
  BY <1>2, <1>9, <1>13 DEF AdmittedSpent
<1>15. LimitExact'
  <2> SUFFICES ASSUME NEW w \in Windows
               PROVE  /\ w \in refused' => arrived'[w] > Limit
                      /\ admitted'[w] <= Limit
                      /\ rlKeys'[w].n > 0 /\ rlKeys'[w].ttl = 0 =>
                           w \in untimed' \/ \E t \in Slot : rlSlots'[t].pc = "expire" /\ rlSlots'[t].w = w
    BY DEF LimitExact
  <2>1. (w \in refused' => arrived'[w] > Limit) /\ admitted'[w] <= Limit
    BY <1>2, <1>4, <1>5, RateAssumption DEF LimitExact, RateTypeOK
  <2>2. ASSUME rlKeys'[w].n > 0, rlKeys'[w].ttl = 0
        PROVE  w \in untimed' \/ \E t \in Slot : rlSlots'[t].pc = "expire" /\ rlSlots'[t].w = w
    <3>1. CASE w = v /\ k = 1
      BY <1>4, <3>1
    <3>2. CASE ~ (w = v /\ k = 1)
      <4>1. rlKeys[w].n > 0 /\ rlKeys[w].ttl = 0
        BY <1>1, <1>4, <1>5, <2>2, <3>2
      <4>2. w \in untimed \/ \E t \in Slot : rlSlots[t].pc = "expire" /\ rlSlots[t].w = w
        BY <4>1 DEF LimitExact
      <4>3. ASSUME NEW t \in Slot, rlSlots[t].pc = "expire", rlSlots[t].w = w
            PROVE  rlSlots'[t].pc = "expire" /\ rlSlots'[t].w = w
        BY <1>2, <1>5, <4>3
      <4> QED BY <1>2, <4>2, <4>3
    <3> QED BY <3>1, <3>2
  <2> QED BY <2>1, <2>2
<1> QED BY <1>3, <1>6, <1>8, <1>10, <1>11, <1>12, <1>14, <1>15

\* What the numbers in hand say survives a step that takes none, issues at most
\* uncounted ones and admits nobody.
LEMMA NumbersKept ==
  ASSUME RateInv, RateTypeOK', rlClock' = rlClock, admitted' = admitted,
         \A w \in Windows : rlKeys[w].n <= rlKeys'[w].n,
         \A t \in Slot, w \in Windows : Counted(t, w)' => Counted(t, w) /\ rlSlots'[t].n = rlSlots[t].n
  PROVE  NumbersIssued' /\ NumbersDiffer' /\ AdmittedSpent'
<1> USE DEF RateInv
<1>1. \A w \in Windows : Open(w)' <=> Open(w)
  BY DEF Open
<1>2. NumbersIssued'
  <2> SUFFICES ASSUME NEW w \in Windows, NEW t \in Slot, Open(w), Counted(t, w)'
               PROVE  rlSlots'[t].n \in 1..rlKeys'[w].n
    BY <1>1 DEF NumbersIssued
  <2>1. rlSlots[t].n \in 1..rlKeys[w].n
    BY DEF NumbersIssued
  <2> QED BY <2>1 DEF RateTypeOK
<1>3. NumbersDiffer'
  BY <1>1 DEF NumbersDiffer
<1>4. ASSUME NEW w \in Windows, Open(w) PROVE admitted'[w] <= Cardinality(Spent(w)')
  <2>1. Spent(w) \subseteq Spent(w)'
    <3> SUFFICES ASSUME NEW k \in Spent(w) PROVE k \in Spent(w)'
      OBVIOUS
    <3>1. k \in 1..Limit /\ k <= rlKeys[w].n
      BY DEF Spent
    <3>2. k <= rlKeys'[w].n
      BY <3>1, RateAssumption DEF RateTypeOK
    <3>3. \A t \in Slot : Counted(t, w)' => rlSlots'[t].n # k
      BY DEF Spent
    <3> QED BY <3>1, <3>2, <3>3 DEF Spent
  <2>2. IsFiniteSet(Spent(w)')
    <3>1. IsFiniteSet(1..Limit)
      <4>1. 1 \in Int /\ Limit \in Int
        BY RateAssumption
      <4> QED BY <4>1, FS_Interval
    <3>2. Spent(w)' \subseteq 1..Limit
      BY DEF Spent
    <3> QED BY <3>1, <3>2, FS_Subset
  <2>3. Cardinality(Spent(w)) <= Cardinality(Spent(w)') /\ Cardinality(Spent(w)') \in Nat
    BY <2>1, <2>2, FS_Subset, FS_CardinalityType
  <2>4. admitted[w] <= Cardinality(Spent(w)) /\ admitted[w] \in Nat /\ Cardinality(Spent(w)) \in Nat
    BY <1>4, SpentFinite DEF AdmittedSpent, RateTypeOK
  <2> QED BY <2>3, <2>4
<1>5. AdmittedSpent'
  BY <1>1, <1>4 DEF AdmittedSpent
<1> QED BY <1>2, <1>3, <1>5

LEMMA DegradedStep ==
  ASSUME RateInv, NEW s \in Slot, RateDegraded(s)
  PROVE  RateInv'
<1> USE DEF RateInv
<1> DEFINE v == rlSlots[s].w
           k == rlKeys[v].n + 1
<1>1. /\ v \in Windows /\ k \in Nat /\ rlKeys[v].n \in Nat /\ k = rlKeys[v].n + 1
      /\ rlSlots[s].w = v
  BY DEF RateTypeOK
<1>2. /\ rlSlots[s].pc = "incr" /\ rlSlots' = [rlSlots EXCEPT ![s] = Free]
      /\ outages' = outages + 1 /\ UNCHANGED <<rlClock, admitted, refused>>
  BY DEF RateDegraded, Outage
<1>3. \/ rlKeys' = rlKeys /\ arrived' = arrived /\ untimed' = untimed
      \/ /\ rlKeys' = [rlKeys EXCEPT ![v].n = k] /\ arrived' = [arrived EXCEPT ![v] = @ + 1]
         /\ k = 1 => v \in untimed'
         /\ untimed \subseteq untimed' /\ untimed' \subseteq untimed \cup {v}
  <2>1. CASE rlKeys' = rlKeys
    BY <2>1 DEF RateDegraded
  <2>2. CASE rlKeys' # rlKeys
    <3>1. rlKeys' = [rlKeys EXCEPT ![v].n = @ + 1]
      BY <2>2 DEF RateDegraded
    <3>2. rlKeys' = [rlKeys EXCEPT ![v].n = k] /\ rlKeys'[v].n = k
      BY <1>1, <3>1 DEF RateTypeOK
    <3>3. arrived' = [arrived EXCEPT ![v] = @ + 1]
      BY <2>2 DEF RateDegraded
    <3>4. untimed' = IF k = 1 THEN untimed \cup {v} ELSE untimed
      BY <2>2, <3>2 DEF RateDegraded
    <3> QED BY <3>2, <3>3, <3>4
  <2> QED BY <2>1, <2>2
<1> HIDE DEF v, k
<1>4. 0 \in Windows
  BY RateAssumption, KeyInRange, WindowBounds DEF Windows, RateTypeOK
<1>5. RateTypeOK'
  <2>1. rlKeys' \in [Windows -> [n: Nat, ttl: Nat]]
    BY <1>1, <1>3 DEF RateTypeOK
  <2>2. arrived' \in [Windows -> Nat] /\ untimed' \subseteq Windows
    BY <1>1, <1>3 DEF RateTypeOK
  <2>3. rlSlots' \in [Slot -> [pc: {"free", "incr", "expire", "judge"}, w: Windows, n: Nat]]
    BY <1>2, <1>4 DEF RateTypeOK, Free
  <2> QED BY <1>2, <2>1, <2>2, <2>3 DEF RateTypeOK
<1>6. \A t \in Slot : t # s => rlSlots'[t] = rlSlots[t]
  BY <1>2 DEF RateTypeOK
<1>7. rlSlots'[s] = Free
  BY <1>2 DEF RateTypeOK
<1>8. Begun'
  BY <1>2, <1>6, <1>7, RateAssumption DEF Begun, Free, RateTypeOK
<1>9. \A t \in Slot, w \in Windows : Counted(t, w)' => Counted(t, w) /\ rlSlots'[t] = rlSlots[t]
  BY <1>6, <1>7 DEF Counted, Free
<1>10. \A w \in Windows : /\ rlKeys'[w].ttl = rlKeys[w].ttl
                          /\ rlKeys[w].n <= rlKeys'[w].n
                          /\ arrived[w] <= arrived'[w] /\ rlKeys'[w].n <= arrived'[w]
  <2> SUFFICES ASSUME NEW w \in Windows
               PROVE  /\ rlKeys'[w].ttl = rlKeys[w].ttl /\ rlKeys[w].n <= rlKeys'[w].n
                      /\ arrived[w] <= arrived'[w] /\ rlKeys'[w].n <= arrived'[w]
    OBVIOUS
  <2>1. rlKeys[w].n \in Nat /\ arrived[w] \in Nat /\ rlKeys[w].n <= arrived[w]
    BY DEF RateTypeOK, ArrivedFirst
  <2>2. CASE rlKeys' = rlKeys /\ arrived' = arrived
    BY <2>1, <2>2
  <2>3. CASE rlKeys' = [rlKeys EXCEPT ![v].n = k] /\ arrived' = [arrived EXCEPT ![v] = @ + 1]
    <3>1. CASE w # v
      BY <2>1, <2>3, <3>1 DEF RateTypeOK
    <3>2. CASE w = v
      <4>1. rlKeys'[w].n = k /\ rlKeys'[w].ttl = rlKeys[w].ttl /\ arrived'[w] = arrived[w] + 1
        BY <1>1, <2>3, <3>2 DEF RateTypeOK
      <4> QED BY <1>1, <2>1, <3>2, <4>1
    <3> QED BY <3>1, <3>2
  <2> QED BY <1>3, <2>2, <2>3
<1>11. ArrivedFirst'
  <2> SUFFICES ASSUME NEW t \in Slot, NEW w \in Windows, Counted(t, w)' PROVE rlSlots'[t].n <= arrived'[w]
    BY <1>10 DEF ArrivedFirst
  <2>1. rlSlots'[t] = rlSlots[t] /\ rlSlots[t].n <= arrived[w]
    BY <1>9 DEF ArrivedFirst
  <2>2. rlSlots[t].n \in Nat /\ arrived[w] \in Nat /\ arrived'[w] \in Nat
    BY <1>5 DEF RateTypeOK
  <2> QED BY <1>10, <2>1, <2>2
<1>12. KeyOutlives'
  BY <1>2, <1>10 DEF KeyOutlives, Open
<1>13. NumbersIssued' /\ NumbersDiffer' /\ AdmittedSpent'
  BY <1>2, <1>5, <1>9, <1>10, NumbersKept
<1>14. LimitExact'
  <2> SUFFICES ASSUME NEW w \in Windows
               PROVE  /\ w \in refused' => arrived'[w] > Limit
                      /\ admitted'[w] <= Limit
                      /\ rlKeys'[w].n > 0 /\ rlKeys'[w].ttl = 0 =>
                           w \in untimed' \/ \E t \in Slot : rlSlots'[t].pc = "expire" /\ rlSlots'[t].w = w
    BY DEF LimitExact
  <2>1. (w \in refused' => arrived'[w] > Limit) /\ admitted'[w] <= Limit
    BY <1>2, <1>5, <1>10, RateAssumption DEF LimitExact, RateTypeOK
  <2>2. ASSUME rlKeys'[w].n > 0, rlKeys'[w].ttl = 0, w \notin untimed'
        PROVE  \E t \in Slot : rlSlots'[t].pc = "expire" /\ rlSlots'[t].w = w
    <3>1. rlKeys[w].n > 0 /\ rlKeys[w].ttl = 0 /\ w \notin untimed
      BY <1>1, <1>3, <2>2 DEF RateTypeOK
    <3>2. PICK t \in Slot : rlSlots[t].pc = "expire" /\ rlSlots[t].w = w
      BY <3>1 DEF LimitExact
    <3> QED BY <1>2, <1>6, <3>2
  <2> QED BY <2>1, <2>2
<1> QED BY <1>5, <1>8, <1>11, <1>12, <1>13, <1>14

LEMMA ExpireStep ==
  ASSUME RateInv, NEW s \in Slot, RateExpire(s)
  PROVE  RateInv'
<1> USE DEF RateInv
<1> DEFINE v == rlSlots[s].w
           e == IF rlKeys[v].n = 0 THEN 0 ELSE rlClock + WindowLen
<1>1. v \in Windows /\ rlSlots[s].w = v /\ v * WindowLen <= rlClock
  BY DEF RateTypeOK, Begun
<1>2. /\ rlSlots[s].pc = "expire" /\ rlSlots' = [rlSlots EXCEPT ![s].pc = "judge"]
      /\ UNCHANGED <<rlClock, arrived, admitted, refused>>
      /\ \/ rlKeys' = [rlKeys EXCEPT ![v].ttl = e] /\ UNCHANGED <<outages, untimed>>
         \/ rlKeys' = rlKeys /\ untimed' = untimed \cup {v} /\ outages' = outages + 1
  BY DEF RateExpire, Outage
<1>3. e \in Nat /\ (rlKeys[v].n > 0 => e # 0) /\ (e # 0 => (v + 1) * WindowLen <= e)
  BY <1>1, WindowsAreNat, RateAssumption DEF RateTypeOK
<1> HIDE DEF v, e
<1>4. RateTypeOK'
  BY <1>1, <1>2, <1>3 DEF RateTypeOK
<1>5. /\ \A t \in Slot : rlSlots'[t].w = rlSlots[t].w /\ rlSlots'[t].n = rlSlots[t].n
      /\ \A t \in Slot : t # s => rlSlots'[t] = rlSlots[t]
      /\ rlSlots'[s].pc = "judge"
  BY <1>2 DEF RateTypeOK
<1>6. /\ \A w \in Windows : rlKeys'[w].n = rlKeys[w].n
      /\ \A w \in Windows : w # v => rlKeys'[w].ttl = rlKeys[w].ttl
      /\ rlKeys'[v].ttl = e \/ (rlKeys'[v].ttl = rlKeys[v].ttl /\ v \in untimed')
  BY <1>1, <1>2, <1>3 DEF RateTypeOK
<1>7. \A t \in Slot, w \in Windows : Counted(t, w)' <=> Counted(t, w)
  BY <1>2, <1>5 DEF Counted
<1>8. Begun' /\ ArrivedFirst'
  BY <1>2, <1>5, <1>6, <1>7 DEF Begun, ArrivedFirst
<1>9. KeyOutlives'
  BY <1>1, <1>2, <1>3, <1>6 DEF KeyOutlives, Open
<1>10. \A w \in Windows : rlKeys[w].n <= rlKeys'[w].n
  BY <1>6 DEF RateTypeOK
<1>11. NumbersIssued' /\ NumbersDiffer' /\ AdmittedSpent'
  BY <1>2, <1>4, <1>5, <1>7, <1>10, NumbersKept
<1>12. LimitExact'
  <2>1. ASSUME NEW w \in Windows, rlKeys'[w].n > 0, rlKeys'[w].ttl = 0, w \notin untimed'
        PROVE  \E t \in Slot : rlSlots'[t].pc = "expire" /\ rlSlots'[t].w = w
    <3>1. w # v /\ rlKeys[w].n > 0 /\ rlKeys[w].ttl = 0 /\ w \notin untimed
      BY <1>2, <1>3, <1>6, <2>1
    <3>2. PICK t \in Slot : rlSlots[t].pc = "expire" /\ rlSlots[t].w = w
      BY <3>1 DEF LimitExact
    <3> QED BY <1>1, <1>5, <3>1, <3>2
  <2> QED BY <1>2, <2>1 DEF LimitExact
<1> QED BY <1>4, <1>8, <1>9, <1>11, <1>12

\* Judging gives a number back.  Within the window it is admitted only if it is
\* one of 1..Limit, and then it is one more that is spent.
LEMMA JudgeStep ==
  ASSUME RateInv, NEW s \in Slot, RateJudge(s)
  PROVE  RateInv'
<1> USE DEF RateInv
<1>1. PICK v \in Windows, k \in Nat : rlSlots[s].w = v /\ k = rlSlots[s].n
  BY DEF RateTypeOK
<1>2. /\ rlSlots[s].pc = "judge" /\ rlSlots' = [rlSlots EXCEPT ![s] = Free]
      /\ UNCHANGED <<rlClock, rlKeys, outages, arrived, untimed>>
  BY DEF RateJudge
<1>3. \/ k > Limit /\ refused' = refused \cup {v} /\ admitted' = admitted
      \/ KeyOf(rlClock) # v /\ admitted' = admitted /\ refused' = refused
      \/ /\ KeyOf(rlClock) = v /\ ~ (Over(k) /\ RetryAfter(v) > 0)
         /\ admitted' = [admitted EXCEPT ![v] = @ + 1] /\ refused' = refused
  BY <1>1 DEF RateJudge, Over
<1>4. 0 \in Windows
  BY RateAssumption, KeyInRange, WindowBounds DEF Windows, RateTypeOK
<1>5. RateTypeOK'
  <2>1. rlSlots' \in [Slot -> [pc: {"free", "incr", "expire", "judge"}, w: Windows, n: Nat]]
    BY <1>2, <1>4 DEF RateTypeOK, Free
  <2>2. admitted' \in [Windows -> Nat] /\ refused' \subseteq Windows
    BY <1>1, <1>3 DEF RateTypeOK
  <2> QED BY <1>2, <2>1, <2>2 DEF RateTypeOK
<1>6. /\ \A t \in Slot : t # s => rlSlots'[t] = rlSlots[t]
      /\ rlSlots'[s] = Free
  BY <1>2 DEF RateTypeOK
<1>7. Begun'
  BY <1>2, <1>6, RateAssumption DEF Begun, Free, RateTypeOK
<1>8. \A t \in Slot, w \in Windows : Counted(t, w)' <=> t # s /\ Counted(t, w)
  BY <1>6 DEF Counted, Free
<1>9. ArrivedFirst' /\ KeyOutlives'
  BY <1>2, <1>6, <1>8 DEF ArrivedFirst, KeyOutlives, Open
<1>10. \A w \in Windows : rlKeys[w].n <= rlKeys'[w].n
  BY <1>2 DEF RateTypeOK
<1>11. Counted(s, v)
  BY <1>1, <1>2 DEF Counted
<1>12. \A w \in Windows : rlKeys'[w].n > 0 /\ rlKeys'[w].ttl = 0 =>
         w \in untimed' \/ \E t \in Slot : rlSlots'[t].pc = "expire" /\ rlSlots'[t].w = w
  <2> SUFFICES ASSUME NEW w \in Windows, rlKeys'[w].n > 0, rlKeys'[w].ttl = 0, w \notin untimed'
               PROVE  \E t \in Slot : rlSlots'[t].pc = "expire" /\ rlSlots'[t].w = w
    OBVIOUS
  <2>1. PICK t \in Slot : rlSlots[t].pc = "expire" /\ rlSlots[t].w = w
    BY <1>2 DEF LimitExact
  <2> QED BY <1>2, <1>6, <2>1
<1>13. CASE admitted' = admitted /\ (refused' = refused \/ (k > Limit /\ refused' = refused \cup {v}))
  <2>1. NumbersIssued' /\ NumbersDiffer' /\ AdmittedSpent'
    BY <1>2, <1>5, <1>6, <1>8, <1>10, <1>13, NumbersKept
  <2>2. k > Limit => arrived[v] > Limit
    BY <1>1, <1>11, RateAssumption DEF ArrivedFirst, RateTypeOK
  <2>3. LimitExact'
    BY <1>2, <1>12, <1>13, <2>2 DEF LimitExact
  <2> QED BY <1>5, <1>7, <1>9, <2>1, <2>3
<1>14. CASE /\ KeyOf(rlClock) = v /\ ~ (Over(k) /\ RetryAfter(v) > 0)
            /\ admitted' = [admitted EXCEPT ![v] = @ + 1] /\ refused' = refused
  <2>1. Open(v)
    BY <1>14, WindowBounds DEF Open, RateTypeOK
  <2>2. RetryAfter(v) > 0
    BY <1>1, <2>1, WindowsAreNat, RateAssumption DEF RetryAfter, Open, RateTypeOK
  <2>3. k \in 1..Limit /\ k <= rlKeys[v].n
    BY <1>1, <1>11, <1>14, <2>1, <2>2, RateAssumption DEF Over, NumbersIssued, RateTypeOK
  <2>4. \A w \in Windows : Open(w)' <=> Open(w)
    BY <1>2 DEF Open
  <2>5. NumbersIssued' /\ NumbersDiffer'
    BY <1>2, <1>6, <1>8, <2>4 DEF NumbersIssued, NumbersDiffer
  <2>6. ASSUME NEW w \in Windows, w # v PROVE Spent(w)' = Spent(w) /\ admitted'[w] = admitted[w]
    <3>1. ~ Counted(s, w)
      BY <1>1, <2>6 DEF Counted
    <3>2. \A j : (\A t \in Slot : Counted(t, w)' => rlSlots'[t].n # j)
                  <=> (\A t \in Slot : Counted(t, w) => rlSlots[t].n # j)
      BY <1>6, <1>8, <3>1
    <3> QED BY <1>1, <1>2, <1>14, <2>6, <3>2 DEF Spent, RateTypeOK
  <2>7. k \notin Spent(v)
    BY <1>1, <1>11 DEF Spent
  <2>8. Spent(v)' = Spent(v) \cup {k}
    <3>1. ASSUME NEW j \in Spent(v)' PROVE j \in Spent(v) \cup {k}
      BY <1>1, <1>2, <1>6, <1>8 DEF Spent
    <3>2. ASSUME NEW j \in Spent(v) PROVE j \in Spent(v)'
      BY <1>2, <1>6, <1>8 DEF Spent
    <3>3. k \in Spent(v)'
      <4>1. \A t \in Slot : Counted(t, v)' => rlSlots'[t].n # k
        BY <1>1, <1>6, <1>8, <1>11, <2>1 DEF NumbersDiffer
      <4> QED BY <1>2, <2>3, <4>1 DEF Spent
    <3> QED BY <3>1, <3>2, <3>3
  <2>9. Cardinality(Spent(v)') = Cardinality(Spent(v)) + 1
    BY <1>1, <2>7, <2>8, SpentFinite, FS_AddElement
  <2>10. admitted'[v] = admitted[v] + 1 /\ admitted[v] <= Cardinality(Spent(v)) /\ admitted[v] \in Nat
    BY <1>1, <1>14, <2>1 DEF AdmittedSpent, RateTypeOK
  <2>11. admitted'[v] <= Cardinality(Spent(v)')
    BY <1>1, <2>9, <2>10, SpentFinite
  <2>12. AdmittedSpent'
    BY <2>4, <2>6, <2>11 DEF AdmittedSpent
  <2>13. admitted'[v] <= Limit
    <3>1. Spent(v)' \subseteq 1..Limit
      BY <1>1, <2>3, <2>8 DEF Spent
    <3>2. Cardinality(Spent(v)') <= Limit /\ Cardinality(Spent(v)') \in Nat
      <4>1. IsFiniteSet(1..Limit) /\ Cardinality(1..Limit) = Limit
        BY FS_Interval, RateAssumption
      <4> QED BY <3>1, <4>1, FS_Subset, FS_CardinalityType
    <3> QED BY <1>1, <1>5, <2>11, <3>2, RateAssumption DEF RateTypeOK
  <2>14. LimitExact'
    BY <1>2, <1>12, <1>14, <2>6, <2>13 DEF LimitExact
  <2> QED BY <1>5, <1>7, <1>9, <2>5, <2>12, <2>14
<1> QED BY <1>3, <1>13, <1>14

-----------------------------------------------------------------------------
(* Time                                                                    *)

\* A window that is still open after the tick keeps its key.
LEMMA TickStep ==
  ASSUME RateInv, RateTick
  PROVE  RateInv'
<1> USE DEF RateInv
<1>1. /\ rlClock \in Nat /\ rlClock' = rlClock + 1 /\ rlClock' <= MaxClock
      /\ UNCHANGED <<rlSlots, outages, arrived, admitted, refused, untimed>>
  BY RateAssumption DEF RateTick, RateTypeOK
<1>2. \A w \in Windows : \/ rlKeys'[w] = rlKeys[w]
                         \/ rlKeys'[w] = NoKey /\ rlKeys[w].ttl # 0 /\ rlKeys[w].ttl <= rlClock'
  <2>1. rlKeys' = [w \in Windows |->
          IF rlKeys[w].ttl # 0 /\ rlKeys[w].ttl <= rlClock' THEN NoKey ELSE rlKeys[w]]
    BY <1>1 DEF RateTick
  <2> SUFFICES ASSUME NEW w \in Windows
               PROVE  \/ rlKeys'[w] = rlKeys[w]
                      \/ rlKeys'[w] = NoKey /\ rlKeys[w].ttl # 0 /\ rlKeys[w].ttl <= rlClock'
    OBVIOUS
  <2>2. CASE rlKeys[w].ttl # 0 /\ rlKeys[w].ttl <= rlClock'
    BY <2>1, <2>2
  <2>3. CASE ~ (rlKeys[w].ttl # 0 /\ rlKeys[w].ttl <= rlClock')
    BY <2>1, <2>3
  <2> QED BY <2>2, <2>3
<1>3. RateTypeOK'
  BY <1>1 DEF RateTick, RateTypeOK, NoKey
<1>4. Begun'
  <2> SUFFICES ASSUME NEW s \in Slot PROVE rlSlots[s].w * WindowLen <= rlClock'
    BY <1>1 DEF Begun
  <2>1. rlSlots[s].w * WindowLen \in Nat /\ rlSlots[s].w * WindowLen <= rlClock
    BY WindowsAreNat DEF Begun, RateTypeOK
  <2> QED BY <1>1, <2>1
<1>5. ArrivedFirst'
  BY <1>1, <1>2 DEF ArrivedFirst, Counted, NoKey, RateTypeOK
<1>6. ASSUME NEW w \in Windows, Open(w)' PROVE Open(w) /\ rlKeys'[w] = rlKeys[w]
  <2> DEFINE e == (w + 1) * WindowLen
  <2>1. e \in Nat /\ rlKeys[w].ttl \in Nat
    BY WindowsAreNat, RateAssumption DEF RateTypeOK
  <2>2. rlClock' < e /\ (rlClock < e => Open(w))
    BY <1>6 DEF Open
  <2>3. Open(w) /\ rlKeys[w].ttl # 0 => e <= rlKeys[w].ttl
    BY DEF KeyOutlives
  <2> HIDE DEF e
  <2> QED BY <1>1, <1>2, <2>1, <2>2, <2>3
<1>7. KeyOutlives'
  BY <1>6 DEF KeyOutlives
<1>8. \A s \in Slot, w \in Windows : Counted(s, w)' <=> Counted(s, w)
  BY <1>1 DEF Counted
<1>9. NumbersIssued' /\ NumbersDiffer'
  BY <1>1, <1>6, <1>8 DEF NumbersIssued, NumbersDiffer
<1>10. AdmittedSpent'
  <2> SUFFICES ASSUME NEW w \in Windows, Open(w)' PROVE admitted'[w] <= Cardinality(Spent(w)')
    BY DEF AdmittedSpent
  <2>1. Spent(w)' = Spent(w)
    BY <1>1, <1>6, <1>8 DEF Spent
  <2> QED BY <1>1, <1>6, <2>1 DEF AdmittedSpent
<1>11. LimitExact'
  BY <1>1, <1>2 DEF LimitExact, NoKey
<1> QED BY <1>3, <1>4, <1>5, <1>7, <1>9, <1>10, <1>11

-----------------------------------------------------------------------------
(* The theorem                                                             *)

LEMMA RateInvInit == RateInit => RateInv
<1> SUFFICES ASSUME RateInit PROVE RateInv
  OBVIOUS
<1>1. 0 \in Windows
  BY RateAssumption, KeyInRange, WindowBounds DEF Windows
<1>2. RateTypeOK
  BY <1>1, RateAssumption DEF RateInit, RateTypeOK, Free, NoKey
<1>3. Begun /\ ArrivedFirst /\ KeyOutlives /\ NumbersIssued /\ NumbersDiffer
  BY RateAssumption
  DEF RateInit, Free, NoKey, Begun, ArrivedFirst, KeyOutlives, NumbersIssued, NumbersDiffer, Counted
<1>4. ASSUME NEW w \in Windows PROVE admitted[w] <= Cardinality(Spent(w))
  <2>1. Spent(w) = {}
    BY RateAssumption DEF RateInit, NoKey, Spent
  <2> QED BY <2>1, FS_EmptySet DEF RateInit
<1>5. LimitExact
  BY RateAssumption DEF RateInit, NoKey, LimitExact
<1> QED BY <1>2, <1>3, <1>4, <1>5 DEF RateInv, AdmittedSpent

LEMMA RateInvNext == RateInv /\ [RateNext]_rlVars => RateInv'
<1> SUFFICES ASSUME RateInv, [RateNext]_rlVars PROVE RateInv'
  OBVIOUS
<1>1. CASE UNCHANGED rlVars
  BY <1>1 DEF rlVars, RateInv, RateTypeOK, Begun, ArrivedFirst, KeyOutlives, NumbersIssued,
     NumbersDiffer, AdmittedSpent, Counted, Open, Spent, LimitExact
<1>2. CASE RateNext
  BY <1>2, TickStep, CallStep, IncrStep, DegradedStep, ExpireStep, JudgeStep DEF RateNext
<1> QED BY <1>1, <1>2

\* redis.rateLimit is exact within a window: with any number of requests between
\* INCR, PEXPIRE and the verdict, and however many commands Redis loses, at most
\* `max` counted calls are let through before the window ends, none is refused
\* before `max` others arrived, and a counter without a TTL is one whose PEXPIRE
\* was lost or is still to come.
THEOREM LimiterExact == RateSpec => []LimitExact
<1>1. RateInv => LimitExact
  BY DEF RateInv
<1> QED BY <1>1, RateInvInit, RateInvNext, PTL DEF RateSpec

-----------------------------------------------------------------------------
(* The pages of a search                                                   *)

\* lt is a strict total order of S.
Ordered(lt, S) ==
  /\ \A i \in S : <<i, i>> \notin lt
  /\ \A i, j \in S : i # j => <<i, j>> \in lt \/ <<j, i>> \in lt
  /\ \A i, j, k \in S : <<i, j>> \in lt /\ <<j, k>> \in lt => <<i, k>> \in lt

Ahead(S, lt, i) == {j \in S : <<j, i>> \in lt}
Pos(S, lt, i) == Cardinality(Ahead(S, lt, i))

\* A position is a number below the size of the set, and each is taken once.
LEMMA Positions ==
  ASSUME NEW S, IsFiniteSet(S), NEW lt, Ordered(lt, S)
  PROVE  /\ Cardinality(S) \in Nat
         /\ \A i \in S : IsFiniteSet(Ahead(S, lt, i)) /\ Pos(S, lt, i) \in Nat /\ Pos(S, lt, i) < Cardinality(S)
         /\ \A i, j \in S : <<i, j>> \in lt => Pos(S, lt, i) < Pos(S, lt, j)
         /\ \A i, j \in S : Pos(S, lt, i) = Pos(S, lt, j) => i = j
<1>1. Cardinality(S) \in Nat
  BY FS_CardinalityType
<1>2. ASSUME NEW i \in S
      PROVE  IsFiniteSet(Ahead(S, lt, i)) /\ Pos(S, lt, i) \in Nat /\ Pos(S, lt, i) < Cardinality(S)
  <2>1. Ahead(S, lt, i) \in SUBSET S /\ Ahead(S, lt, i) # S
    BY DEF Ahead, Ordered
  <2>2. IsFiniteSet(Ahead(S, lt, i)) /\ Pos(S, lt, i) <= Cardinality(S) /\ Pos(S, lt, i) # Cardinality(S)
    BY <2>1, FS_Subset DEF Pos
  <2> QED BY <1>1, <2>2, FS_CardinalityType DEF Pos
<1>3. ASSUME NEW i \in S, NEW j \in S, <<i, j>> \in lt PROVE Pos(S, lt, i) < Pos(S, lt, j)
  <2>1. Ahead(S, lt, i) \in SUBSET Ahead(S, lt, j) /\ Ahead(S, lt, i) # Ahead(S, lt, j)
    BY <1>3 DEF Ahead, Ordered
  <2>2. Pos(S, lt, i) <= Pos(S, lt, j) /\ Pos(S, lt, i) # Pos(S, lt, j)
    BY <1>2, <2>1, FS_Subset DEF Pos
  <2> QED BY <1>2, <2>2
<1>4. ASSUME NEW i \in S, NEW j \in S, Pos(S, lt, i) = Pos(S, lt, j) PROVE i = j
  <2>1. ~ (<<i, j>> \in lt) /\ ~ (<<j, i>> \in lt)
    BY <1>2, <1>3, <1>4
  <2> QED BY <2>1 DEF Ordered
<1> QED BY <1>1, <1>2, <1>3, <1>4

\* Every position is taken.
LEMMA PositionTaken ==
  ASSUME NEW S, IsFiniteSet(S), NEW lt, Ordered(lt, S), NEW n \in 0..(Cardinality(S) - 1)
  PROVE  \E i \in S : Pos(S, lt, i) = n
<1> DEFINE c == Cardinality(S)
           f == [i \in S |-> Pos(S, lt, i)]
<1>1. c \in Nat /\ IsFiniteSet(0..(c - 1)) /\ Cardinality(0..(c - 1)) = c
  BY Positions, FS_Interval
<1>2. f \in Injection(S, 0..(c - 1))
  BY Positions DEF Injection, IsInjective
<1> HIDE DEF f
<1>3. f \in Surjection(S, 0..(c - 1))
  BY <1>1, <1>2, FS_Injection
<1> QED BY <1>3 DEF Surjection, f

\* A sequence of the members of S in order has each at its position.
LEMMA InPlace ==
  ASSUME NEW S, IsFiniteSet(S), NEW lt, Ordered(lt, S), NEW s \in SetToSeqs(S),
         \A a, b \in DOMAIN s : a < b => <<s[a], s[b]>> \in lt
  PROVE  /\ s \in Seq(S) /\ Len(s) = Cardinality(S)
         /\ \A n \in 1..Cardinality(S) : Pos(S, lt, s[n]) = n - 1
         /\ \A i \in S : s[Pos(S, lt, i) + 1] = i
<1> DEFINE c == Cardinality(S)
<1>0. c \in Nat /\ IsFiniteSet(1..c) /\ Cardinality(1..c) = c
  BY Positions, FS_Interval
<1>1. s \in [1..c -> S] /\ \A a, b \in 1..c : a # b => s[a] # s[b]
  BY DEF SetToSeqs
<1>2. s \in Seq(S) /\ Len(s) = c
  BY <1>0, <1>1
<1>3. \A i \in S : \E n \in 1..c : s[n] = i
  <2>1. s \in Injection(1..c, S)
    BY <1>1 DEF Injection, IsInjective
  <2>2. s \in Surjection(1..c, S)
    BY <1>0, <2>1, FS_Injection
  <2> QED BY <2>2 DEF Surjection
<1>4. ASSUME NEW n \in 1..c PROVE Pos(S, lt, s[n]) = n - 1
  <2> DEFINE g == [m \in 1..(n - 1) |-> s[m]]
             A == Ahead(S, lt, s[n])
  <2>1. \A m \in 1..c : <<s[m], s[n]>> \in lt <=> m < n
    <3> SUFFICES ASSUME NEW m \in 1..c PROVE <<s[m], s[n]>> \in lt <=> m < n
      OBVIOUS
    <3>1. n \in Nat /\ m \in Nat /\ s[m] \in S /\ s[n] \in S /\ n \in DOMAIN s /\ m \in DOMAIN s
      BY <1>0, <1>1
    <3>2. CASE m < n
      BY <3>1, <3>2
    <3>3. CASE m = n
      BY <3>1, <3>3 DEF Ordered
    <3>4. CASE n < m
      <4>1. <<s[n], s[m]>> \in lt
        BY <3>1, <3>4
      <4> QED BY <3>1, <3>4, <4>1 DEF Ordered
    <3> QED BY <3>1, <3>2, <3>3, <3>4
  <2>2. g \in Bijection(1..(n - 1), A)
    <3>1. \A m \in 1..(n - 1) : m \in 1..c /\ m < n /\ g[m] = s[m]
      BY <1>0
    <3>2. \A m \in 1..(n - 1) : g[m] \in A
      BY <1>1, <2>1, <3>1 DEF Ahead
    <3>3. g \in [1..(n - 1) -> A]
      BY <3>2
    <3>4. \A a, b \in 1..(n - 1) : g[a] = g[b] => a = b
      BY <1>1, <3>1
    <3>5. \A i \in A : \E m \in 1..(n - 1) : g[m] = i
      <4> SUFFICES ASSUME NEW i \in A PROVE \E m \in 1..(n - 1) : g[m] = i
        OBVIOUS
      <4>1. i \in S /\ <<i, s[n]>> \in lt
        BY DEF Ahead
      <4>2. PICK m \in 1..c : s[m] = i
        BY <1>3, <4>1
      <4>3. m < n
        BY <2>1, <4>1, <4>2
      <4>4. m \in 1..(n - 1)
        BY <1>0, <4>3
      <4> QED BY <3>1, <4>2, <4>4
    <3> HIDE DEF g, A
    <3> QED BY <3>3, <3>4, <3>5 DEF Bijection, Injection, Surjection, IsInjective
  <2>3. Cardinality(A) = n - 1
    <3>1. ExistsBijection(1..(n - 1), A)
      BY <2>2 DEF ExistsBijection
    <3> HIDE DEF A
    <3> QED BY <1>0, <3>1, FS_CountingElements
  <2> QED BY <2>3 DEF Pos
<1>5. ASSUME NEW i \in S PROVE s[Pos(S, lt, i) + 1] = i
  <2>1. PICK n \in 1..c : s[n] = i
    BY <1>3
  <2>2. Pos(S, lt, i) + 1 = n
    BY <1>0, <1>4, <2>1
  <2> QED BY <2>1, <2>2
<1> QED BY <1>2, <1>4, <1>5

\* There is such a sequence.
LEMMA CanBeSorted ==
  ASSUME NEW S, IsFiniteSet(S), NEW lt, Ordered(lt, S)
  PROVE  \E s \in SetToSeqs(S) : \A a, b \in DOMAIN s : a < b => <<s[a], s[b]>> \in lt
<1> DEFINE c == Cardinality(S)
           At0(n) == CHOOSE i \in S : Pos(S, lt, i) = n - 1
           s == [n \in 1..c |-> At0(n)]
<1>1. c \in Nat
  BY Positions
<1>2. ASSUME NEW n \in 1..c PROVE s[n] \in S /\ Pos(S, lt, s[n]) = n - 1
  <2>1. n - 1 \in 0..(c - 1)
    BY <1>1
  <2>2. \E i \in S : Pos(S, lt, i) = n - 1
    BY <2>1, PositionTaken
  <2> QED BY <2>2
<1> HIDE DEF At0
<1>3. s \in [1..c -> S]
  BY <1>2
<1>4. DOMAIN s = 1..c
  OBVIOUS
<1> HIDE DEF s
<1>5. \A a, b \in 1..c : a # b => s[a] # s[b]
  BY <1>1, <1>2
<1>6. s \in SetToSeqs(S)
  BY <1>3, <1>5 DEF SetToSeqs
<1>7. ASSUME NEW a \in 1..c, NEW b \in 1..c, a < b PROVE <<s[a], s[b]>> \in lt
  <2>1. a \in Nat /\ b \in Nat /\ s[a] \in S /\ s[b] \in S /\ Pos(S, lt, s[a]) = a - 1 /\ Pos(S, lt, s[b]) = b - 1
    BY <1>1, <1>2
  <2>2. ~ (<<s[b], s[a]>> \in lt)
    <3>1. <<s[b], s[a]>> \in lt => Pos(S, lt, s[b]) < Pos(S, lt, s[a])
      BY <2>1, Positions
    <3> QED BY <1>7, <2>1, <3>1
  <2>3. s[a] # s[b]
    BY <1>7, <2>1
  <2> QED BY <2>1, <2>2, <2>3 DEF Ordered
<1> QED BY <1>4, <1>6, <1>7

-----------------------------------------------------------------------------
\* S in order lt and S2 in order lt2 differ in j alone.
OneMoves(S, lt, S2, lt2, j) ==
  /\ IsFiniteSet(S) /\ IsFiniteSet(S2) /\ Ordered(lt, S) /\ Ordered(lt2, S2)
  /\ S \ {j} = S2 \ {j}
  /\ \A a, b \in S \ {j} : <<a, b>> \in lt <=> <<a, b>> \in lt2

\* One member comes, goes or moves: the others shift by one place at most.
LEMMA Shift ==
  ASSUME NEW S, NEW lt, NEW S2, NEW lt2, NEW j, OneMoves(S, lt, S2, lt2, j), NEW i \in S \ {j}
  PROVE  /\ i \in S2
         /\ Pos(S, lt, i) \in Nat /\ Pos(S2, lt2, i) \in Nat
         /\ Pos(S2, lt2, i) <= Pos(S, lt, i) + 1 /\ Pos(S, lt, i) <= Pos(S2, lt2, i) + 1
         /\ j \notin S => Pos(S, lt, i) <= Pos(S2, lt2, i)
         /\ j \notin S2 => Pos(S2, lt2, i) <= Pos(S, lt, i)
         /\ Pos(S2, lt2, i) > Pos(S, lt, i) => j \in S2 /\ Pos(S2, lt2, j) < Pos(S2, lt2, i)
<1> DEFINE A == Ahead(S, lt, i)
           B == Ahead(S2, lt2, i)
<1>1. i \in S2 /\ IsFiniteSet(A) /\ IsFiniteSet(B)
  BY Positions DEF OneMoves
<1>2. Cardinality(A) \in Nat /\ Cardinality(B) \in Nat
  BY <1>1, FS_CardinalityType
<1>3. /\ B \in SUBSET (A \cup {j}) /\ A \in SUBSET (B \cup {j})
      /\ j \notin S => A \in SUBSET B
      /\ j \notin S2 => B \in SUBSET A
      /\ j \notin B => B \in SUBSET A
  BY DEF Ahead, OneMoves
<1>4. j \in B => j \in S2 /\ <<j, i>> \in lt2
  BY DEF Ahead
<1>5. j \in B => Pos(S2, lt2, j) < Pos(S2, lt2, i)
  BY <1>1, <1>4, Positions DEF OneMoves
<1>6. /\ Pos(S, lt, i) = Cardinality(A) /\ Pos(S2, lt2, i) = Cardinality(B)
  BY DEF Pos
<1> HIDE DEF A, B
<1>7. \A X, Y : IsFiniteSet(Y) /\ X \in SUBSET Y => Cardinality(X) <= Cardinality(Y)
  BY FS_Subset
<1>8. /\ IsFiniteSet(A \cup {j}) /\ Cardinality(A \cup {j}) \in Nat /\ Cardinality(A \cup {j}) <= Cardinality(A) + 1
      /\ IsFiniteSet(B \cup {j}) /\ Cardinality(B \cup {j}) \in Nat /\ Cardinality(B \cup {j}) <= Cardinality(B) + 1
  <2>1. ASSUME NEW X, IsFiniteSet(X), Cardinality(X) \in Nat
        PROVE  /\ IsFiniteSet(X \cup {j}) /\ Cardinality(X \cup {j}) \in Nat
               /\ Cardinality(X \cup {j}) <= Cardinality(X) + 1
    <3>1. IsFiniteSet(X \cup {j})
      BY <2>1, FS_AddElement
    <3>2. Cardinality(X \cup {j}) = Cardinality(X) \/ Cardinality(X \cup {j}) = Cardinality(X) + 1
      BY <2>1, FS_AddElement
    <3> QED BY <2>1, <3>1, <3>2
  <2> QED BY <1>1, <1>2, <2>1
<1>9. /\ Cardinality(B) <= Cardinality(A \cup {j}) /\ Cardinality(A) <= Cardinality(B \cup {j})
      /\ j \notin S => Cardinality(A) <= Cardinality(B)
      /\ j \notin S2 => Cardinality(B) <= Cardinality(A)
      /\ j \notin B => Cardinality(B) <= Cardinality(A)
  BY <1>1, <1>3, <1>7, <1>8
<1> QED BY <1>1, <1>2, <1>4, <1>5, <1>6, <1>8, <1>9

\* The members of T before and from place k of S.
FrontOf(S, lt, T, k) == {i \in T : Pos(S, lt, i) < k}
BackOf(S, lt, T, k) == {i \in T : Pos(S, lt, i) >= k}

\* So at most one slips in front of a cursor, and none unless one has gone...
LEMMA FrontGrows ==
  ASSUME NEW S, NEW lt, NEW S2, NEW lt2, NEW j, OneMoves(S, lt, S2, lt2, j), NEW T \in SUBSET (S \ {j}), NEW k \in Nat
  PROVE  /\ \E x : FrontOf(S2, lt2, T, k) \in SUBSET (FrontOf(S, lt, T, k) \cup {x})
         /\ j \notin S => FrontOf(S2, lt2, T, k) \in SUBSET FrontOf(S, lt, T, k)
<1> DEFINE F == FrontOf(S, lt, T, k)
           F2 == FrontOf(S2, lt2, T, k)
<1>1. ASSUME NEW i \in F2 \ F PROVE i \in S /\ Pos(S, lt, i) = k /\ j \in S
  <2>1. i \in S \ {j} /\ Pos(S2, lt2, i) < k /\ ~ (Pos(S, lt, i) < k)
    BY DEF FrontOf
  <2>2. /\ Pos(S, lt, i) \in Nat /\ Pos(S2, lt2, i) \in Nat
        /\ Pos(S, lt, i) <= Pos(S2, lt2, i) + 1
        /\ j \notin S => Pos(S, lt, i) <= Pos(S2, lt2, i)
    BY <2>1, Shift
  <2> QED BY <2>1, <2>2
<1>2. \A a, b \in F2 \ F : a = b
  BY <1>1, Positions DEF OneMoves
<1> HIDE DEF F, F2
<1>3. \E x : F2 \in SUBSET (F \cup {x})
  <2>1. CASE F2 \ F = {}
    BY <2>1
  <2>2. CASE F2 \ F # {}
    BY <1>2, <2>2
  <2> QED BY <2>1, <2>2
<1> QED BY <1>1, <1>3 DEF F, F2

\* ... and at most one slips behind it, and none unless one has come.
LEMMA BackGrows ==
  ASSUME NEW S, NEW lt, NEW S2, NEW lt2, NEW j, OneMoves(S, lt, S2, lt2, j), NEW G, NEW k \in Nat
  PROVE  /\ \E x : BackOf(S2, lt2, S2 \cap G, k) \in SUBSET (BackOf(S, lt, S \cap G, k) \cup {x})
         /\ j \notin S2 => BackOf(S2, lt2, S2 \cap G, k) \in SUBSET BackOf(S, lt, S \cap G, k)
<1> DEFINE F == BackOf(S, lt, S \cap G, k)
           F2 == BackOf(S2, lt2, S2 \cap G, k)
<1>1. ASSUME NEW i \in F2 \ F, i # j
      PROVE  i \in S /\ Pos(S, lt, i) = k - 1 /\ j \in S2 /\ Pos(S2, lt2, j) < k
  <2>1. i \in S \ {j} /\ Pos(S2, lt2, i) >= k /\ ~ (Pos(S, lt, i) >= k)
    BY <1>1 DEF BackOf, OneMoves
  <2>2. /\ Pos(S, lt, i) \in Nat /\ Pos(S2, lt2, i) \in Nat
        /\ Pos(S2, lt2, i) <= Pos(S, lt, i) + 1
        /\ Pos(S2, lt2, i) > Pos(S, lt, i) => j \in S2 /\ Pos(S2, lt2, j) < Pos(S2, lt2, i)
    BY <2>1, Shift
  <2>3. j \in S2 => Pos(S2, lt2, j) \in Nat
    BY Positions DEF OneMoves
  <2> QED BY <2>1, <2>2, <2>3
<1>2. j \in F2 => j \in S2 /\ Pos(S2, lt2, j) >= k /\ Pos(S2, lt2, j) \in Nat
  BY Positions DEF BackOf, OneMoves
<1>3. \A a, b \in F2 \ F : a = b
  <2> SUFFICES ASSUME NEW a \in F2 \ F, NEW b \in F2 \ F PROVE a = b
    OBVIOUS
  <2>1. CASE a # j /\ b # j
    <3>1. a \in S /\ b \in S /\ Pos(S, lt, a) = Pos(S, lt, b)
      BY <1>1, <2>1
    <3> QED BY <3>1, Positions DEF OneMoves
  <2>2. CASE a = j /\ b # j
    <3>1. Pos(S2, lt2, j) < k
      BY <1>1, <2>2
    <3> QED BY <1>2, <2>2, <3>1
  <2>3. CASE a # j /\ b = j
    <3>1. Pos(S2, lt2, j) < k
      BY <1>1, <2>3
    <3> QED BY <1>2, <2>3, <3>1
  <2> QED BY <2>1, <2>2, <2>3
<1>4. j \notin S2 => F2 \ F = {}
  BY <1>1, <1>2
<1> HIDE DEF F, F2
<1>5. \E x : F2 \in SUBSET (F \cup {x})
  <2>1. CASE F2 \ F = {}
    BY <2>1
  <2>2. CASE F2 \ F # {}
    BY <1>3, <2>2
  <2> QED BY <2>1, <2>2
<1>6. j \notin S2 => F2 \in SUBSET F
  BY <1>4
<1> QED BY <1>5, <1>6 DEF F, F2

\* A set that gains one member at most.
LEMMA GainsOne ==
  ASSUME NEW F, NEW F2, IsFiniteSet(F), \E x : F2 \in SUBSET (F \cup {x})
  PROVE  /\ IsFiniteSet(F2) /\ Cardinality(F2) \in Nat /\ Cardinality(F) \in Nat
         /\ Cardinality(F2) <= Cardinality(F) + 1
         /\ F2 \in SUBSET F => Cardinality(F2) <= Cardinality(F)
<1>1. PICK x : F2 \in SUBSET (F \cup {x})
  OBVIOUS
<1>2. IsFiniteSet(F \cup {x}) /\ Cardinality(F) \in Nat /\ Cardinality(F \cup {x}) <= Cardinality(F) + 1
  BY FS_AddElement, FS_CardinalityType
<1>3. IsFiniteSet(F2) /\ Cardinality(F2) <= Cardinality(F \cup {x})
  BY <1>1, <1>2, FS_Subset
<1>4. Cardinality(F2) \in Nat /\ Cardinality(F \cup {x}) \in Nat
  BY <1>2, <1>3, FS_CardinalityType
<1>5. F2 \in SUBSET F => Cardinality(F2) <= Cardinality(F)
  BY FS_Subset
<1> QED BY <1>2, <1>3, <1>4, <1>5

-----------------------------------------------------------------------------
\* The order of the offers by the comparison of getOffers, for prices sh.
Order(sh, sort, sd) ==
  {p \in Item \X Item :
     IF sort = "price" THEN sh[p[1]] < sh[p[2]] \/ (sh[p[1]] = sh[p[2]] /\ p[1] < p[2])
                       ELSE Rank[sd][p[1]] < Rank[sd][p[2]]}

Sorting == {"price", "random"}
Shelf == [Item -> Cost \cup {0}]

LEMMA InOrder ==
  ASSUME NEW sh, NEW sort, NEW sd, NEW i \in Item, NEW j \in Item
  PROVE  <<i, j>> \in Order(sh, sort, sd) <=>
           IF sort = "price" THEN sh[i] < sh[j] \/ (sh[i] = sh[j] /\ i < j)
                             ELSE Rank[sd][i] < Rank[sd][j]
BY DEF Order

LEMMA OrderTotal ==
  ASSUME NEW sh \in Shelf, NEW sort \in Sorting, NEW sd \in Seed, NEW S \in SUBSET Item
  PROVE  Ordered(Order(sh, sort, sd), S) /\ IsFiniteSet(S)
<1>1. \A i \in Item : i \in Nat /\ sh[i] \in Nat /\ Rank[sd][i] \in Nat
  <2>1. Item \subseteq Nat /\ Cost \cup {0} \subseteq Nat /\ Rank[sd] \in [Item -> Nat]
    BY PagingAssumption
  <2> QED BY <2>1 DEF Shelf
<1>2. \A i, j \in Item : i # j => Rank[sd][i] # Rank[sd][j]
  BY PagingAssumption
<1>3. IsFiniteSet(S)
  BY PagingAssumption, FS_Subset
<1>4. CASE sort = "price"
  <2>1. \A i, j \in Item : <<i, j>> \in Order(sh, sort, sd) <=> sh[i] < sh[j] \/ (sh[i] = sh[j] /\ i < j)
    BY <1>4, InOrder
  <2>2. \A i, j \in S : /\ i \in Nat /\ sh[i] \in Nat
                        /\ (<<i, j>> \in Order(sh, sort, sd) <=> sh[i] < sh[j] \/ (sh[i] = sh[j] /\ i < j))
    BY <1>1, <2>1
  <2>3. \A i, j \in S : i # j => <<i, j>> \in Order(sh, sort, sd) \/ <<j, i>> \in Order(sh, sort, sd)
    BY <2>2
  <2>4. \A i \in S : <<i, i>> \notin Order(sh, sort, sd)
    BY <2>2
  <2>5. \A i, j, k \in S : <<i, j>> \in Order(sh, sort, sd) /\ <<j, k>> \in Order(sh, sort, sd)
                             => <<i, k>> \in Order(sh, sort, sd)
    <3> SUFFICES ASSUME NEW i \in S, NEW j \in S, NEW k \in S,
                        <<i, j>> \in Order(sh, sort, sd), <<j, k>> \in Order(sh, sort, sd)
                 PROVE  <<i, k>> \in Order(sh, sort, sd)
      OBVIOUS
    <3>1. /\ i \in Nat /\ j \in Nat /\ k \in Nat /\ sh[i] \in Nat /\ sh[j] \in Nat /\ sh[k] \in Nat
          /\ sh[i] < sh[j] \/ (sh[i] = sh[j] /\ i < j)
          /\ sh[j] < sh[k] \/ (sh[j] = sh[k] /\ j < k)
      BY <2>2
    <3>2. sh[i] < sh[k] \/ (sh[i] = sh[k] /\ i < k)
      BY <3>1
    <3> QED BY <2>2, <3>2
  <2> QED BY <1>3, <2>3, <2>4, <2>5 DEF Ordered
<1>5. CASE sort # "price"
  <2>1. \A i, j \in Item : <<i, j>> \in Order(sh, sort, sd) <=> Rank[sd][i] < Rank[sd][j]
    BY <1>5, InOrder
  <2>2. \A i, j \in S : Rank[sd][i] \in Nat /\ (<<i, j>> \in Order(sh, sort, sd) <=> Rank[sd][i] < Rank[sd][j])
    BY <1>1, <2>1
  <2>3. \A i, j \in S : i # j => <<i, j>> \in Order(sh, sort, sd) \/ <<j, i>> \in Order(sh, sort, sd)
    BY <1>2, <2>2
  <2>4. \A i \in S : <<i, i>> \notin Order(sh, sort, sd)
    BY <2>2
  <2>5. \A i, j, k \in S : <<i, j>> \in Order(sh, sort, sd) /\ <<j, k>> \in Order(sh, sort, sd)
                             => <<i, k>> \in Order(sh, sort, sd)
    <3> SUFFICES ASSUME NEW i \in S, NEW j \in S, NEW k \in S,
                        <<i, j>> \in Order(sh, sort, sd), <<j, k>> \in Order(sh, sort, sd)
                 PROVE  <<i, k>> \in Order(sh, sort, sd)
      OBVIOUS
    <3>1. /\ Rank[sd][i] \in Nat /\ Rank[sd][j] \in Nat /\ Rank[sd][k] \in Nat
          /\ Rank[sd][i] < Rank[sd][j] /\ Rank[sd][j] < Rank[sd][k]
      BY <2>2
    <3>2. Rank[sd][i] < Rank[sd][k]
      BY <3>1
    <3> QED BY <2>2, <3>2
  <2> QED BY <1>3, <2>3, <2>4, <2>5 DEF Ordered
<1> QED BY <1>4, <1>5

\* enriched.sort puts each offer at its position.
LEMMA SortedInPlace ==
  ASSUME shelf \in Shelf, NEW sort \in Sorting, NEW sd \in Seed, NEW S \in SUBSET Item
  PROVE  LET s == Sorted(S, sort, sd)
             lt == Order(shelf, sort, sd)
         IN  /\ s \in Seq(S) /\ Len(s) = Cardinality(S)
             /\ \A n \in 1..Cardinality(S) : Pos(S, lt, s[n]) = n - 1
             /\ \A i \in S : s[Pos(S, lt, i) + 1] = i
<1> DEFINE s == Sorted(S, sort, sd)
           lt == Order(shelf, sort, sd)
<1>1. Ordered(lt, S) /\ IsFiniteSet(S)
  BY OrderTotal
<1>2. \A i, j \in Item : Precedes(sort, sd, i, j) <=> <<i, j>> \in lt
  BY InOrder DEF Precedes, Sorting
<1> HIDE DEF lt
<1>3. ASSUME NEW t \in SetToSeqs(S)
      PROVE  (\A a, b \in DOMAIN t : a < b => Precedes(sort, sd, t[a], t[b])) <=>
             (\A a, b \in DOMAIN t : a < b => <<t[a], t[b]>> \in lt)
  <2>1. \A a \in DOMAIN t : t[a] \in Item
    BY DEF SetToSeqs
  <2> QED BY <1>2, <2>1
<1>4. \E t \in SetToSeqs(S) : \A a, b \in DOMAIN t : a < b => Precedes(sort, sd, t[a], t[b])
  BY <1>1, <1>3, CanBeSorted
<1>5. s \in SetToSeqs(S) /\ \A a, b \in DOMAIN s : a < b => Precedes(sort, sd, s[a], s[b])
  BY <1>4 DEF Sorted
<1> HIDE DEF s
<1>6. \A a, b \in DOMAIN s : a < b => <<s[a], s[b]>> \in lt
  BY <1>3, <1>5
<1>7. /\ s \in Seq(S) /\ Len(s) = Cardinality(S)
      /\ \A n \in 1..Cardinality(S) : Pos(S, lt, s[n]) = n - 1
      /\ \A i \in S : s[Pos(S, lt, i) + 1] = i
  BY <1>1, <1>5, <1>6, InPlace
<1> QED BY <1>7 DEF s, lt

Between(S, lt, from, to) == {i \in S : Pos(S, lt, i) >= from /\ Pos(S, lt, i) < to}

\* One page holds the offers between two places, each once.
LEMMA PageHolds ==
  ASSUME shelf \in Shelf, NEW sort \in Sorting, NEW sd \in Seed, NEW S \in SUBSET Item,
         NEW from \in Nat, NEW to \in Nat, from <= to
  PROVE  /\ Slice(Sorted(S, sort, sd), from, to) \in Seq(S)
         /\ ToSet(Slice(Sorted(S, sort, sd), from, to)) =
              Between(S, Order(shelf, sort, sd), from \div 2, to \div 2)
         /\ Cardinality(ToSet(Slice(Sorted(S, sort, sd), from, to))) = Len(Slice(Sorted(S, sort, sd), from, to))
<1> DEFINE s == Sorted(S, sort, sd)
           lt == Order(shelf, sort, sd)
           c == Cardinality(S)
           k == from \div 2
           m == IF to \div 2 < Len(s) THEN to \div 2 ELSE Len(s)
           page == SubSeq(s, k + 1, m)
           In == {i \in S : Pos(S, lt, i) >= from \div 2 /\ Pos(S, lt, i) < to \div 2}
<1>1. /\ s \in Seq(S) /\ Len(s) = c
      /\ \A n \in 1..c : Pos(S, lt, s[n]) = n - 1
      /\ \A i \in S : s[Pos(S, lt, i) + 1] = i
  BY SortedInPlace
<1>2. c \in Nat /\ \A i \in S : Pos(S, lt, i) \in Nat /\ Pos(S, lt, i) < c
  BY OrderTotal, Positions
<1>3. k \in Nat /\ m \in Nat /\ m <= c /\ m <= to \div 2 /\ to \div 2 \in Nat /\ (m = to \div 2 \/ m = c)
  BY <1>1, <1>2
<1>4. Slice(s, from, to) = page
  BY DEF Slice
<1> HIDE DEF s, lt, c, m
<1>5. \A n \in (k + 1)..m : n \in 1..c /\ s[n] \in S
  BY <1>1, <1>2, <1>3
<1>6. /\ page \in Seq(S) /\ Len(page) = (IF k + 1 <= m THEN m - k ELSE 0)
      /\ \A n \in 1..(m - k) : page[n] = s[k + n]
  <2>1. \A n \in (k + 1)..m : s[n] \in S
    BY <1>5
  <2>2. k + 1 \in Int /\ m \in Int
    BY <1>3
  <2>3. /\ page \in Seq(S) /\ Len(page) = (IF k + 1 <= m THEN m - (k + 1) + 1 ELSE 0)
        /\ \A n \in 1..(m - (k + 1) + 1) : page[n] = s[(k + 1) + n - 1]
    BY <2>1, <2>2, SubSeqProperties
  <2>4. m - (k + 1) + 1 = m - k /\ \A n \in 1..(m - k) : (k + 1) + n - 1 = k + n
    BY <1>3
  <2> QED BY <2>3, <2>4
<1> HIDE DEF page
<1>7. DOMAIN page = 1..Len(page) /\ Len(page) \in Nat
  BY <1>6
<1>8. \A n \in 1..Len(page) : page[n] = s[k + n] /\ k + n \in 1..c /\ Pos(S, lt, page[n]) = k + n - 1 /\ k + n <= m
  <2> SUFFICES ASSUME NEW n \in 1..Len(page)
               PROVE  page[n] = s[k + n] /\ k + n \in 1..c /\ Pos(S, lt, page[n]) = k + n - 1 /\ k + n <= m
    OBVIOUS
  <2>1. n \in 1..(m - k) /\ k + n <= m /\ k + n \in 1..c
    BY <1>2, <1>3, <1>6
  <2>2. page[n] = s[k + n]
    BY <1>6, <2>1
  <2>3. Pos(S, lt, s[k + n]) = k + n - 1
    BY <1>1, <2>1
  <2> QED BY <2>1, <2>2, <2>3
<1>9. ToSet(page) \subseteq In
  <2> SUFFICES ASSUME NEW n \in 1..Len(page) PROVE page[n] \in In
    BY <1>7 DEF ToSet
  <2>1. page[n] \in S
    BY <1>6, <1>7
  <2>2. Pos(S, lt, page[n]) >= k /\ Pos(S, lt, page[n]) < to \div 2
    BY <1>3, <1>7, <1>8
  <2> QED BY <2>1, <2>2
<1>10. In \subseteq ToSet(page)
  <2> SUFFICES ASSUME NEW i \in In PROVE \E n \in 1..Len(page) : page[n] = i
    BY <1>7 DEF ToSet
  <2> DEFINE n == Pos(S, lt, i) + 1 - k
  <2>1. Pos(S, lt, i) \in Nat /\ Pos(S, lt, i) >= k /\ Pos(S, lt, i) < to \div 2 /\ Pos(S, lt, i) < c
    BY <1>2
  <2>2. n \in 1..(m - k) /\ n \in 1..Len(page) /\ k + n = Pos(S, lt, i) + 1
    BY <1>2, <1>3, <1>6, <2>1
  <2>3. page[n] = s[k + n] /\ s[Pos(S, lt, i) + 1] = i
    BY <1>1, <1>8, <2>2
  <2> QED BY <2>2, <2>3
<1>11. Cardinality(ToSet(page)) = Len(page)
  <2>1. \A a, b \in 1..Len(page) : page[a] = page[b] => a = b
    BY <1>3, <1>7, <1>8
  <2>2. page \in Bijection(1..Len(page), ToSet(page))
    <3>1. page \in [1..Len(page) -> ToSet(page)]
      BY <1>6, <1>7 DEF ToSet
    <3>2. \A t \in ToSet(page) : \E n \in 1..Len(page) : page[n] = t
      BY <1>7 DEF ToSet
    <3> QED BY <2>1, <3>1, <3>2 DEF Bijection, Injection, Surjection, IsInjective
  <2>3. ExistsBijection(1..Len(page), ToSet(page))
    BY <2>2 DEF ExistsBijection
  <2> QED BY <1>7, <2>3, FS_CountingElements
<1>12. ToSet(page) = In
  BY <1>9, <1>10
<1> QED BY <1>4, <1>6, <1>11, <1>12 DEF s, lt, Between

-----------------------------------------------------------------------------
PagingType ==
  /\ stored \in SUBSET Item /\ Present \in SUBSET stored /\ shelf \in Shelf
  /\ walk \in [pc : {"walk", "done", "refused"}, sort : Sorting, asked : Asked, seed : Seed \cup {NoSeed},
               off : Nat, got : Seq(Item)]
  /\ stayed \in SUBSET Present /\ left \in Nat /\ entered \in Nat /\ overfull \in BOOLEAN

\* Offers that stand before the cursor without having been returned, and returned
\* ones that stand behind it.
Missed(sd) == FrontOf(Present, Order(shelf, walk.sort, sd), stayed \ ToSet(walk.got), walk.off \div 2)
Beyond(sd) == BackOf(Present, Order(shelf, walk.sort, sd), Present \cap ToSet(walk.got), walk.off \div 2)

\* Each offer that left has pulled one past the cursor, each that came has pushed one.
OnTrack(sd) ==
  /\ Cardinality(Missed(sd)) <= left
  /\ Len(walk.got) - Cardinality(ToSet(walk.got)) + Cardinality(Beyond(sd)) <= entered

PagingInv ==
  /\ PagingType
  /\ walk.asked % 2 = 0 => walk.off % 2 = 0
  /\ walk.pc = "walk" /\ walk.off % 2 = 0 /\ ~ overfull => \A sd \in SeedOf : OnTrack(sd)
  /\ WalkSound

LEMMA LimitType ==
  ASSUME NEW asked \in Asked
  PROVE  LimitOf(asked) \in Nat /\ asked \in Nat /\ (asked % 2 = 0 => LimitOf(asked) % 2 = 0)
<1>1. asked \in Nat /\ PageMax \in Nat
  BY PagingAssumption
<1>2. (2 * PageMax) % 2 = 0 /\ 2 * PageMax \in Nat
  BY <1>1
<1> QED BY <1>1, <1>2 DEF LimitOf

LEMMA SetFinite == ASSUME NEW g \in Seq(Item) PROVE ToSet(g) \in SUBSET Item /\ IsFiniteSet(ToSet(g))
<1>1. ToSet(g) \in SUBSET Item
  BY LenProperties DEF ToSet
<1> QED BY <1>1, PagingAssumption, FS_Subset

LEMMA SeedsAreSeeds == PagingType => SeedOf \subseteq Seed
BY DEF PagingType, SeedOf

LEMMA PagingStart == PagingInit => PagingInv
<1> SUFFICES ASSUME PagingInit PROVE PagingInv
  OBVIOUS
<1>1. PICK sort \in Sorting, asked \in Asked :
        walk = [pc |-> "walk", sort |-> sort, asked |-> asked, seed |-> NoSeed, off |-> 0, got |-> <<>>]
  BY DEF PagingInit, Sorting
<1>2. walk.pc = "walk" /\ walk.off = 0 /\ walk.got = <<>> /\ ToSet(walk.got) = {} /\ Len(walk.got) = 0
  BY <1>1 DEF ToSet
<1>3. PagingType
  <2>1. /\ stored \in SUBSET Item /\ Present \in SUBSET stored /\ shelf \in Shelf
        /\ stayed \in SUBSET Present /\ left \in Nat /\ entered \in Nat /\ overfull \in BOOLEAN
    BY DEF PagingInit, Shelf
  <2>2. <<>> \in Seq(Item) /\ 0 \in Nat /\ NoSeed \in Seed \cup {NoSeed}
    OBVIOUS
  <2> QED BY <1>1, <2>1, <2>2 DEF PagingType
<1>4. ASSUME NEW sd \in Seed PROVE OnTrack(sd)
  <2>1. \A i \in Present : Pos(Present, Order(shelf, walk.sort, sd), i) \in Nat
    BY <1>3, OrderTotal, Positions DEF PagingType, Present
  <2>2. Missed(sd) = {}
    BY <1>2, <2>1 DEF PagingInit, Missed, FrontOf
  <2>3. Beyond(sd) = {}
    BY <1>2 DEF Beyond, BackOf
  <2>4. Cardinality({}) = 0 /\ left = 0 /\ entered = 0
    BY FS_EmptySet DEF PagingInit
  <2>5. Cardinality(Missed(sd)) = 0 /\ Cardinality(Beyond(sd)) = 0 /\ Cardinality(ToSet(walk.got)) = 0
    BY <1>2, <2>2, <2>3, <2>4
  <2> HIDE DEF Missed, Beyond
  <2> QED BY <1>2, <2>4, <2>5 DEF OnTrack
<1>5. WalkSound
  BY <1>2 DEF WalkSound
<1> QED BY <1>2, <1>3, <1>4, <1>5, SeedsAreSeeds DEF PagingInv

LEMMA RefusedStep == ASSUME PagingInv, CursorRefused PROVE PagingInv'
<1>1. PagingType'
  BY DEF PagingInv, PagingType, CursorRefused, Present
<1>2. walk'.pc = "refused" /\ walk'.asked = walk.asked /\ walk'.off = walk.off /\ walk.off % 2 # 0
  BY DEF PagingInv, PagingType, CursorRefused
<1>3. walk.asked % 2 = 1
  BY <1>2, LimitType DEF PagingInv, PagingType
<1> QED BY <1>1, <1>2, <1>3 DEF PagingInv, WalkSound

\* The market changes at one offer.
LEMMA ChangeStep == ASSUME PagingInv, NEW j \in Item, Change(j) PROVE PagingInv'
<1>1. /\ walk.pc = "walk" /\ walk' = walk /\ overfull' = overfull /\ stayed' = stayed \ {j}
      /\ left' = IF shelf[j] # 0 THEN left + 1 ELSE left
      /\ entered' = IF shelf'[j] # 0 THEN entered + 1 ELSE entered
  BY DEF Change
<1>2. PICK c \in Cost \cup {0}, R \in {stored \cup {j}, stored \ {j}} :
        shelf' = [shelf EXCEPT ![j] = c] /\ stored' = R /\ (c # 0 => j \in R)
  BY DEF Change
<1>3. shelf \in Shelf /\ shelf' \in Shelf /\ \A i \in Item \ {j} : shelf'[i] = shelf[i]
  BY <1>2 DEF PagingInv, PagingType, Shelf
<1>4. Present \ {j} = Present' \ {j} /\ (j \in Present <=> shelf[j] # 0) /\ (j \in Present' <=> shelf'[j] # 0)
  BY <1>3 DEF Present
<1>5. PagingType'
  <2>1. shelf'[j] = c
    BY <1>2 DEF PagingInv, PagingType, Shelf
  <2>2. stored' \in SUBSET Item /\ stored' \ {j} = stored \ {j} /\ (j \in Present' => j \in stored')
    BY <1>2, <1>4, <2>1 DEF PagingInv, PagingType
  <2>3. Present' \in SUBSET stored' /\ stayed' \in SUBSET Present'
    BY <1>1, <1>4, <2>2 DEF PagingInv, PagingType
  <2> QED BY <1>1, <1>3, <2>2, <2>3 DEF PagingInv, PagingType
<1>6. ASSUME walk.off % 2 = 0, ~ overfull, NEW sd \in SeedOf PROVE OnTrack(sd)'
  <2> DEFINE S == Present
             S2 == Present'
             lt == Order(shelf, walk.sort, sd)
             lt2 == Order(shelf', walk.sort, sd)
             G == ToSet(walk.got)
             k == walk.off \div 2
             T == (stayed \ {j}) \ G
  <2>1. sd \in Seed /\ walk.sort \in Sorting /\ S \in SUBSET Item /\ S2 \in SUBSET Item /\ k \in Nat
    BY SeedsAreSeeds DEF PagingInv, PagingType, Present
  <2>2. OneMoves(S, lt, S2, lt2, j)
    <3>1. IsFiniteSet(S) /\ IsFiniteSet(S2) /\ Ordered(lt, S) /\ Ordered(lt2, S2)
      BY <1>3, <2>1, OrderTotal
    <3>2. ASSUME NEW a \in Item \ {j}, NEW b \in Item \ {j} PROVE <<a, b>> \in lt <=> <<a, b>> \in lt2
      <4>1. shelf'[a] = shelf[a] /\ shelf'[b] = shelf[b] /\ a \in Item /\ b \in Item
        BY <1>3
      <4>2. <<a, b>> \in lt <=> IF walk.sort = "price" THEN shelf[a] < shelf[b] \/ (shelf[a] = shelf[b] /\ a < b)
                                                    ELSE Rank[sd][a] < Rank[sd][b]
        BY <4>1, InOrder
      <4>3. <<a, b>> \in lt2 <=> IF walk.sort = "price" THEN shelf'[a] < shelf'[b] \/ (shelf'[a] = shelf'[b] /\ a < b)
                                                     ELSE Rank[sd][a] < Rank[sd][b]
        BY <4>1, InOrder
      <4> QED BY <4>1, <4>2, <4>3
    <3> QED BY <1>4, <2>1, <3>1, <3>2 DEF OneMoves
  <2>3. T \in SUBSET (S \ {j})
    BY DEF PagingInv, PagingType
  <2>4. IsFiniteSet(S) /\ IsFiniteSet(stayed \ G)
    BY <2>1, PagingAssumption, FS_Subset DEF PagingInv, PagingType
  <2>5. /\ FrontOf(S, lt, T, k) \in SUBSET Missed(sd) /\ IsFiniteSet(Missed(sd))
        /\ Missed(sd)' = FrontOf(S2, lt2, T, k)
    <3>1. FrontOf(S, lt, T, k) \in SUBSET Missed(sd) /\ Missed(sd) \in SUBSET (stayed \ G)
      BY DEF FrontOf, Missed
    <3>2. Missed(sd)' = FrontOf(S2, lt2, T, k)
      BY <1>1 DEF Missed
    <3> QED BY <2>4, <3>1, <3>2, FS_Subset
  <2>6. /\ Beyond(sd) = BackOf(S, lt, S \cap G, k) /\ IsFiniteSet(Beyond(sd))
        /\ Beyond(sd)' = BackOf(S2, lt2, S2 \cap G, k)
    <3>1. Beyond(sd) = BackOf(S, lt, S \cap G, k) /\ Beyond(sd) \in SUBSET S
      BY DEF BackOf, Beyond
    <3>2. Beyond(sd)' = BackOf(S2, lt2, S2 \cap G, k)
      BY <1>1 DEF Beyond
    <3> QED BY <2>4, <3>1, <3>2, FS_Subset
  <2> HIDE DEF S, S2, lt, lt2, G, k, T
  <2>7. /\ \E x : FrontOf(S2, lt2, T, k) \in SUBSET (FrontOf(S, lt, T, k) \cup {x})
        /\ j \notin S => FrontOf(S2, lt2, T, k) \in SUBSET FrontOf(S, lt, T, k)
    BY <2>1, <2>2, <2>3, FrontGrows
  <2>8. /\ \E x : BackOf(S2, lt2, S2 \cap G, k) \in SUBSET (BackOf(S, lt, S \cap G, k) \cup {x})
        /\ j \notin S2 => BackOf(S2, lt2, S2 \cap G, k) \in SUBSET BackOf(S, lt, S \cap G, k)
    BY <2>1, <2>2, BackGrows
  <2>9. /\ \E x : Missed(sd)' \in SUBSET (Missed(sd) \cup {x})
        /\ j \notin S => Missed(sd)' \in SUBSET Missed(sd)
    BY <2>5, <2>7
  <2>10. /\ Cardinality(Missed(sd)') \in Nat /\ Cardinality(Missed(sd)) \in Nat
         /\ Cardinality(Missed(sd)') <= Cardinality(Missed(sd)) + 1
         /\ j \notin S => Cardinality(Missed(sd)') <= Cardinality(Missed(sd))
    BY <2>5, <2>9, GainsOne
  <2>11. /\ Cardinality(Beyond(sd)') \in Nat /\ Cardinality(Beyond(sd)) \in Nat
         /\ Cardinality(Beyond(sd)') <= Cardinality(Beyond(sd)) + 1
         /\ j \notin S2 => Cardinality(Beyond(sd)') <= Cardinality(Beyond(sd))
    <3>1. /\ \E x : Beyond(sd)' \in SUBSET (Beyond(sd) \cup {x})
          /\ j \notin S2 => Beyond(sd)' \in SUBSET Beyond(sd)
      BY <2>6, <2>8
    <3> QED BY <2>6, <3>1, GainsOne
  <2>12. OnTrack(sd) /\ left \in Nat /\ entered \in Nat /\ Len(walk.got) \in Nat /\ Cardinality(ToSet(walk.got)) \in Nat
    <3>1. Cardinality(ToSet(walk.got)) \in Nat
      BY SetFinite, FS_CardinalityType DEF PagingInv, PagingType
    <3> QED BY <1>1, <1>6, <3>1 DEF PagingInv, PagingType
  <2>13. Cardinality(Missed(sd)') <= left'
    BY <1>1, <1>4, <2>10, <2>12 DEF OnTrack, S
  <2>14. Len(walk.got) - Cardinality(ToSet(walk.got)) + Cardinality(Beyond(sd)') <= entered'
    BY <1>1, <1>4, <2>11, <2>12 DEF OnTrack, S2
  <2> QED BY <1>1, <2>13, <2>14 DEF OnTrack
<1>7. SeedOf' = SeedOf
  BY <1>1 DEF SeedOf
<1>8. WalkSound'
  BY <1>1 DEF WalkSound
<1> QED BY <1>1, <1>5, <1>6, <1>7, <1>8 DEF PagingInv

\* What a page adds to what the client has: the repeats are the offers of the page
\* that it had.
LEMMA PageAdds ==
  ASSUME NEW got \in Seq(Item), NEW page \in Seq(Item), Cardinality(ToSet(page)) = Len(page)
  PROVE  /\ got \o page \in Seq(Item) /\ ToSet(got \o page) = ToSet(got) \cup ToSet(page)
         /\ Cardinality(ToSet(got) \cap ToSet(page)) \in Nat
         /\ Len(got \o page) - Cardinality(ToSet(got \o page))
              = Len(got) - Cardinality(ToSet(got)) + Cardinality(ToSet(got) \cap ToSet(page))
         /\ Len(got) \in Nat /\ Cardinality(ToSet(got)) \in Nat
<1> DEFINE all == got \o page
           a == Len(got)
           b == Len(page)
<1>1. /\ all \in Seq(Item) /\ Len(all) = a + b
      /\ \A i \in 1..(a + b) : all[i] = IF i <= a THEN got[i] ELSE page[i - a]
  BY ConcatProperties
<1>2. a \in Nat /\ b \in Nat /\ DOMAIN got = 1..a /\ DOMAIN page = 1..b /\ DOMAIN all = 1..(a + b)
  BY <1>1, LenProperties
<1> HIDE DEF all, a, b
<1>3. ToSet(all) \subseteq ToSet(got) \cup ToSet(page)
  <2> SUFFICES ASSUME NEW i \in 1..(a + b) PROVE all[i] \in ToSet(got) \cup ToSet(page)
    BY <1>2 DEF ToSet
  <2>1. CASE i <= a
    <3>1. i \in 1..a /\ all[i] = got[i]
      BY <1>1, <1>2, <2>1
    <3> QED BY <1>2, <3>1 DEF ToSet
  <2>2. CASE ~ (i <= a)
    <3>1. i - a \in 1..b /\ all[i] = page[i - a]
      BY <1>1, <1>2, <2>2
    <3> QED BY <1>2, <3>1 DEF ToSet
  <2> QED BY <2>1, <2>2
<1>4. ToSet(got) \subseteq ToSet(all)
  <2>1. \A i \in 1..a : i \in 1..(a + b) /\ all[i] = got[i]
    BY <1>1, <1>2
  <2> QED BY <1>2, <2>1 DEF ToSet
<1>5. ToSet(page) \subseteq ToSet(all)
  <2> SUFFICES ASSUME NEW i \in 1..b PROVE \E n \in 1..(a + b) : all[n] = page[i]
    BY <1>2 DEF ToSet
  <2>1. a + i \in 1..(a + b) /\ ~ (a + i <= a) /\ (a + i) - a = i
    BY <1>2
  <2>2. all[a + i] = page[i]
    BY <1>1, <2>1
  <2> QED BY <2>1, <2>2
<1>6. ToSet(all) = ToSet(got) \cup ToSet(page)
  BY <1>3, <1>4, <1>5
<1> DEFINE G == ToSet(got)
           P == ToSet(page)
<1>7. IsFiniteSet(G) /\ IsFiniteSet(P) /\ IsFiniteSet(G \cap P)
  BY SetFinite, FS_Intersection
<1> HIDE DEF G, P
<1>8. Cardinality(G \cup P) = Cardinality(G) + Cardinality(P) - Cardinality(G \cap P)
  BY <1>7, FS_Union
<1>9. Cardinality(G) \in Nat /\ Cardinality(P) \in Nat /\ Cardinality(G \cap P) \in Nat
  BY <1>7, FS_CardinalityType
<1>10. Cardinality(P) = b /\ ToSet(all) = G \cup P
  BY <1>6 DEF G, P, b
<1>11. Len(all) - Cardinality(ToSet(all)) = a - Cardinality(G) + Cardinality(G \cap P)
  BY <1>1, <1>2, <1>8, <1>9, <1>10
<1> QED BY <1>1, <1>2, <1>9, <1>10, <1>11 DEF G, P, all, a

LEMMA PageStep == ASSUME PagingInv, NextPage PROVE PagingInv'
<1> DEFINE end == walk.off + LimitOf(walk.asked)
<1>0. PICK sd \in SeedOf, found \in SUBSET stored :
        /\ Cardinality(found) = AtMost(Cardinality(stored), CandidatesMax)
        /\ walk' = [walk EXCEPT !.got = @ \o Slice(Sorted(found \cap Present, walk.sort, sd), walk.off, end),
                                !.seed = sd,
                                !.pc = IF end < 2 * Len(Sorted(found \cap Present, walk.sort, sd)) THEN "walk" ELSE "done",
                                !.off = end]
  BY DEF NextPage
<1>1. PICK rs \in SUBSET Present :
        /\ rs = found \cap Present
        /\ walk' = [walk EXCEPT !.got = @ \o Slice(Sorted(rs, walk.sort, sd), walk.off, end), !.seed = sd,
                                !.pc = IF end < 2 * Len(Sorted(rs, walk.sort, sd)) THEN "walk" ELSE "done", !.off = end]
  BY <1>0
<1> DEFINE lt == Order(shelf, walk.sort, sd)
           sorted == Sorted(rs, walk.sort, sd)
           page == Slice(sorted, walk.off, end)
           G == ToSet(walk.got)
           P == ToSet(page)
           k == walk.off \div 2
           m == end \div 2
<1>2. /\ walk.pc = "walk" /\ walk.off % 2 = 0 /\ UNCHANGED <<stored, shelf, stayed, left, entered>>
      /\ overfull' = (overfull \/ Cardinality(stored) > CandidatesMax)
  BY DEF NextPage
<1>3. /\ shelf \in Shelf /\ walk.sort \in Sorting /\ sd \in Seed /\ walk.off \in Nat /\ walk.asked \in Asked
      /\ walk.got \in Seq(Item) /\ Present \in SUBSET Item /\ stayed \in SUBSET Present /\ rs \in SUBSET Item
      /\ left \in Nat /\ entered \in Nat /\ overfull \in BOOLEAN
      /\ stored \in SUBSET Item /\ Present \in SUBSET stored
  BY <1>1, SeedsAreSeeds DEF PagingInv, PagingType, Present
<1>4. /\ end \in Nat /\ walk.off <= end /\ k \in Nat /\ m \in Nat /\ k <= m
      /\ walk.asked % 2 = 0 => end % 2 = 0
  <2>1. LimitOf(walk.asked) \in Nat /\ walk.asked \in Nat /\ (walk.asked % 2 = 0 => LimitOf(walk.asked) % 2 = 0)
    BY <1>3, LimitType
  <2> QED BY <1>2, <1>3, <2>1
<1>5. /\ page \in Seq(rs) /\ P = {i \in rs : Pos(rs, lt, i) >= k /\ Pos(rs, lt, i) < m}
      /\ Cardinality(P) = Len(page)
  <2>1. /\ shelf \in Shelf /\ walk.sort \in Sorting /\ sd \in Seed /\ rs \in SUBSET Item
        /\ walk.off \in Nat /\ end \in Nat /\ walk.off <= end
    BY <1>3, <1>4
  <2> HIDE DEF end
  <2>2. page \in Seq(rs) /\ P = Between(rs, lt, k, m) /\ Cardinality(P) = Len(page)
    BY <2>1, PageHolds
  <2> QED BY <2>2 DEF Between
<1>6. Len(sorted) = Cardinality(rs)
  BY <1>3, SortedInPlace
<1>7. /\ walk'.got = walk.got \o page /\ walk'.seed = sd /\ walk'.off = end /\ walk'.sort = walk.sort
      /\ walk'.asked = walk.asked
      /\ walk'.pc = IF end < 2 * Len(sorted) THEN "walk" ELSE "done"
  BY <1>1 DEF PagingInv, PagingType
<1>8. page \in Seq(Item)
  BY <1>3, <1>5
<1> HIDE DEF lt, sorted, page, G, P, k, m, end
<1>9. /\ walk.got \o page \in Seq(Item) /\ ToSet(walk.got \o page) = G \cup P
      /\ Cardinality(G \cap P) \in Nat
      /\ Len(walk.got \o page) - Cardinality(ToSet(walk.got \o page))
           = Len(walk.got) - Cardinality(G) + Cardinality(G \cap P)
      /\ Len(walk.got) \in Nat /\ Cardinality(G) \in Nat
  BY <1>3, <1>5, <1>8, PageAdds DEF G, P
<1>10. PagingType'
  <2>1. walk' \in [pc : {"walk", "done", "refused"}, sort : Sorting, asked : Asked, seed : Seed \cup {NoSeed},
                   off : Nat, got : Seq(Item)]
    <3>1. walk.got \o page \in Seq(Item) /\ sd \in Seed \cup {NoSeed} /\ end \in Nat
      BY <1>3, <1>4, <1>9
    <3>2. (IF end < 2 * Len(sorted) THEN "walk" ELSE "done") \in {"walk", "done", "refused"}
      OBVIOUS
    <3>3. walk' = [walk EXCEPT !.got = walk.got \o page, !.seed = sd,
                               !.pc = IF end < 2 * Len(sorted) THEN "walk" ELSE "done", !.off = end]
      BY <1>1 DEF page, sorted, end
    <3> QED BY <3>1, <3>2, <3>3 DEF PagingInv, PagingType
  <2>2. (overfull \/ Cardinality(stored) > CandidatesMax) \in BOOLEAN
    OBVIOUS
  <2> QED BY <1>2, <1>3, <2>1, <2>2 DEF PagingType, Present
<1>11. ASSUME ~ overfull'
       PROVE  /\ walk'.pc = "walk" /\ walk'.off % 2 = 0 => \A s \in SeedOf' : OnTrack(s)'
              /\ walk'.pc = "done" => /\ Cardinality(stayed \ ToSet(walk'.got)) <= left
                                      /\ Len(walk'.got) - Cardinality(ToSet(walk'.got)) <= entered
  <2>1. rs = Present /\ IsFiniteSet(Present) /\ Ordered(lt, Present)
    <3>1. IsFiniteSet(Present) /\ Ordered(lt, Present)
      BY <1>3, OrderTotal DEF lt
    <3>2. IsFiniteSet(stored)
      BY <1>3, PagingAssumption, FS_Subset
    <3>3. Cardinality(stored) \in Nat /\ CandidatesMax \in Nat /\ ~ (Cardinality(stored) > CandidatesMax)
      BY <1>2, <1>11, <3>2, FS_CardinalityType, PagingAssumption
    <3>4. Cardinality(found) = Cardinality(stored)
      BY <1>0, <3>3 DEF AtMost
    <3>5. found = stored
      BY <1>0, <3>2, <3>4, FS_Subset
    <3> QED BY <1>1, <1>3, <3>1, <3>5
  <2>2. OnTrack(sd)
    BY <1>0, <1>2, <1>11 DEF PagingInv
  <2> DEFINE Mi == Missed(sd)
             Be == Beyond(sd)
  <2>3. /\ Mi = {i \in stayed \ G : Pos(Present, lt, i) < k}
        /\ Be = {i \in Present \cap G : Pos(Present, lt, i) >= k}
    BY DEF Missed, Beyond, FrontOf, BackOf, G, k, lt
  <2>4. \A i \in Present : Pos(Present, lt, i) \in Nat /\ Pos(Present, lt, i) < Cardinality(Present)
    BY <2>1, Positions
  <2>5. /\ Cardinality(Mi) <= left /\ Len(walk.got) - Cardinality(G) + Cardinality(Be) <= entered
    BY <2>2 DEF OnTrack, G
  <2>6. G \cap P \in SUBSET Be
    BY <1>5, <2>1, <2>3
  <2> HIDE DEF Mi, Be
  <2>7. IsFiniteSet(Mi) /\ IsFiniteSet(Be) /\ Cardinality(Mi) \in Nat /\ Cardinality(Be) \in Nat
    <3>1. Mi \in SUBSET Present /\ Be \in SUBSET Present
      BY <1>3, <2>3
    <3>2. IsFiniteSet(Mi) /\ IsFiniteSet(Be)
      BY <2>1, <3>1, FS_Subset
    <3> QED BY <3>2, FS_CardinalityType
  <2>8. ASSUME walk'.pc = "walk", walk'.off % 2 = 0 PROVE \A s \in SeedOf' : OnTrack(s)'
    <3> DEFINE Mi2 == {i \in stayed \ (G \cup P) : Pos(Present, lt, i) < m}
               Be2 == {i \in Present \cap (G \cup P) : Pos(Present, lt, i) >= m}
    <3>1. SeedOf' = {sd}
      BY <1>3, <1>7, PagingAssumption DEF SeedOf
    <3>2. Missed(sd)' = Mi2 /\ Beyond(sd)' = Be2
      <4>1. Present' = Present /\ ToSet(walk'.got) = G \cup P /\ walk'.off \div 2 = m /\ Order(shelf', walk'.sort, sd) = lt
        BY <1>2, <1>7, <1>9 DEF Present, m, lt
      <4> QED BY <1>2, <4>1 DEF Missed, Beyond, FrontOf, BackOf
    <3>3. Mi2 \in SUBSET Mi
      <4> SUFFICES ASSUME NEW i \in Mi2 PROVE i \in Mi
        OBVIOUS
      <4>1. i \in Present /\ i \in stayed \ G /\ i \notin P /\ Pos(Present, lt, i) < m
        BY <1>3
      <4>2. ~ (Pos(Present, lt, i) >= k)
        BY <1>5, <2>1, <4>1
      <4>3. Pos(Present, lt, i) < k
        BY <1>4, <2>4, <4>1, <4>2
      <4> QED BY <2>3, <4>1, <4>3
    <3>4. Be2 \in SUBSET Be /\ Be2 \cap (G \cap P) = {}
      <4>1. \A i \in P : i \in Present /\ Pos(Present, lt, i) < m /\ Pos(Present, lt, i) \in Nat
        BY <1>5, <2>1, <2>4
      <4>2. \A i \in Be2 : i \notin P
        BY <1>4, <4>1
      <4>3. \A i \in Be2 : i \in Present \cap G /\ Pos(Present, lt, i) >= m /\ Pos(Present, lt, i) >= k
        BY <1>4, <2>4, <4>2
      <4> QED BY <2>3, <4>2, <4>3
    <3> HIDE DEF Mi2, Be2
    <3>5. Cardinality(Mi2) <= left
      <4>1. Cardinality(Mi2) <= Cardinality(Mi) /\ IsFiniteSet(Mi2)
        BY <2>7, <3>3, FS_Subset
      <4>2. Cardinality(Mi2) \in Nat
        BY <4>1, FS_CardinalityType
      <4> QED BY <1>3, <2>5, <2>7, <4>1, <4>2
    <3>6. Cardinality(Be2) \in Nat /\ Cardinality(Be2) + Cardinality(G \cap P) <= Cardinality(Be)
      <4> DEFINE Q == G \cap P
      <4>1. Q \in SUBSET Be /\ Be2 \in SUBSET Be /\ Be2 \cap Q = {} /\ Be2 \cup Q \in SUBSET Be
        BY <2>6, <3>4
      <4> HIDE DEF Q
      <4>2. IsFiniteSet(Q) /\ IsFiniteSet(Be2) /\ Cardinality(Be2 \cup Q) <= Cardinality(Be)
        BY <2>7, <4>1, FS_Subset
      <4>3. Cardinality(Be2 \cup Q) = Cardinality(Be2) + Cardinality(Q) - Cardinality(Be2 \cap Q)
        BY <4>2, FS_Union
      <4>4. Cardinality(Be2 \cap Q) = 0 /\ Cardinality(Be2) \in Nat /\ Cardinality(Q) \in Nat
        BY <4>1, <4>2, FS_EmptySet, FS_CardinalityType
      <4>5. Cardinality(Be2) + Cardinality(Q) <= Cardinality(Be)
        BY <4>2, <4>3, <4>4
      <4> QED BY <4>4, <4>5 DEF Q
    <3>7. Len(walk'.got) - Cardinality(ToSet(walk'.got)) + Cardinality(Be2) <= entered
      <4>1. Len(walk'.got) - Cardinality(ToSet(walk'.got)) = Len(walk.got) - Cardinality(G) + Cardinality(G \cap P)
        BY <1>7, <1>9
      <4> QED BY <1>3, <1>9, <2>5, <2>7, <3>6, <4>1
    <3>8. OnTrack(sd)'
      BY <1>2, <3>2, <3>5, <3>7 DEF OnTrack
    <3> QED BY <3>1, <3>8
  <2>9. ASSUME walk'.pc = "done"
        PROVE  /\ Cardinality(stayed \ ToSet(walk'.got)) <= left
               /\ Len(walk'.got) - Cardinality(ToSet(walk'.got)) <= entered
    <3>1. end >= 2 * Cardinality(Present) /\ Cardinality(Present) \in Nat
      <4>1. Cardinality(Present) \in Nat
        BY <2>1, FS_CardinalityType
      <4> QED BY <1>4, <1>6, <1>7, <2>1, <2>9, <4>1
    <3>2. Cardinality(Present) <= m
      BY <1>4, <3>1 DEF m
    <3>3. stayed \ (G \cup P) \in SUBSET Mi
      <4> SUFFICES ASSUME NEW i \in stayed \ (G \cup P) PROVE i \in Mi
        OBVIOUS
      <4>1. i \in Present /\ i \in stayed \ G /\ i \notin P /\ Pos(Present, lt, i) \in Nat /\ Pos(Present, lt, i) < m
        BY <1>3, <1>4, <2>4, <3>1, <3>2
      <4>2. Pos(Present, lt, i) < k
        BY <1>4, <1>5, <2>1, <4>1
      <4> QED BY <2>3, <4>1, <4>2
    <3>4. Cardinality(stayed \ (G \cup P)) <= left
      <4>1. Cardinality(stayed \ (G \cup P)) <= Cardinality(Mi) /\ IsFiniteSet(stayed \ (G \cup P))
        BY <2>7, <3>3, FS_Subset
      <4>2. Cardinality(stayed \ (G \cup P)) \in Nat
        BY <4>1, FS_CardinalityType
      <4> QED BY <1>3, <2>5, <2>7, <4>1, <4>2
    <3>5. Cardinality(G \cap P) <= Cardinality(Be)
      BY <2>6, <2>7, FS_Subset
    <3>6. Len(walk.got) - Cardinality(G) + Cardinality(G \cap P) <= entered
      BY <1>3, <1>9, <2>5, <2>7, <3>5
    <3> QED BY <1>7, <1>9, <3>4, <3>6
  <2> QED BY <2>8, <2>9
<1>12. walk'.pc # "refused"
  BY <1>7
<1>13. walk'.asked % 2 = 0 => walk'.off % 2 = 0
  BY <1>4, <1>7
<1>14. WalkSound'
  BY <1>2, <1>11, <1>12 DEF WalkSound
<1> QED BY <1>10, <1>11, <1>13, <1>14 DEF PagingInv

\* A walk to the end misses at most one of the offers that stayed for each that left,
\* repeats at most one for each that came, and is broken off by a fractional limit
\* only (getOffers, parseCursor), for every number of offers, pages and changes.
THEOREM WalksAreSound == PagingSpec => []WalkSound
<1>1. PagingInv /\ [PagingNext]_pagingVars => PagingInv'
  <2> SUFFICES ASSUME PagingInv, [PagingNext]_pagingVars PROVE PagingInv'
    OBVIOUS
  <2>1. CASE NextPage
    BY <2>1, PageStep
  <2>2. CASE CursorRefused
    BY <2>2, RefusedStep
  <2>3. CASE \E j \in Item : Change(j)
    BY <2>3, ChangeStep
  <2>4. CASE UNCHANGED pagingVars
    <3>1. PagingType' /\ WalkSound' /\ SeedOf' = SeedOf
      BY <2>4 DEF pagingVars, PagingInv, PagingType, WalkSound, Present, SeedOf
    <3>2. \A sd : OnTrack(sd) => OnTrack(sd)'
      BY <2>4 DEF pagingVars, OnTrack, Missed, Beyond, Present
    <3> QED BY <2>4, <3>1, <3>2 DEF pagingVars, PagingInv
  <2> QED BY <2>1, <2>2, <2>3, <2>4 DEF PagingNext
<1>2. PagingInv => WalkSound
  BY DEF PagingInv
<1> QED BY <1>1, <1>2, PagingStart, PTL DEF PagingSpec
=============================================================================
