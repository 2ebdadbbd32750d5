-------------------------- MODULE AttestationProofs --------------------------
(* Theorems about Attestation, for every number of lanes, every set of     *)
(* challenges, nonces and request slots, and every value of the limits.    *)
EXTENDS MCAttestRaces, FiniteSetTheorems, TLAPS

-----------------------------------------------------------------------------
(* The inductive invariant.  Its parts are stated of a state s of challenge*)
(* c and of a call r as values, with the clock t and the histories op      *)
(* (opened) and mi (minted) as parameters, so that one lemma says that     *)
(* they survive whatever happens around them.                              *)

\* A started lane carries a nonce drawn for it when it was issued; a done lane was
\* credited with no less than its work, and by now.
LaneInv(c, s, l, mi, t) ==
  /\ s.lanes[l].status # "pending" =>
       /\ s.lanes[l].nonce \in Nonce
       /\ mi[s.lanes[l].nonce] = [c |-> c, l |-> l, at |-> s.lanes[l].issuedAt]
       /\ s.lanes[l].issuedAt <= t
  /\ s.lanes[l].status = "done" =>
       /\ s.lanes[l].elapsed >= Work[l]
       /\ s.lanes[l].issuedAt + s.lanes[l].elapsed <= t

StateInv(c, s, op, mi, t) ==
  /\ op[c] # None /\ s.deadline = op[c] + ChallengeTtl
  /\ \A l \in Lane : LaneInv(c, s, l, mi, t)
  /\ InOrder(s)

AllDone(s) == \A l \in Lane : s.lanes[l].status = "done"

CallInv(r, op, mi, t) ==
  /\ r.pc \notin {"idle", "loadStart"} => r.at <= t /\ t <= r.at + MaxLatency
  /\ r.pc \in {"open", "start", "save", "log", "insert", "close"} =>
       StateInv(r.c, r.s, op, mi, t) /\ r.at <= r.s.deadline
  /\ r.pc = "open" => r.s.deadline = r.at + ChallengeTtl
  /\ r.pc = "start" => r.s.lanes[r.l].status = "started"
  /\ r.pc \in {"log", "insert", "close"} => AllDone(r.s)
  /\ r.pc = "loadSubmit" /\ r.m.nonce # None =>
       mi[r.m.nonce] # None /\ r.at >= mi[r.m.nonce].at + Work[mi[r.m.nonce].l]

EntryInv(c, e, op, mi, t) ==
  StateInv(c, e.s, op, mi, t) /\ e.exp <= e.s.deadline + MaxLatency + 1

RowInv(a, op) ==
  /\ op[a.challenge] # None
  /\ \A l \in Lane : a.elapsed[l] >= Work[l]
  /\ a.measuredAt <= op[a.challenge] + ChallengeTtl

BenchOK == \A c \in Challenge : bench[c] # None => EntryInv(c, bench[c], opened, minted, now)
CallsOK == \A h \in H : CallInv(call[h], opened, minted, now)
RevealedOK == \A n \in revealed : minted[n] # None
RowsOK == \A a \in attested : RowInv(a, opened)
LogOK == /\ attested \subseteq log
         /\ \A h \in H : call[h].pc = "insert" => Attested(call[h]) \in log

IInv == TypeOK /\ BenchOK /\ CallsOK /\ RevealedOK /\ RowsOK /\ LogOK

-----------------------------------------------------------------------------
(* Type correctness                                                        *)

\* A call's program counter tells its type.
LEMMA CallTypes ==
  ASSUME TypeOK, NEW h \in H
  PROVE  /\ call[h].pc = "idle" => call[h] = Idle
         /\ call[h].pc = "open" => call[h] \in OpenCall
         /\ call[h].pc = "loadStart" => call[h] \in LoadCall
         /\ call[h].pc = "start" => call[h] \in StartCall
         /\ call[h].pc \in {"loadSubmit", "drop"} => call[h] \in SubmitCall
         /\ call[h].pc \in {"save", "log", "insert", "close"} => call[h] \in SaveCall
         /\ call[h].pc \in {"idle", "open", "loadStart", "start", "loadSubmit", "drop",
                            "save", "log", "insert", "close"}
BY DEF TypeOK, Idle, OpenCall, LoadCall, StartCall, SubmitCall, SaveCall

LEMMA NewStateType ==
  ASSUME TypeOK, NEW p \in Provider
  PROVE  NewState(p) \in BenchState
BY ConfigAssumption DEF TypeOK, NewState, BenchState, LaneState, Pending

LEMMA GetBenchType ==
  ASSUME TypeOK, NEW c \in Challenge, getBench(c) # None
  PROVE  /\ up /\ bench[c] # None /\ getBench(c) = bench[c].s
         /\ getBench(c) \in BenchState
BY DEF TypeOK, getBench, Entry

LEMMA SetBenchType ==
  ASSUME TypeOK, NEW c \in Challenge, NEW s \in BenchState, NEW px \in Int, setBench(c, s, px)
  PROVE  bench' \in [Challenge -> Entry \cup {None}]
BY DEF TypeOK, setBench, Greater, Entry

LEMMA DropBenchType ==
  ASSUME TypeOK, NEW c \in Challenge, dropBench(c)
  PROVE  bench' \in [Challenge -> Entry \cup {None}]
BY DEF TypeOK, dropBench

LEMMA StartLaneType ==
  ASSUME TypeOK, NEW s \in BenchState, NEW l \in Lane, NEW n \in Nonce
  PROVE  /\ StartLane(s, l, n) \in BenchState
         /\ StartLane(s, l, n).deadline = s.deadline
         /\ \A k \in Lane : StartLane(s, l, n).lanes[k] =
              IF k = l THEN [status |-> "started", issuedAt |-> now, nonce |-> n, elapsed |-> 0]
                       ELSE s.lanes[k]
<1>1. [status |-> "started", issuedAt |-> now, nonce |-> n, elapsed |-> 0] \in LaneState
  BY DEF TypeOK, LaneState
<1>2. s.lanes \in [Lane -> LaneState]
  BY DEF BenchState
<1> QED
  BY <1>1, <1>2 DEF StartLane, BenchState

LEMMA LaneDoneType ==
  ASSUME NEW s \in BenchState, NEW r \in SubmitCall
  PROVE  /\ Elapsed(s, r) \in Int
         /\ LaneDone(s, r) \in BenchState
         /\ LaneDone(s, r).deadline = s.deadline
         /\ \A k \in Lane : LaneDone(s, r).lanes[k] =
              IF k = r.l THEN [s.lanes[k] EXCEPT !.status = "done", !.elapsed = Elapsed(s, r)]
                         ELSE s.lanes[k]
<1>1. r.l \in Lane /\ r.at \in Nat /\ s.lanes \in [Lane -> LaneState]
  BY DEF BenchState, SubmitCall
<1>2. s.lanes[r.l] \in LaneState /\ Elapsed(s, r) \in Int
  BY <1>1 DEF Elapsed, LaneState
<1>3. [s.lanes[r.l] EXCEPT !.status = "done", !.elapsed = Elapsed(s, r)] \in LaneState
  BY <1>2 DEF LaneState
<1> QED
  BY <1>1, <1>2, <1>3 DEF LaneDone, BenchState

LEMMA AttestedType ==
  ASSUME NEW r \in SaveCall
  PROVE  Attested(r) \in Row
<1>1. r.c \in Challenge /\ r.at \in Nat /\ r.s \in BenchState
  BY DEF SaveCall
<1>2. r.s.provider \in Provider /\ r.s.lanes \in [Lane -> LaneState]
  BY <1>1 DEF BenchState
<1>3. \A l \in Lane : Greater(1, r.s.lanes[l].elapsed) \in Nat
  BY <1>2 DEF LaneState, Greater
<1> QED
  BY <1>1, <1>2, <1>3 DEF Attested, Row

CallType == OpenCall \cup LoadCall \cup StartCall \cup SubmitCall \cup SaveCall \cup {Idle}

LEMMA CallStepType ==
  ASSUME TypeOK, CallsOK, NEW h \in H, CallStep(h)
  PROVE  TypeOK'
<1> USE CallTypes
<1>1. ASSUME ChallengeSet(h) PROVE TypeOK'
  <2>1. call[h] \in OpenCall /\ setBench(call[h].c, call[h].s, ChallengeTtl)
    BY <1>1 DEF ChallengeSet
  <2>2. bench' \in [Challenge -> Entry \cup {None}]
    BY <2>1, SetBenchType, ConfigAssumption DEF OpenCall
  <2> QED
    BY <1>1, <2>2 DEF ChallengeSet, End, TypeOK, env, db, history
<1>2. ASSUME StartRefused(h) \/ SubmitRefused(h) PROVE TypeOK'
  BY <1>2 DEF StartRefused, SubmitRefused, End, TypeOK, env, db, history
<1>3. ASSUME NEW n \in Nonce, StartDraw(h, n) PROVE TypeOK'
  <2>1. call[h] \in LoadCall /\ Startable(getBench(call[h].c), call[h].l)
    BY <1>3 DEF StartDraw
  <2>2. getBench(call[h].c) \in BenchState
    BY <2>1, GetBenchType DEF Startable, LoadCall
  <2>3. [pc |-> "start", c |-> call[h].c, l |-> call[h].l, at |-> now,
         s |-> StartLane(getBench(call[h].c), call[h].l, n)] \in StartCall
    BY <2>1, <2>2, StartLaneType DEF StartCall, LoadCall, TypeOK
  <2>4. [c |-> call[h].c, l |-> call[h].l, at |-> now] \in Mint
    BY <2>1 DEF LoadCall, TypeOK, Mint
  <2>5. call' \in [H -> CallType] /\ minted' \in [Nonce -> Mint \cup {None}]
    BY <1>3, <2>3, <2>4 DEF StartDraw, TypeOK, CallType
  <2> QED
    BY <1>3, <2>5 DEF StartDraw, TypeOK, CallType, env, db
<1>4. ASSUME StartSet(h) PROVE TypeOK'
  <2>1. call[h] \in StartCall /\ setBench(call[h].c, call[h].s, call[h].s.deadline - call[h].at)
    BY <1>4 DEF StartSet
  <2>2. call[h].s.deadline - call[h].at \in Int /\ call[h].s \in BenchState /\ call[h].c \in Challenge
    BY <2>1 DEF StartCall, BenchState
  <2>3. bench' \in [Challenge -> Entry \cup {None}]
    BY <2>1, <2>2, SetBenchType
  <2>4. call[h].s.lanes[call[h].l].nonce \in Nonce
    BY <2>1, <1>4 DEF StartSet, CallsOK, CallInv, StateInv, LaneInv, StartCall
  <2>5. revealed' \subseteq Nonce
    BY <1>4, <2>4 DEF StartSet, TypeOK
  <2> QED
    BY <1>4, <2>3, <2>5 DEF StartSet, End, TypeOK, env, db
<1>5. ASSUME SubmitFailed(h) PROVE TypeOK'
  <2>1. call[h] \in SubmitCall /\ [call[h] EXCEPT !.pc = "drop"] \in SubmitCall
    BY <1>5 DEF SubmitFailed, SubmitCall
  <2> QED
    BY <1>5, <2>1 DEF SubmitFailed, TypeOK, env, db, history
<1>6. ASSUME SubmitDrop(h) PROVE TypeOK'
  <2>1. call[h] \in SubmitCall /\ bench' \in [Challenge -> Entry \cup {None}]
    BY <1>6, DropBenchType DEF SubmitDrop, SubmitCall
  <2> QED
    BY <1>6, <2>1 DEF SubmitDrop, End, TypeOK, SubmitCall, env, db
<1>7. ASSUME SubmitPassed(h) PROVE TypeOK'
  <2>1. call[h] \in SubmitCall /\ Admissible(getBench(call[h].c), call[h])
    BY <1>7 DEF SubmitPassed
  <2>2. getBench(call[h].c) \in BenchState
    BY <2>1, GetBenchType DEF Admissible, SubmitCall
  <2>3. LaneDone(getBench(call[h].c), call[h]) \in BenchState
    BY <2>1, <2>2, LaneDoneType
  <2>4. PICK pc \in {"log", "save"} :
          call' = [call EXCEPT ![h] = [pc |-> pc, c |-> call[h].c, at |-> call[h].at,
                                       s |-> LaneDone(getBench(call[h].c), call[h])]]
    BY <1>7 DEF SubmitPassed
  <2>5. call' \in [H -> CallType]
    BY <2>1, <2>3, <2>4 DEF TypeOK, CallType, SubmitCall, SaveCall
  <2> QED
    BY <1>7, <2>5 DEF SubmitPassed, TypeOK, CallType, env, db, history
<1>8. ASSUME SubmitSave(h) PROVE TypeOK'
  <2>1. call[h] \in SaveCall /\ setBench(call[h].c, call[h].s, SaveTtl(call[h]))
    BY <1>8 DEF SubmitSave
  <2>2. SaveTtl(call[h]) \in Int /\ call[h].s \in BenchState /\ call[h].c \in Challenge
    BY <2>1 DEF SaveCall, BenchState, SaveTtl
  <2>3. bench' \in [Challenge -> Entry \cup {None}]
    BY <2>1, <2>2, SetBenchType
  <2> QED
    BY <1>8, <2>3 DEF SubmitSave, End, TypeOK, env, db, history
<1>9. ASSUME SubmitLog(h) \/ SubmitInsert(h) PROVE TypeOK'
  <2>1. call[h] \in SaveCall
    BY <1>9 DEF SubmitLog, SubmitInsert
  <2>2. [call[h] EXCEPT !.pc = "insert"] \in SaveCall /\ [call[h] EXCEPT !.pc = "close"] \in SaveCall
    BY <2>1 DEF SaveCall
  <2>3. Attested(call[h]) \in Row
    BY <2>1, AttestedType
  <2>4. call' \in [H -> CallType]
    BY <1>9, <2>2 DEF SubmitLog, SubmitInsert, TypeOK, CallType
  <2> QED
    BY <1>9, <2>3, <2>4 DEF SubmitLog, SubmitInsert, TypeOK, CallType, env, history
<1>10. ASSUME SubmitClose(h) PROVE TypeOK'
  <2>1. call[h] \in SaveCall /\ bench' \in [Challenge -> Entry \cup {None}]
    BY <1>10, DropBenchType DEF SubmitClose, SaveCall
  <2> QED
    BY <1>10, <2>1 DEF SubmitClose, End, TypeOK, env, db, history
<1> QED
  BY <1>1, <1>2, <1>3, <1>4, <1>5, <1>6, <1>7, <1>8, <1>9, <1>10 DEF CallStep

LEMMA ClientStepType ==
  ASSUME TypeOK, NEW h \in H, ClientStep(h)
  PROVE  TypeOK'
<1>1. ASSUME NEW c \in Challenge, NEW p \in Provider, ChallengeOpen(h, c, p) PROVE TypeOK'
  <2>1. [pc |-> "open", c |-> c, at |-> now, s |-> NewState(p)] \in OpenCall
    BY NewStateType DEF OpenCall, TypeOK
  <2>2. call' \in [H -> CallType] /\ opened' \in [Challenge -> Nat \cup {None}]
    BY <1>1, <2>1 DEF ChallengeOpen, TypeOK, CallType
  <2> QED
    BY <1>1, <2>2 DEF ChallengeOpen, TypeOK, CallType, env, db
<1>2. ASSUME NEW c \in Challenge, NEW l \in Lane, StartRecv(h, c, l) PROVE TypeOK'
  BY <1>2 DEF StartRecv, TypeOK, LoadCall, env, db, history
<1>3. ASSUME NEW c \in Challenge, NEW l \in Lane, NEW m \in Proof, SubmitRecv(h, c, l, m)
      PROVE TypeOK'
  BY <1>3 DEF SubmitRecv, TypeOK, SubmitCall, env, db, history
<1> QED
  BY <1>1, <1>2, <1>3 DEF ClientStep

Fault == (\E lose \in BOOLEAN : RedisDown(lose)) \/ RedisUp \/ Crash

LEMMA EnvStepType ==
  ASSUME TypeOK, Tick \/ Fault \/ UNCHANGED vars
  PROVE  TypeOK'
<1>1. CASE Tick
  BY <1>1 DEF Tick, TypeOK, db, history
<1>2. CASE Fault
  <2>1. ASSUME NEW lose \in BOOLEAN, RedisDown(lose) PROVE TypeOK'
    <3>1. bench' \in [Challenge -> Entry \cup {None}]
      BY <2>1 DEF RedisDown, TypeOK
    <3>2. up' \in BOOLEAN
      BY <2>1 DEF RedisDown
    <3>3. faults < MaxFaults /\ faults' = faults + 1
      BY <2>1 DEF RedisDown
    <3>4. faults' \in 0..MaxFaults
      BY <3>3, BoundAssumption DEF TypeOK
    <3> QED
      BY <2>1, <3>1, <3>2, <3>4 DEF RedisDown, TypeOK, db, history
  <2>2. CASE RedisUp
    BY <2>2 DEF RedisUp, TypeOK, db, history
  <2>3. CASE Crash
    BY <2>3, BoundAssumption DEF Crash, TypeOK, db, history
  <2> QED
    BY <1>2, <2>1, <2>2, <2>3 DEF Fault
<1>3. CASE UNCHANGED vars
  BY <1>3 DEF vars, env, db, history, TypeOK
<1> QED
  BY <1>1, <1>2, <1>3

-----------------------------------------------------------------------------
(* What survives whatever happens around it                                *)

\* Time passes and histories only grow.
Grow(op, mi, t, op2, mi2, t2) ==
  /\ t <= t2
  /\ \A c \in Challenge : op[c] # None => op2[c] = op[c]
  /\ \A n \in Nonce : mi[n] # None => mi2[n] = mi[n]

LEMMA StateStable ==
  ASSUME NEW c \in Challenge, NEW s \in BenchState,
         NEW op, NEW op2, NEW mi, NEW mi2, NEW t \in Nat, NEW t2 \in Nat,
         StateInv(c, s, op, mi, t), Grow(op, mi, t, op2, mi2, t2)
  PROVE  StateInv(c, s, op2, mi2, t2)
<1>1. op2[c] # None /\ s.deadline = op2[c] + ChallengeTtl
  BY DEF StateInv, Grow
<1>2. ASSUME NEW l \in Lane PROVE LaneInv(c, s, l, mi2, t2)
  <2>1. LaneInv(c, s, l, mi, t) /\ s.lanes[l] \in LaneState
    BY DEF StateInv, BenchState
  <2>2. ASSUME s.lanes[l].status # "pending"
        PROVE  /\ mi2[s.lanes[l].nonce] = [c |-> c, l |-> l, at |-> s.lanes[l].issuedAt]
               /\ s.lanes[l].issuedAt <= t2
    <3>1. [c |-> c, l |-> l, at |-> s.lanes[l].issuedAt] \in Mint
      BY <2>1 DEF Mint, LaneState
    <3> QED
      BY <2>1, <2>2, <3>1, NoneAssumption DEF LaneInv, Grow, LaneState
  <2>3. s.lanes[l].status = "done" => s.lanes[l].issuedAt + s.lanes[l].elapsed <= t2
    BY <2>1 DEF LaneInv, Grow, LaneState
  <2> QED
    BY <2>1, <2>2, <2>3 DEF LaneInv
<1> QED
  BY <1>1, <1>2 DEF StateInv

LEMMA CallStable ==
  ASSUME NEW r \in CallType,
         NEW op, NEW op2, NEW mi, NEW mi2, NEW t \in Nat, NEW t2 \in Nat,
         CallInv(r, op, mi, t), Grow(op, mi, t, op2, mi2, t2),
         r.pc \notin {"idle", "loadStart"} => t2 <= r.at + MaxLatency
  PROVE  CallInv(r, op2, mi2, t2)
<1>1. r.pc \notin {"idle", "loadStart"} => r.at <= t2 /\ t2 <= r.at + MaxLatency
  <2>1. r.pc \notin {"idle", "loadStart"} => r.at \in Nat
    BY DEF CallType, Idle, OpenCall, LoadCall, StartCall, SubmitCall, SaveCall
  <2> QED
    BY <2>1 DEF CallInv, Grow
<1>2. r.pc \in {"open", "start", "save", "log", "insert", "close"} =>
        StateInv(r.c, r.s, op2, mi2, t2) /\ r.at <= r.s.deadline
  <2>1. r.pc \in {"open", "start", "save", "log", "insert", "close"} =>
          r.c \in Challenge /\ r.s \in BenchState
    BY DEF CallType, Idle, OpenCall, LoadCall, StartCall, SubmitCall, SaveCall
  <2> QED
    BY <2>1, StateStable DEF CallInv
<1>3. r.pc = "loadSubmit" /\ r.m.nonce # None =>
        mi2[r.m.nonce] # None /\ r.at >= mi2[r.m.nonce].at + Work[mi2[r.m.nonce].l]
  <2>1. r.pc = "loadSubmit" /\ r.m.nonce # None => r.m.nonce \in Nonce
    BY DEF CallType, Idle, OpenCall, LoadCall, StartCall, SubmitCall, SaveCall, Proof
  <2> QED
    BY <2>1 DEF CallInv, Grow
<1> QED
  BY <1>1, <1>2, <1>3 DEF CallInv

Grows == Grow(opened, minted, now, opened', minted', now')

\* Everything that is left alone stays good.
LEMMA Around ==
  ASSUME IInv, now' = now, Grows
  PROVE  /\ \A h \in H : CallInv(call[h], opened', minted', now')
         /\ \A c \in Challenge : bench[c] # None => EntryInv(c, bench[c], opened', minted', now')
         /\ \A a \in attested : RowInv(a, opened')
<1>1. ASSUME NEW h \in H PROVE CallInv(call[h], opened', minted', now')
  <2>1. call[h] \in CallType /\ CallInv(call[h], opened, minted, now) /\ now \in Nat
    BY DEF IInv, TypeOK, CallType, CallsOK
  <2> QED
    BY <2>1, CallStable DEF Grows, CallInv
<1>2. ASSUME NEW c \in Challenge, bench[c] # None
      PROVE  EntryInv(c, bench[c], opened', minted', now')
  <2>1. bench[c].s \in BenchState /\ EntryInv(c, bench[c], opened, minted, now) /\ now \in Nat
    BY <1>2 DEF IInv, TypeOK, BenchOK, Entry
  <2> QED
    BY <2>1, StateStable DEF Grows, EntryInv
<1>3. \A a \in attested : RowInv(a, opened')
  BY DEF IInv, TypeOK, RowsOK, RowInv, Grows, Grow, Row
<1> QED
  BY <1>1, <1>2, <1>3

-----------------------------------------------------------------------------
(* The steps that change the state of a challenge                          *)

LEMMA NewStateInv ==
  ASSUME TypeOK, NEW c \in Challenge, NEW p \in Provider
  PROVE  StateInv(c, NewState(p), [opened EXCEPT ![c] = now], minted, now)
BY ConfigAssumption, NoneAssumption
   DEF StateInv, LaneInv, InOrder, NewState, Pending, TypeOK

\* Drawing a nonce: the lanes before are done by now, and the ones behind pending.
LEMMA StartLaneInv ==
  ASSUME TypeOK, NEW c \in Challenge, NEW s \in BenchState, NEW l \in Lane, NEW n \in Nonce,
         StateInv(c, s, opened, minted, now), Startable(s, l), minted[n] = None
  PROVE  StateInv(c, StartLane(s, l, n), opened,
                  [minted EXCEPT ![n] = [c |-> c, l |-> l, at |-> now]], now)
<1> DEFINE s2 == StartLane(s, l, n)
           mi2 == [minted EXCEPT ![n] = [c |-> c, l |-> l, at |-> now]]
<1> HIDE DEF s2, mi2
<1>1. s2.deadline = s.deadline /\
      \A k \in Lane : s2.lanes[k] =
         IF k = l THEN [status |-> "started", issuedAt |-> now, nonce |-> n, elapsed |-> 0]
                  ELSE s.lanes[k]
  BY StartLaneType DEF s2
<1>2. Grow(opened, minted, now, opened, mi2, now) /\ mi2[n] = [c |-> c, l |-> l, at |-> now]
  BY DEF Grow, TypeOK, mi2
<1>3. now \in Nat /\ StateInv(c, s, opened, mi2, now)
  BY <1>2, StateStable DEF TypeOK
<1>4. \A k \in Lane : LaneInv(c, s2, k, mi2, now)
  BY <1>1, <1>2, <1>3 DEF StateInv, LaneInv
<1>5. \A k \in Lane : s.lanes[k] \in LaneState /\ Work[k] \in Nat /\ k \in Int
  BY LaneAssumption DEF BenchState, Lane
<1>6. InOrder(s2)
  <2> SUFFICES ASSUME NEW k \in Lane, NEW j \in Lane, k < j, s2.lanes[j].status # "pending"
               PROVE  /\ s2.lanes[k].status = "done" /\ s2.lanes[k].elapsed >= 0
                      /\ s2.lanes[k].issuedAt + s2.lanes[k].elapsed <= s2.lanes[j].issuedAt
    BY DEF InOrder
  <2>1. CASE j = l
    <3>1. s.lanes[k].status = "done" /\ s2.lanes[k] = s.lanes[k] /\ s2.lanes[j].issuedAt = now
      BY <2>1, <1>1, <1>5 DEF Startable, PrevDone
    <3>2. LaneInv(c, s, k, mi2, now)
      BY <1>3 DEF StateInv
    <3> QED
      BY <3>1, <3>2, <1>5 DEF LaneInv, LaneState
  <2>2. CASE j # l
    <3>1. s2.lanes[j] = s.lanes[j]
      BY <2>2, <1>1
    <3>2. k # l
      BY <3>1, <1>3 DEF StateInv, InOrder, Startable
    <3> QED
      BY <3>1, <3>2, <1>1, <1>3 DEF StateInv, InOrder
  <2> QED
    BY <2>1, <2>2
<1> QED
  BY <1>1, <1>3, <1>4, <1>6 DEF StateInv, s2, mi2

\* A lane that passed: its proof was computed from the nonce of the lane, so it was
\* received no earlier than Work after the nonce was drawn.
LEMMA LaneDoneInv ==
  ASSUME TypeOK, NEW c \in Challenge, NEW s \in BenchState, NEW r \in SubmitCall,
         r.c = c, r.pc = "loadSubmit", CallInv(r, opened, minted, now),
         StateInv(c, s, opened, minted, now), Admissible(s, r), Passed(s, r)
  PROVE  StateInv(c, LaneDone(s, r), opened, minted, now)
<1> DEFINE s2 == LaneDone(s, r)
<1> HIDE DEF s2
<1>1. s2.deadline = s.deadline /\ Elapsed(s, r) \in Int /\
      \A k \in Lane : s2.lanes[k] =
         IF k = r.l THEN [s.lanes[k] EXCEPT !.status = "done", !.elapsed = Elapsed(s, r)]
                    ELSE s.lanes[k]
  BY LaneDoneType DEF s2
<1>2. \A k \in Lane : s.lanes[k] \in LaneState /\ Work[k] \in Nat /\ k \in Int
  BY LaneAssumption DEF BenchState, Lane
<1>3. r.l \in Lane /\ r.at \in Nat /\ now \in Nat /\ r.at <= now
  BY DEF SubmitCall, TypeOK, CallInv
<1>4. Elapsed(s, r) >= Work[r.l] /\ s.lanes[r.l].issuedAt + Elapsed(s, r) <= now
  <2>1. s.lanes[r.l].status = "started" /\ r.m.nonce # None /\ r.m.nonce = s.lanes[r.l].nonce
    BY DEF Admissible, Passed, Verifies
  <2>2. minted[r.m.nonce] = [c |-> c, l |-> r.l, at |-> s.lanes[r.l].issuedAt]
    BY <2>1, <1>3 DEF StateInv, LaneInv
  <2>3. r.at >= s.lanes[r.l].issuedAt + Work[r.l]
    BY <2>1, <2>2 DEF CallInv
  <2> QED
    BY <2>3, <1>2, <1>3 DEF Elapsed, LaneState
<1>5. s2.lanes[r.l].status = "done" /\ s2.lanes[r.l].elapsed = Elapsed(s, r)
      /\ s2.lanes[r.l].issuedAt = s.lanes[r.l].issuedAt /\ s2.lanes[r.l].nonce = s.lanes[r.l].nonce
  BY <1>1, <1>2, <1>3 DEF LaneState
<1>6. \A k \in Lane : LaneInv(c, s2, k, minted, now)
  <2>1. LaneInv(c, s2, r.l, minted, now)
    BY <1>3, <1>4, <1>5 DEF StateInv, LaneInv, Admissible
  <2>2. \A k \in Lane : k # r.l => LaneInv(c, s2, k, minted, now)
    BY <1>1 DEF StateInv, LaneInv
  <2> QED
    BY <2>1, <2>2
<1>7. InOrder(s2)
  <2> SUFFICES ASSUME NEW k \in Lane, NEW j \in Lane, k < j, s2.lanes[j].status # "pending"
               PROVE  /\ s2.lanes[k].status = "done" /\ s2.lanes[k].elapsed >= 0
                      /\ s2.lanes[k].issuedAt + s2.lanes[k].elapsed <= s2.lanes[j].issuedAt
    BY DEF InOrder
  <2>1. s.lanes[j].status # "pending" /\ s2.lanes[j].issuedAt = s.lanes[j].issuedAt
    BY <1>1, <1>3, <1>5 DEF Admissible
  <2>2. /\ s.lanes[k].status = "done" /\ s.lanes[k].elapsed >= 0
        /\ s.lanes[k].issuedAt + s.lanes[k].elapsed <= s.lanes[j].issuedAt
    BY <2>1 DEF StateInv, InOrder
  <2>3. k # r.l
    BY <2>2 DEF Admissible
  <2> QED
    BY <2>1, <2>2, <2>3, <1>1
<1> QED
  BY <1>1, <1>6, <1>7 DEF StateInv, s2

\* A write to bench:{c} that follows the PX rule keeps every entry good.
LEMMA SetBenchInv ==
  ASSUME IInv, now' = now, Grows, NEW c \in Challenge, NEW s \in BenchState, NEW at \in Nat,
         NEW px \in Int, setBench(c, s, px), px = s.deadline - at, at <= s.deadline,
         now <= at + MaxLatency, StateInv(c, s, opened', minted', now')
  PROVE  BenchOK'
<1>1. \A d \in Challenge : bench[d] # None => EntryInv(d, bench[d], opened', minted', now')
  BY Around
<1>2. now + Greater(1, px) <= s.deadline + MaxLatency + 1
  BY BoundAssumption DEF IInv, TypeOK, Greater, BenchState
<1>3. EntryInv(c, [s |-> s, exp |-> now + Greater(1, px)], opened', minted', now')
  BY <1>2 DEF EntryInv
<1>4. \A d \in Challenge :
        \/ bench'[d] = bench[d]
        \/ d = c /\ bench'[d] = [s |-> s, exp |-> now + Greater(1, px)]
  BY DEF setBench, IInv, TypeOK
<1> QED
  BY <1>1, <1>3, <1>4 DEF BenchOK

LEMMA DropBenchInv ==
  ASSUME IInv, now' = now, Grows, NEW c \in Challenge, dropBench(c)
  PROVE  BenchOK'
BY Around DEF dropBench, BenchOK, IInv, TypeOK

LEMMA IdleInv ==
  ASSUME NEW op, NEW mi, NEW t
  PROVE  CallInv(Idle, op, mi, t) /\ Idle.pc = "idle"
BY DEF CallInv, Idle

\* One call moves on and everyone else's calls stay as they are.
LEMMA OneCall ==
  ASSUME IInv, now' = now, Grows, NEW h \in H, NEW r, call' = [call EXCEPT ![h] = r],
         CallInv(r, opened', minted', now')
  PROVE  CallsOK'
BY Around DEF CallsOK, IInv, TypeOK

-----------------------------------------------------------------------------
(* Preservation                                                            *)

LEMMA StillGrows ==
  ASSUME TypeOK, now' = now, opened' = opened, minted' = minted
  PROVE  Grows
BY DEF Grows, Grow, TypeOK

LEMMA CallStepInv ==
  ASSUME IInv, NEW h \in H, CallStep(h)
  PROVE  IInv'
<1>0. TypeOK' /\ TypeOK /\ CallInv(call[h], opened, minted, now) /\ now \in Nat
  BY CallStepType DEF IInv, CallsOK, TypeOK
<1> USE CallTypes, IdleInv
<1>1. ASSUME ChallengeSet(h) PROVE IInv'
  <2>1. call[h] \in OpenCall /\ now' = now /\ opened' = opened /\ minted' = minted
    BY <1>0, <1>1 DEF ChallengeSet, env, history
  <2>2. Grows
    BY <1>0, <2>1, StillGrows
  <2>3. call[h].c \in Challenge /\ call[h].s \in BenchState /\ call[h].at \in Nat
    BY <2>1 DEF OpenCall
  <2>4. BenchOK'
    <3>1. setBench(call[h].c, call[h].s, ChallengeTtl)
      BY <1>1 DEF ChallengeSet
    <3>2. /\ ChallengeTtl = call[h].s.deadline - call[h].at
          /\ call[h].at <= call[h].s.deadline /\ now <= call[h].at + MaxLatency
          /\ StateInv(call[h].c, call[h].s, opened', minted', now')
      BY <1>0, <1>1, <2>1, <2>3, ConfigAssumption DEF ChallengeSet, CallInv, BenchState
    <3> QED
      BY <2>1, <2>2, <2>3, <3>1, <3>2, ConfigAssumption, SetBenchInv
  <2>5. CallsOK'
    BY <1>1, <2>1, <2>2, OneCall DEF ChallengeSet, End
  <2> QED
    BY <1>0, <1>1, <2>4, <2>5
       DEF ChallengeSet, End, IInv, RevealedOK, RowsOK, LogOK, TypeOK, db, history
<1>2. ASSUME StartRefused(h) \/ SubmitRefused(h) PROVE IInv'
  <2>1. /\ now' = now /\ opened' = opened /\ minted' = minted /\ bench' = bench
        /\ UNCHANGED <<log, attested, revealed>>
        /\ call' = [call EXCEPT ![h] = Idle]
    BY <1>2 DEF StartRefused, SubmitRefused, End, env, db, history
  <2>2. CallsOK' /\ BenchOK'
    BY <1>0, <2>1, StillGrows, OneCall DEF IInv, BenchOK
  <2> QED
    BY <1>0, <2>1, <2>2 DEF IInv, RevealedOK, RowsOK, LogOK, TypeOK
<1>3. ASSUME NEW n \in Nonce, StartDraw(h, n) PROVE IInv'
  <2> DEFINE c == call[h].c
             l == call[h].l
             s == getBench(c)
  <2>1. call[h] \in LoadCall /\ Startable(s, l) /\ minted[n] = None
    BY <1>0, <1>3 DEF StartDraw
  <2>2. c \in Challenge /\ l \in Lane
    BY <2>1 DEF LoadCall
  <2>3. bench[c] # None /\ s = bench[c].s /\ s \in BenchState
    BY <1>0, <2>1, <2>2, GetBenchType DEF Startable
  <2>4. StateInv(c, s, opened, minted, now)
    BY <2>2, <2>3 DEF IInv, BenchOK, EntryInv
  <2>5. /\ now' = now /\ opened' = opened /\ bench' = bench
        /\ UNCHANGED <<log, attested, revealed>>
        /\ minted' = [minted EXCEPT ![n] = [c |-> c, l |-> l, at |-> now]]
        /\ call' = [call EXCEPT ![h] = [pc |-> "start", c |-> c, l |-> l, at |-> now,
                                        s |-> StartLane(s, l, n)]]
    BY <1>3 DEF StartDraw, env, db
  <2>6. Grows
    BY <1>0, <2>1, <2>5 DEF Grows, Grow, TypeOK
  <2>7. /\ StateInv(c, StartLane(s, l, n), opened', minted', now')
        /\ StartLane(s, l, n).deadline = s.deadline
        /\ StartLane(s, l, n).lanes[l].status = "started"
    <3> HIDE DEF c, l, s
    <3>1. StateInv(c, StartLane(s, l, n), opened,
                   [minted EXCEPT ![n] = [c |-> c, l |-> l, at |-> now]], now)
      BY <1>0, <2>1, <2>2, <2>3, <2>4, StartLaneInv
    <3>2. /\ StartLane(s, l, n).deadline = s.deadline
          /\ StartLane(s, l, n).lanes[l] =
               [status |-> "started", issuedAt |-> now, nonce |-> n, elapsed |-> 0]
      BY <1>0, <2>2, <2>3, StartLaneType
    <3> QED
      BY <2>5, <3>1, <3>2
  <2>8. CallInv([pc |-> "start", c |-> c, l |-> l, at |-> now, s |-> StartLane(s, l, n)],
                opened', minted', now')
    BY <1>0, <2>1, <2>5, <2>7, BoundAssumption DEF CallInv, Startable
  <2>9. CallsOK'
    BY <2>5, <2>6, <2>8, OneCall
  <2>10. BenchOK' /\ RowsOK'
    BY <2>5, <2>6, Around DEF BenchOK, RowsOK
  <2>11. RevealedOK'
    BY <1>0, <2>5, <2>6 DEF IInv, RevealedOK, Grows, Grow, TypeOK
  <2>12. LogOK'
    BY <1>0, <2>5 DEF IInv, LogOK, TypeOK
  <2> QED
    BY <1>0, <2>9, <2>10, <2>11, <2>12 DEF IInv
<1>4. ASSUME StartSet(h) PROVE IInv'
  <2>1. /\ call[h] \in StartCall /\ call[h].pc = "start"
        /\ now' = now /\ opened' = opened /\ minted' = minted
    BY <1>0, <1>4 DEF StartSet, env
  <2>2. Grows
    BY <1>0, <2>1, StillGrows
  <2>3. call[h].c \in Challenge /\ call[h].s \in BenchState /\ call[h].at \in Nat /\ call[h].l \in Lane
    BY <2>1 DEF StartCall
  <2>4. BenchOK'
    <3>1. setBench(call[h].c, call[h].s, call[h].s.deadline - call[h].at)
      BY <1>4 DEF StartSet
    <3>2. /\ call[h].s.deadline - call[h].at \in Int
          /\ call[h].at <= call[h].s.deadline /\ now <= call[h].at + MaxLatency
          /\ StateInv(call[h].c, call[h].s, opened', minted', now')
      BY <1>0, <2>1, <2>3 DEF CallInv, BenchState
    <3> QED
      BY <2>1, <2>2, <2>3, <3>1, <3>2, SetBenchInv
  <2>5. CallsOK'
    BY <1>4, <2>1, <2>2, OneCall DEF StartSet, End
  <2>6. minted[call[h].s.lanes[call[h].l].nonce] # None
    <3>1. minted[call[h].s.lanes[call[h].l].nonce] =
            [c |-> call[h].c, l |-> call[h].l, at |-> call[h].s.lanes[call[h].l].issuedAt]
      BY <1>0, <2>1, <2>3 DEF CallInv, StateInv, LaneInv
    <3>2. call[h].s.lanes[call[h].l].issuedAt \in Nat
      BY <2>3 DEF BenchState, LaneState
    <3> QED
      BY <2>3, <3>1, <3>2, NoneAssumption DEF Mint
  <2> QED
    BY <1>0, <1>4, <2>1, <2>4, <2>5, <2>6
       DEF StartSet, End, IInv, RevealedOK, RowsOK, LogOK, TypeOK, db
<1>5. ASSUME SubmitFailed(h) PROVE IInv'
  <2>1. /\ now' = now /\ opened' = opened /\ minted' = minted /\ bench' = bench
        /\ UNCHANGED <<log, attested, revealed>>
        /\ call' = [call EXCEPT ![h] = [call[h] EXCEPT !.pc = "drop"]]
        /\ call[h] \in SubmitCall /\ call[h].pc = "loadSubmit"
    BY <1>0, <1>5 DEF SubmitFailed, env, db, history
  <2>2. CallInv([call[h] EXCEPT !.pc = "drop"], opened', minted', now')
    BY <1>0, <2>1 DEF CallInv, SubmitCall
  <2>3. CallsOK' /\ BenchOK'
    BY <1>0, <2>1, <2>2, StillGrows, OneCall DEF IInv, BenchOK
  <2> QED
    BY <1>0, <2>1, <2>3 DEF IInv, RevealedOK, RowsOK, LogOK, TypeOK, SubmitCall
<1>6. ASSUME SubmitDrop(h) PROVE IInv'
  <2>1. /\ call[h] \in SubmitCall /\ call' = [call EXCEPT ![h] = Idle]
        /\ now' = now /\ opened' = opened /\ minted' = minted
        /\ UNCHANGED <<log, attested, revealed>> /\ dropBench(call[h].c)
    BY <1>0, <1>6 DEF SubmitDrop, End, env, db
  <2>2. CallsOK' /\ BenchOK'
    BY <1>0, <2>1, StillGrows, OneCall, DropBenchInv DEF SubmitCall
  <2> QED
    BY <1>0, <2>1, <2>2 DEF IInv, RevealedOK, RowsOK, LogOK, TypeOK
<1>7. ASSUME SubmitPassed(h) PROVE IInv'
  <2> DEFINE c == call[h].c
             s == getBench(c)
             done == LaneDone(s, call[h])
  <2>1. /\ call[h] \in SubmitCall /\ call[h].pc = "loadSubmit" /\ c \in Challenge /\ call[h].at \in Nat
        /\ Admissible(s, call[h]) /\ Passed(s, call[h])
    BY <1>0, <1>7 DEF SubmitPassed, SubmitCall
  <2>2. bench[c] # None /\ s = bench[c].s /\ s \in BenchState
    BY <1>0, <2>1, GetBenchType DEF Admissible
  <2>3. StateInv(c, s, opened, minted, now)
    BY <2>1, <2>2 DEF IInv, BenchOK, EntryInv
  <2>4. StateInv(c, done, opened, minted, now) /\ done.deadline = s.deadline
    BY <1>0, <2>1, <2>2, <2>3, LaneDoneInv, LaneDoneType
  <2>5. PICK pc \in {"log", "save"} :
          /\ pc = "log" => AllDone(done)
          /\ call' = [call EXCEPT ![h] = [pc |-> pc, c |-> c, at |-> call[h].at, s |-> done]]
    BY <1>7 DEF SubmitPassed, AllDone
  <2>6. /\ now' = now /\ opened' = opened /\ minted' = minted /\ bench' = bench
        /\ UNCHANGED <<log, attested, revealed>>
    BY <1>7 DEF SubmitPassed, env, db, history
  <2>7. CallInv([pc |-> pc, c |-> c, at |-> call[h].at, s |-> done], opened', minted', now')
    <3>1. call[h].at <= now /\ now <= call[h].at + MaxLatency /\ call[h].at <= done.deadline
      BY <1>0, <2>1, <2>4 DEF CallInv, Admissible
    <3> QED
      BY <2>4, <2>5, <2>6, <3>1 DEF CallInv
  <2>8. CallsOK' /\ BenchOK'
    BY <1>0, <2>5, <2>6, <2>7, StillGrows, OneCall DEF IInv, BenchOK
  <2> QED
    BY <1>0, <2>5, <2>6, <2>8 DEF IInv, RevealedOK, RowsOK, LogOK, TypeOK
<1>8. ASSUME SubmitSave(h) PROVE IInv'
  <2>1. /\ call[h] \in SaveCall /\ call[h].pc = "save" /\ call' = [call EXCEPT ![h] = Idle]
        /\ now' = now /\ opened' = opened /\ minted' = minted
        /\ UNCHANGED <<log, attested, revealed>>
    BY <1>0, <1>8 DEF SubmitSave, End, env, db, history
  <2>2. Grows
    BY <1>0, <2>1, StillGrows
  <2>3. call[h].c \in Challenge /\ call[h].s \in BenchState /\ call[h].at \in Nat
    BY <2>1 DEF SaveCall
  <2>4. BenchOK'
    <3>1. setBench(call[h].c, call[h].s, call[h].s.deadline - call[h].at)
      BY <1>8 DEF SubmitSave, SaveTtl
    <3>2. /\ call[h].s.deadline - call[h].at \in Int
          /\ call[h].at <= call[h].s.deadline /\ now <= call[h].at + MaxLatency
          /\ StateInv(call[h].c, call[h].s, opened', minted', now')
      BY <1>0, <2>1, <2>3 DEF CallInv, BenchState
    <3> QED
      BY <2>1, <2>2, <2>3, <3>1, <3>2, SetBenchInv
  <2>5. CallsOK'
    BY <2>1, <2>2, OneCall
  <2> QED
    BY <1>0, <2>1, <2>4, <2>5 DEF IInv, RevealedOK, RowsOK, LogOK, TypeOK
<1>9. ASSUME SubmitLog(h) PROVE IInv'
  <2>1. /\ call[h] \in SaveCall /\ call[h].pc = "log"
        /\ call' = [call EXCEPT ![h] = [call[h] EXCEPT !.pc = "insert"]]
        /\ now' = now /\ opened' = opened /\ minted' = minted /\ bench' = bench
        /\ UNCHANGED <<attested, revealed>> /\ log' = log \cup {Attested(call[h])}
    BY <1>0, <1>9 DEF SubmitLog, env, history
  <2>2. CallInv([call[h] EXCEPT !.pc = "insert"], opened', minted', now')
    BY <1>0, <2>1 DEF CallInv, SaveCall
  <2>3. CallsOK' /\ BenchOK'
    BY <1>0, <2>1, <2>2, StillGrows, OneCall DEF IInv, BenchOK
  <2>4. Attested([call[h] EXCEPT !.pc = "insert"]) = Attested(call[h])
    BY <2>1 DEF Attested, SaveCall
  <2>5. LogOK'
    BY <1>0, <2>1, <2>4 DEF IInv, LogOK, TypeOK
  <2> QED
    BY <1>0, <2>1, <2>3, <2>5 DEF IInv, RevealedOK, RowsOK
<1>10. ASSUME SubmitInsert(h) PROVE IInv'
  <2>1. /\ call[h] \in SaveCall /\ call[h].pc = "insert"
        /\ call' = [call EXCEPT ![h] = [call[h] EXCEPT !.pc = "close"]]
        /\ now' = now /\ opened' = opened /\ minted' = minted /\ bench' = bench
        /\ UNCHANGED <<log, revealed>> /\ attested' = attested \cup {Attested(call[h])}
    BY <1>0, <1>10 DEF SubmitInsert, env, history
  <2>2. CallInv([call[h] EXCEPT !.pc = "close"], opened', minted', now')
    BY <1>0, <2>1 DEF CallInv, SaveCall
  <2>3. CallsOK' /\ BenchOK'
    BY <1>0, <2>1, <2>2, StillGrows, OneCall DEF IInv, BenchOK
  <2>4. LogOK'
    BY <1>0, <2>1 DEF IInv, LogOK, TypeOK, SaveCall
  <2>5. RowInv(Attested(call[h]), opened)
    <3>1. /\ StateInv(call[h].c, call[h].s, opened, minted, now) /\ AllDone(call[h].s)
          /\ call[h].at <= call[h].s.deadline
      BY <1>0, <2>1 DEF CallInv
    <3>2. \A l \in Lane : call[h].s.lanes[l].elapsed >= Work[l]
      BY <3>1 DEF StateInv, LaneInv, AllDone
    <3>3. \A l \in Lane : call[h].s.lanes[l].elapsed \in Int /\ Work[l] \in Nat
      BY <2>1, LaneAssumption DEF SaveCall, BenchState, LaneState
    <3>4. \A l \in Lane : Greater(1, call[h].s.lanes[l].elapsed) >= Work[l]
      BY <3>2, <3>3 DEF Greater
    <3> QED
      BY <3>1, <3>4 DEF RowInv, Attested, StateInv
  <2>6. RowsOK'
    BY <2>1, <2>5 DEF IInv, RowsOK
  <2> QED
    BY <1>0, <2>1, <2>3, <2>4, <2>6 DEF IInv, RevealedOK
<1>11. ASSUME SubmitClose(h) PROVE IInv'
  <2>1. /\ call[h] \in SaveCall /\ call' = [call EXCEPT ![h] = Idle]
        /\ now' = now /\ opened' = opened /\ minted' = minted
        /\ UNCHANGED <<log, attested, revealed>> /\ dropBench(call[h].c)
    BY <1>0, <1>11 DEF SubmitClose, End, env, db, history
  <2>2. CallsOK' /\ BenchOK'
    BY <1>0, <2>1, StillGrows, OneCall, DropBenchInv DEF SaveCall
  <2> QED
    BY <1>0, <2>1, <2>2 DEF IInv, RevealedOK, RowsOK, LogOK, TypeOK
<1> QED
  BY <1>1, <1>2, <1>3, <1>4, <1>5, <1>6, <1>7, <1>8, <1>9, <1>10, <1>11 DEF CallStep

LEMMA ClientStepInv ==
  ASSUME IInv, NEW h \in H, ClientStep(h)
  PROVE  IInv'
<1>0. TypeOK' /\ TypeOK /\ now \in Nat
  BY ClientStepType DEF IInv, TypeOK
<1>1. ASSUME NEW c \in Challenge, NEW p \in Provider, ChallengeOpen(h, c, p) PROVE IInv'
  <2> DEFINE r == [pc |-> "open", c |-> c, at |-> now, s |-> NewState(p)]
  <2>1. /\ now' = now /\ opened[c] = None /\ opened' = [opened EXCEPT ![c] = now]
        /\ minted' = minted /\ bench' = bench /\ UNCHANGED <<log, attested, revealed>>
        /\ call' = [call EXCEPT ![h] = r]
    BY <1>1 DEF ChallengeOpen, env, db
  <2>2. Grows
    BY <1>0, <2>1 DEF Grows, Grow, TypeOK
  <2>3. CallInv(r, opened', minted', now')
    <3>1. StateInv(c, NewState(p), opened', minted', now')
      BY <1>0, <2>1, NewStateInv
    <3> QED
      BY <1>0, <2>1, <3>1, BoundAssumption, ConfigAssumption DEF CallInv, NewState
  <2>4. CallsOK' /\ BenchOK' /\ RowsOK'
    BY <2>1, <2>2, <2>3, OneCall, Around DEF BenchOK, RowsOK
  <2> QED
    BY <1>0, <2>1, <2>4 DEF IInv, RevealedOK, LogOK, TypeOK
<1>2. ASSUME NEW c \in Challenge, NEW l \in Lane, StartRecv(h, c, l) PROVE IInv'
  <2>1. /\ now' = now /\ opened' = opened /\ minted' = minted /\ bench' = bench
        /\ UNCHANGED <<log, attested, revealed>>
        /\ call' = [call EXCEPT ![h] = [pc |-> "loadStart", c |-> c, l |-> l]]
    BY <1>2 DEF StartRecv, env, db, history
  <2>2. CallInv([pc |-> "loadStart", c |-> c, l |-> l], opened', minted', now')
    BY DEF CallInv
  <2>3. CallsOK' /\ BenchOK'
    BY <1>0, <2>1, <2>2, StillGrows, OneCall DEF IInv, BenchOK
  <2> QED
    BY <1>0, <2>1, <2>3 DEF IInv, RevealedOK, RowsOK, LogOK, TypeOK
<1>3. ASSUME NEW c \in Challenge, NEW l \in Lane, NEW m \in Proof, SubmitRecv(h, c, l, m)
      PROVE IInv'
  <2> DEFINE r == [pc |-> "loadSubmit", c |-> c, l |-> l, at |-> now, m |-> m]
  <2>1. /\ now' = now /\ opened' = opened /\ minted' = minted /\ bench' = bench
        /\ UNCHANGED <<log, attested, revealed>>
        /\ call' = [call EXCEPT ![h] = r] /\ Computed(m.nonce)
    BY <1>3 DEF SubmitRecv, env, db, history
  <2>2. CallInv(r, opened', minted', now')
    BY <1>0, <2>1, BoundAssumption DEF CallInv, Computed, IInv, RevealedOK
  <2>3. CallsOK' /\ BenchOK'
    BY <1>0, <2>1, <2>2, StillGrows, OneCall DEF IInv, BenchOK
  <2> QED
    BY <1>0, <2>1, <2>3 DEF IInv, RevealedOK, RowsOK, LogOK, TypeOK
<1> QED
  BY <1>1, <1>2, <1>3 DEF ClientStep

LEMMA TickInv ==
  ASSUME IInv, Tick
  PROVE  IInv'
<1>1. /\ TypeOK' /\ TypeOK /\ now \in Nat /\ now' = now + 1 /\ opened' = opened /\ minted' = minted
      /\ UNCHANGED <<log, attested, revealed, call>>
  BY EnvStepType DEF IInv, Tick, TypeOK, db, history
<1>2. Grow(opened, minted, now, opened', minted', now')
  BY <1>1 DEF Grow, TypeOK
<1>3. CallsOK'
  <2> SUFFICES ASSUME NEW h \in H PROVE CallInv(call[h], opened', minted', now')
    BY <1>1 DEF CallsOK
  <2>1. call[h] \in CallType /\ CallInv(call[h], opened, minted, now)
    BY DEF IInv, CallsOK, TypeOK, CallType
  <2>2. call[h].pc \notin {"idle", "loadStart"} => call[h].at \in Nat /\ now < call[h].at + MaxLatency
    BY <2>1 DEF Tick, CallType, Idle, OpenCall, LoadCall, StartCall, SubmitCall, SaveCall
  <2>3. call[h].pc \notin {"idle", "loadStart"} => now' <= call[h].at + MaxLatency
    BY <1>1, <2>2, BoundAssumption
  <2> QED
    BY <1>1, <1>2, <2>1, <2>3, CallStable
<1>4. BenchOK'
  <2> SUFFICES ASSUME NEW c \in Challenge, bench'[c] # None
               PROVE  EntryInv(c, bench'[c], opened', minted', now')
    BY DEF BenchOK
  <2>1. bench'[c] = bench[c] /\ bench[c] # None
    BY DEF Tick
  <2>2. bench[c].s \in BenchState /\ EntryInv(c, bench[c], opened, minted, now)
    BY <2>1 DEF IInv, TypeOK, BenchOK, Entry
  <2> QED
    BY <1>1, <1>2, <2>1, <2>2, StateStable DEF EntryInv
<1> QED
  BY <1>1, <1>3, <1>4 DEF IInv, RevealedOK, RowsOK, LogOK

LEMMA FaultInv ==
  ASSUME IInv, Fault \/ UNCHANGED vars
  PROVE  IInv'
<1>1. TypeOK'
  BY EnvStepType DEF IInv
<1>2. /\ UNCHANGED <<now, log, attested, opened, minted, revealed>>
      /\ bench' = bench \/ bench' = [c \in Challenge |-> None]
      /\ call' = call \/ call' = [h \in H |-> Idle]
  BY DEF Fault, RedisDown, RedisUp, Crash, vars, env, db, history
<1>3. BenchOK' /\ RevealedOK' /\ RowsOK'
  BY <1>2 DEF IInv, BenchOK, RevealedOK, RowsOK
<1>4. CallsOK' /\ LogOK'
  BY <1>2, IdleInv DEF IInv, CallsOK, LogOK
<1> QED
  BY <1>1, <1>3, <1>4 DEF IInv

-----------------------------------------------------------------------------
(* The theorems                                                            *)

LEMMA InitInv == Init => IInv
<1> SUFFICES ASSUME Init PROVE IInv
  OBVIOUS
<1>1. TypeOK
  BY BoundAssumption DEF Init, TypeOK
<1> QED
  BY <1>1, IdleInv DEF Init, IInv, BenchOK, CallsOK, RevealedOK, RowsOK, LogOK

LEMMA NextInv == IInv /\ [Next]_vars => IInv'
<1> SUFFICES ASSUME IInv, [Next]_vars PROVE IInv'
  OBVIOUS
<1> QED
  BY CallStepInv, ClientStepInv, TickInv, FaultInv DEF Next, Fault

\* The inductive invariant holds throughout.
THEOREM Invariance == Spec => []IInv
BY InitInv, NextInv, PTL DEF Spec

\* Redis, the tables and the requests in flight keep their types.
THEOREM TypeCorrect == Spec => []TypeOK
<1>1. IInv => TypeOK
  BY DEF IInv
<1> QED
  BY <1>1, Invariance, PTL

\* No interleaving of requests, retries, outages and crashes attests a lane faster
\* than its chains can be computed, or a challenge after its deadline.
THEOREM CapabilityIsMeasured == Spec => []ScoresEarned
<1>1. IInv => ScoresEarned
  BY DEF IInv, RowsOK, RowInv, ScoresEarned
<1> QED
  BY <1>1, Invariance, PTL

\* Lanes never overlap, in Redis or in any copy a request works on.
THEOREM LanesNeverOverlap == Spec => []LanesInOrder
<1>1. IInv => LanesInOrder
  <2> SUFFICES ASSUME IInv, NEW c \in Challenge, NEW s \in StatesOf(c) PROVE InOrder(s)
    BY DEF LanesInOrder
  <2>1. CASE bench[c] # None /\ s = bench[c].s
    BY <2>1 DEF IInv, BenchOK, EntryInv, StateInv
  <2>2. CASE \E h \in H : /\ call[h].pc \in {"open", "start", "save", "log", "insert", "close"}
                          /\ s = call[h].s
    BY <2>2 DEF IInv, CallsOK, CallInv, StateInv
  <2> QED
    BY <2>1, <2>2 DEF StatesOf
<1> QED
  BY <1>1, Invariance, PTL

\* Every attestation row has its payload in the durable log.
THEOREM AttestationsAreServed == Spec => []AttestedIsLogged
<1>1. IInv => AttestedIsLogged
  BY DEF IInv, LogOK, AttestedIsLogged
<1> QED
  BY <1>1, Invariance, PTL

\* The state of a challenge never outlives its deadline by more than a latency.
THEOREM ChallengesExpire == Spec => []BenchBounded
<1>1. IInv => BenchBounded
  BY DEF IInv, BenchOK, EntryInv, BenchBounded
<1> QED
  BY <1>1, Invariance, PTL

-----------------------------------------------------------------------------
(* One request at a time.  The agent drives a challenge with one request   *)
(* after the other, so no two requests for one challenge are in flight     *)
(* together; requests for different challenges still interleave.           *)

OneCallEach ==
  \A g, h \in H : call[g] # Idle /\ call[h] # Idle /\ call[g].c = call[h].c => g = h

\* A challenge that was answered BENCH_FAILED or has its attestation.
Closed(c) == c \in failed \/ \E a \in attested : a.challenge = c

\* Without faults a closed challenge is gone from Redis, except between the insert
\* and the DEL of the request that closes it, and no request works on a copy of it.
TurnInv ==
  faults = 0 =>
    /\ up = TRUE
    /\ \A c \in Challenge : Closed(c) => opened[c] # None
    /\ \A h \in H : call[h] # Idle => opened[call[h].c] # None
    /\ \A c \in failed : bench[c] = None
    /\ \A a, b \in attested : a.challenge = b.challenge => a = b
    /\ \A c \in Challenge : Closed(c) =>
         /\ bench[c] = None \/ \E h \in H : call[h].pc = "close" /\ call[h].c = c
         /\ \A h \in H : call[h].pc \in {"open", "start", "save", "log", "insert", "drop"} => call[h].c # c

\* What one step of a request does to the challenge it is about.
LEMMA CallMoves ==
  ASSUME TypeOK, up = TRUE, NEW h \in H, CallStep(h)
  PROVE  /\ call[h] # Idle /\ call[h].c \in Challenge /\ UNCHANGED <<up, faults, opened>>
         /\ \A g \in H \ {h} : call'[g] = call[g]
         /\ call'[h] = Idle \/ call'[h].c = call[h].c
         /\ \A c \in Challenge : c # call[h].c => bench'[c] = bench[c]
         /\ \/ /\ call[h].pc \in {"open", "start", "save"} /\ call'[h] = Idle /\ UNCHANGED <<attested, failed>>
            \/ /\ call'[h] = Idle /\ call[h].pc \in {"loadStart", "loadSubmit"} /\ UNCHANGED <<bench, attested, failed>>
            \/ /\ call[h].pc \in {"loadStart", "loadSubmit"} /\ bench[call[h].c] # None
               /\ call'[h].pc \in {"start", "save", "log", "drop"} /\ UNCHANGED <<bench, attested, failed>>
            \/ /\ call[h].pc = "drop" /\ call'[h] = Idle /\ bench'[call[h].c] = None
               /\ failed' = failed \cup {call[h].c} /\ UNCHANGED attested
            \/ /\ call[h].pc = "log" /\ call'[h].pc = "insert" /\ UNCHANGED <<bench, attested, failed>>
            \/ /\ call[h].pc = "insert" /\ call'[h].pc = "close" /\ UNCHANGED <<bench, failed>>
               /\ attested' = attested \cup {Attested(call[h])}
            \/ /\ call[h].pc = "close" /\ call'[h] = Idle /\ bench'[call[h].c] = None /\ UNCHANGED <<attested, failed>>
<1> USE CallTypes
<1> DEFINE c == call[h].c
<1>1. c \in Challenge /\ call[h] # Idle
  BY DEF CallStep, ChallengeSet, StartRefused, StartDraw, StartSet, SubmitRefused, SubmitFailed, SubmitDrop,
     SubmitPassed, SubmitSave, SubmitLog, SubmitInsert, SubmitClose,
     OpenCall, LoadCall, StartCall, SubmitCall, SaveCall, Idle
<1>2. call \in [H -> CallType] /\ bench \in [Challenge -> Entry \cup {None}]
  BY DEF TypeOK, CallType
<1>3. ASSUME End(h) PROVE call'[h] = Idle /\ \A g \in H \ {h} : call'[g] = call[g]
  BY <1>2, <1>3 DEF End
<1>4. ASSUME NEW s, NEW px, setBench(c, s, px) PROVE \A x \in Challenge : x # c => bench'[x] = bench[x]
  BY <1>2, <1>4 DEF setBench
<1>5. ASSUME dropBench(c) PROVE bench'[c] = None /\ \A x \in Challenge : x # c => bench'[x] = bench[x]
  BY <1>1, <1>2, <1>5 DEF dropBench
<1>6. CASE ChallengeSet(h)
  BY <1>1, <1>3, <1>4, <1>6 DEF ChallengeSet, env, db, history
<1>7. CASE StartSet(h)
  BY <1>1, <1>3, <1>4, <1>7 DEF StartSet, env, db
<1>8. CASE SubmitSave(h)
  BY <1>1, <1>3, <1>4, <1>8 DEF SubmitSave, env, db, history
<1>9. CASE StartRefused(h) \/ SubmitRefused(h)
  BY <1>1, <1>3, <1>9 DEF StartRefused, SubmitRefused, env, db, history
<1>10. ASSUME getBench(c) # None PROVE bench[c] # None
  BY <1>1, <1>10, GetBenchType
<1>11. CASE \E n \in Nonce : StartDraw(h, n)
  <2>1. PICK n \in Nonce : StartDraw(h, n)
    BY <1>11
  <2>2. getBench(c) # None /\ UNCHANGED <<up, faults, opened, bench, attested, failed>> /\ call[h].pc = "loadStart"
    BY <2>1 DEF StartDraw, Startable, env, db
  <2>3. call'[h].pc = "start" /\ call'[h].c = c /\ \A g \in H \ {h} : call'[g] = call[g]
    BY <1>2, <2>1 DEF StartDraw
  <2> QED BY <1>1, <1>10, <2>2, <2>3
<1>12. CASE SubmitFailed(h)
  <2>1. getBench(c) # None /\ UNCHANGED <<up, faults, opened, bench, attested, failed>> /\ call[h].pc = "loadSubmit"
    BY <1>12 DEF SubmitFailed, Admissible, env, db, history
  <2>2. call[h] \in SubmitCall /\ call' = [call EXCEPT ![h].pc = "drop"]
    BY <1>12 DEF SubmitFailed
  <2>3. call'[h].pc = "drop" /\ call'[h].c = c /\ \A g \in H \ {h} : call'[g] = call[g]
    BY <1>2, <2>2 DEF SubmitCall
  <2> QED BY <1>1, <1>10, <2>1, <2>3
<1>13. CASE SubmitDrop(h)
  BY <1>1, <1>3, <1>5, <1>13 DEF SubmitDrop, env, db
<1>14. CASE SubmitPassed(h)
  <2>1. getBench(c) # None /\ UNCHANGED <<up, faults, opened, bench, attested, failed>> /\ call[h].pc = "loadSubmit"
    BY <1>14 DEF SubmitPassed, Admissible, env, db, history
  <2>2. call'[h].pc \in {"log", "save"} /\ call'[h].c = c /\ \A g \in H \ {h} : call'[g] = call[g]
    BY <1>2, <1>14 DEF SubmitPassed
  <2> QED BY <1>1, <1>10, <2>1, <2>2
<1>15. ASSUME NEW pc \in {"insert", "close"}, call[h] \in SaveCall, call' = [call EXCEPT ![h].pc = pc]
       PROVE  call'[h].pc = pc /\ call'[h].c = c /\ \A g \in H \ {h} : call'[g] = call[g]
  BY <1>2, <1>15 DEF SaveCall
<1>16. CASE SubmitLog(h)
  BY <1>1, <1>15, <1>16 DEF SubmitLog, env, history
<1>17. CASE SubmitInsert(h)
  BY <1>1, <1>15, <1>17 DEF SubmitInsert, env, history
<1>18. CASE SubmitClose(h)
  BY <1>1, <1>3, <1>5, <1>18 DEF SubmitClose, env, db, history
<1> QED BY <1>6, <1>7, <1>8, <1>9, <1>11, <1>12, <1>13, <1>14, <1>16, <1>17, <1>18 DEF CallStep

LEMMA CallTurn ==
  ASSUME TypeOK, OneCallEach, TurnInv, NEW h \in H, CallStep(h), faults = 0
  PROVE  TurnInv'
<1>1. up = TRUE
  BY DEF TurnInv
<1> PICK q \in Challenge : q = call[h].c
  BY <1>1, CallMoves
<1> DEFINE r == call[h]
           d == call'[h]
<1>2. /\ r # Idle /\ r.c = q /\ UNCHANGED <<up, faults, opened>>
      /\ \A g \in H \ {h} : call'[g] = call[g] /\ (call[g] # Idle => call[g].c # q)
      /\ d # Idle => d.c = q
      /\ \A c \in Challenge : c # q => bench'[c] = bench[c]
  BY <1>1, CallMoves DEF OneCallEach
<1>3. /\ opened[q] # None /\ attested \subseteq Row /\ failed \subseteq Challenge
      /\ \A g \in H : call[g].pc # "idle" => call[g] # Idle
      /\ \A g \in H : call'[g].pc # "idle" => call'[g] # Idle
  BY <1>2 DEF TurnInv, TypeOK, Idle
<1>4. \A a \in attested : a.challenge \in Challenge
  BY <1>3 DEF Row
<1>5. \A g \in H : call'[g] # Idle => opened'[call'[g].c] # None
  BY <1>2, <1>3 DEF TurnInv
\* Every other challenge is as it was.
<1>6. ASSUME NEW c \in Challenge, c # q, Closed(c)
      PROVE  /\ bench'[c] = None \/ \E g \in H : call'[g].pc = "close" /\ call'[g].c = c
             /\ \A g \in H : call'[g].pc \in {"open", "start", "save", "log", "insert", "drop"} => call'[g].c # c
             /\ opened'[c] # None
  <2>1. \A g \in H : call[g].pc = "close" /\ call[g].c = c => call'[g] = call[g]
    BY <1>2, <1>6
  <2>2. \A g \in H : call'[g] # Idle /\ call'[g].c = c => call'[g] = call[g]
    BY <1>2, <1>6
  <2> QED BY <1>2, <1>3, <1>6, <2>1, <2>2 DEF TurnInv
<1>7. Closed(q) => bench[q] = None \/ r.pc = "close"
  BY <1>2, <1>3 DEF TurnInv
<1>8. Closed(q) => r.pc \notin {"open", "start", "save", "log", "insert", "drop"}
  BY <1>2 DEF TurnInv
<1>9. \A g \in H : call'[g] # Idle /\ call'[g].c = q => g = h
  BY <1>2
<1>10. CASE UNCHANGED <<attested, failed>>
  <2>1. \A c : Closed(c)' <=> Closed(c)
    BY <1>10 DEF Closed
  <2>2. Closed(q) => bench'[q] = None /\ d = Idle
    BY <1>1, <1>2, <1>3, <1>7, <1>8, CallMoves DEF Idle
  <2>3. Closed(q) => \A g \in H : call'[g].pc \in {"open", "start", "save", "log", "insert", "drop"} => call'[g].c # q
    BY <1>3, <1>9, <2>2
  <2>4. \A c \in failed : bench'[c] = None
    BY <1>2, <1>3, <2>2 DEF TurnInv, Closed
  <2> QED BY <1>2, <1>3, <1>5, <1>6, <1>10, <2>1, <2>2, <2>3, <2>4 DEF TurnInv
<1>11. CASE /\ r.pc = "drop" /\ d = Idle /\ bench'[q] = None
            /\ failed' = failed \cup {q} /\ UNCHANGED attested
  <2>1. \A c : Closed(c)' <=> Closed(c) \/ c = q
    BY <1>11 DEF Closed
  <2>2. \A g \in H : call'[g].pc \in {"open", "start", "save", "log", "insert", "drop"} => call'[g].c # q
    BY <1>3, <1>9, <1>11
  <2>3. \A c \in failed' : bench'[c] = None
    BY <1>2, <1>3, <1>11 DEF TurnInv
  <2> QED BY <1>2, <1>3, <1>5, <1>6, <1>11, <2>1, <2>2, <2>3 DEF TurnInv
<1>12. CASE /\ r.pc = "insert" /\ d.pc = "close" /\ UNCHANGED <<bench, failed>>
            /\ attested' = attested \cup {Attested(r)}
  <2>1. Attested(r).challenge = q
    BY <1>2 DEF Attested
  <2>2. \A c : Closed(c)' <=> Closed(c) \/ c = q
    BY <1>12, <2>1 DEF Closed
  <2>3. \A a, b \in attested' : a.challenge = b.challenge => a = b
    BY <1>8, <1>12, <2>1 DEF TurnInv, Closed
  <2>4. d # Idle /\ d.c = q
    BY <1>2, <1>3, <1>12
  <2>5. \A g \in H : call'[g].pc \in {"open", "start", "save", "log", "insert", "drop"} => call'[g].c # q
    BY <1>3, <1>9, <1>12
  <2>6. \A c \in failed' : bench'[c] = None
    BY <1>12 DEF TurnInv
  <2> QED BY <1>2, <1>3, <1>5, <1>6, <1>12, <2>2, <2>3, <2>4, <2>5, <2>6 DEF TurnInv
<1> QED BY <1>1, <1>2, <1>10, <1>11, <1>12, CallMoves

LEMMA NextTurn == TypeOK /\ OneCallEach /\ TurnInv /\ [Next]_vars => TurnInv'
<1> SUFFICES ASSUME TypeOK, OneCallEach, TurnInv, [Next]_vars PROVE TurnInv'
  OBVIOUS
<1>1. CASE \E h \in H : CallStep(h)
  <2>1. PICK h \in H : CallStep(h)
    BY <1>1
  <2>2. UNCHANGED faults
    BY <2>1 DEF CallStep, ChallengeSet, StartRefused, StartDraw, StartSet, SubmitRefused, SubmitFailed, SubmitDrop,
       SubmitPassed, SubmitSave, SubmitLog, SubmitInsert, SubmitClose, env
  <2>3. CASE faults = 0
    BY <2>1, <2>3, CallTurn
  <2>4. CASE faults # 0
    BY <2>2, <2>4 DEF TurnInv
  <2> QED BY <2>3, <2>4
<1>2. CASE \E h \in H : ClientStep(h)
  <2>1. PICK h \in H : ClientStep(h)
    BY <1>2
  <2>2. /\ UNCHANGED <<up, faults, bench, attested, failed>> /\ call[h] = Idle
        /\ \A g \in H \ {h} : call'[g] = call[g]
        /\ \/ call'[h].pc \in {"loadStart", "loadSubmit"} /\ UNCHANGED opened /\ opened[call'[h].c] # None
           \/ /\ call'[h].pc = "open" /\ call'[h].c \in Challenge /\ opened[call'[h].c] = None
              /\ opened' = [opened EXCEPT ![call'[h].c] = now]
    BY <2>1 DEF ClientStep, ChallengeOpen, StartRecv, SubmitRecv, Named, TypeOK, env, db, history
  <2>3. /\ now # None /\ \A c \in Challenge : Closed(c)' <=> Closed(c)
        /\ Idle.pc = "idle"
    BY <2>2, NoneAssumption DEF Closed, TypeOK, Idle
  <2>4. faults = 0 => \A c \in Challenge : Closed(c) => (call'[h].pc = "open" => call'[h].c # c)
    BY <2>2 DEF TurnInv
  <2>5. \A c \in Challenge : opened[c] # None => opened'[c] # None
    BY <2>2, <2>3 DEF TypeOK
  <2>6. /\ opened'[call'[h].c] # None
        /\ \A g \in H : call[g] # Idle => call[g].c \in Challenge
    BY <2>2, <2>3, CallTypes DEF TypeOK, OpenCall, LoadCall, StartCall, SubmitCall, SaveCall, Idle
  <2>7. faults = 0 => \A g \in H : call'[g] # Idle => opened'[call'[g].c] # None
    BY <2>2, <2>5, <2>6 DEF TurnInv
  <2> QED BY <2>2, <2>3, <2>4, <2>5, <2>7 DEF TurnInv
<1>3. CASE Tick
  <2>1. /\ UNCHANGED <<up, faults, attested, failed, opened, call>>
        /\ \A c \in Challenge : bench'[c] = bench[c] \/ bench'[c] = None
    BY <1>3 DEF Tick, db, history
  <2> QED BY <2>1 DEF TurnInv, Closed, TypeOK
<1>4. CASE RedisUp
  <2>1. faults' = faults /\ (faults = 0 => FALSE)
    BY <1>4 DEF RedisUp, TurnInv
  <2> QED BY <2>1 DEF TurnInv
<1>5. CASE Crash \/ \E lose \in BOOLEAN : RedisDown(lose)
  <2>1. faults' = faults + 1 /\ faults \in Nat
    BY <1>5, BoundAssumption DEF Crash, RedisDown, TypeOK
  <2>2. faults' # 0
    BY <2>1
  <2> QED BY <2>2 DEF TurnInv
<1>6. CASE UNCHANGED vars
  BY <1>6 DEF vars, env, db, history, TurnInv, Closed
<1> QED BY <1>1, <1>2, <1>3, <1>4, <1>5, <1>6 DEF Next

LEMMA TurnInvariant == Spec /\ []OneCallEach => []TurnInv
<1>1. Init => TurnInv
  BY DEF Init, TurnInv, Closed, Idle
<1>2. IInv /\ OneCallEach /\ TurnInv /\ [Next]_vars => TurnInv'
  BY NextTurn DEF IInv
<1> QED BY <1>1, <1>2, Invariance, PTL DEF Spec

\* A client that sends its requests for a challenge one at a time gets at most one
\* attestation out of it, whatever happens to other challenges meanwhile, as long as
\* Redis and the registry do not fail (dropBench at the close of postLaneSubmit).
THEOREM OneAttestationEach == Spec /\ []OneCallEach => []OneAttestation
<1>1. TurnInv => OneAttestation
  BY DEF TurnInv, OneAttestation
<1> QED BY <1>1, TurnInvariant, PTL

\* For such a client a failed lane aborts the whole challenge: no later start or
\* submission finds it (postLaneSubmit, docs/registry-spec.md 5.3).
THEOREM FailureEach == Spec /\ []OneCallEach => []FailedIsFinal
<1>1. TurnInv => FailedIsFinal
  BY DEF TurnInv, FailedIsFinal
<1> QED BY <1>1, TurnInvariant, PTL

-----------------------------------------------------------------------------
(* The specification of the run that mixes both kinds of client: the one   *)
(* that takes turns has at most one request in flight in all.              *)

InFlight == {h \in H : call[h] # Idle}

LEMMA FewInFlight ==
  ASSUME NEW S, IsFiniteSet(S), Cardinality(S) <= 1, NEW x \in S, NEW y \in S
  PROVE  x = y
<1> SUFFICES ASSUME x # y PROVE FALSE
  OBVIOUS
<1>1. IsFiniteSet({x}) /\ Cardinality({x}) = 1
  BY FS_Singleton
<1>2. Cardinality({x} \cup {y}) = 2
  <2>1. y \notin {x}
    OBVIOUS
  <2>2. Cardinality({x} \cup {y}) = Cardinality({x}) + 1
    BY <1>1, <2>1, FS_AddElement
  <2> QED BY <1>1, <2>2
<1>3. {x} \cup {y} \subseteq S
  OBVIOUS
<1>4. Cardinality({x} \cup {y}) <= Cardinality(S) /\ Cardinality(S) \in Nat
  BY <1>3, FS_Subset, FS_CardinalityType
<1> QED BY <1>2, <1>4

\* A step adds at most one request to those in flight.
LEMMA InFlightFinite ==
  ASSUME TypeOK, IsFiniteSet(InFlight), [Next]_vars
  PROVE  IsFiniteSet(InFlight')
<1>1. ASSUME NEW h \in H, InFlight' \subseteq InFlight \cup {h} PROVE IsFiniteSet(InFlight')
  BY <1>1, FS_AddElement, FS_Subset
<1>2. ASSUME NEW h \in H, CallStep(h) \/ ClientStep(h) PROVE IsFiniteSet(InFlight')
  <2>1. \A g \in H \ {h} : call'[g] = call[g]
    BY <1>2 DEF TypeOK, CallStep, ChallengeSet, StartRefused, StartDraw, StartSet, SubmitRefused, SubmitFailed,
       SubmitDrop, SubmitPassed, SubmitSave, SubmitLog, SubmitInsert, SubmitClose, End,
       ClientStep, ChallengeOpen, StartRecv, SubmitRecv
  <2>2. InFlight' \subseteq InFlight \cup {h}
    BY <2>1 DEF InFlight
  <2> QED BY <1>1, <2>2
<1>3. CASE UNCHANGED call
  BY <1>3 DEF InFlight
<1>4. CASE Crash
  <2>1. InFlight' \subseteq InFlight
    BY <1>4 DEF Crash, InFlight
  <2> QED BY <2>1, FS_Subset
<1> QED BY <1>2, <1>3, <1>4 DEF Next, Tick, RedisUp, RedisDown, vars

TakesTurns == inTurn => IsFiniteSet(InFlight) /\ Cardinality(InFlight) <= 1

LEMMA RacesTakeTurns ==
  RacesSpec => Spec /\ []TakesTurns /\ ([]inTurn \/ []~inTurn)
<1>1. RacesInit => Init /\ TakesTurns
  <2> SUFFICES ASSUME RacesInit PROVE Init /\ TakesTurns
    OBVIOUS
  <2>1. Init /\ InFlight = {}
    BY DEF RacesInit, Init, InFlight
  <2> QED BY <2>1, FS_EmptySet DEF TakesTurns
<1>2. [RacesNext]_<<vars, inTurn>> => [Next]_vars /\ inTurn' = inTurn
  BY DEF RacesNext
<1>3. TypeOK /\ TakesTurns /\ [RacesNext]_<<vars, inTurn>> => TakesTurns'
  <2> SUFFICES ASSUME TypeOK, TakesTurns, [RacesNext]_<<vars, inTurn>>, inTurn'
               PROVE  IsFiniteSet(InFlight') /\ Cardinality(InFlight') <= 1
    BY DEF TakesTurns
  <2>1. inTurn
    BY <1>2
  <2>2. IsFiniteSet(InFlight')
    BY <1>2, <2>1, InFlightFinite DEF TakesTurns
  <2>3. Cardinality(InFlight') <= 1
    <3>1. CASE RacesNext
      BY <2>1, <3>1 DEF RacesNext, InFlight
    <3>2. CASE UNCHANGED <<vars, inTurn>>
      <4>1. InFlight' = InFlight
        BY <3>2 DEF vars, InFlight
      <4> QED BY <2>1, <4>1 DEF TakesTurns
    <3> QED BY <3>1, <3>2
  <2> QED BY <2>2, <2>3
<1>4. (inTurn /\ inTurn' = inTurn => inTurn') /\ (~inTurn /\ inTurn' = inTurn => ~inTurn')
  OBVIOUS
<1>5. RacesSpec => Spec
  BY <1>1, <1>2, PTL DEF RacesSpec, Spec
<1> QED BY <1>1, <1>2, <1>3, <1>4, <1>5, TypeCorrect, PTL DEF RacesSpec

LEMMA RacesInTurn == RacesSpec => []~inTurn \/ (Spec /\ []OneCallEach)
<1>1. inTurn /\ TakesTurns => OneCallEach
  <2> SUFFICES ASSUME inTurn, TakesTurns, NEW g \in H, NEW h \in H, call[g] # Idle, call[h] # Idle
               PROVE  g = h
    BY DEF OneCallEach
  <2>1. g \in InFlight /\ h \in InFlight
    BY DEF InFlight
  <2> QED BY <2>1, FewInFlight DEF TakesTurns
<1> QED BY <1>1, RacesTakeTurns, PTL

\* A client that sends one request at a time gets at most one attestation out of a
\* challenge, in the mix of clients that run attest_races explores.
THEOREM OneAttestationWhenInTurn == RacesSpec => []OneAttestationInTurn
<1>1. (~inTurn => OneAttestationInTurn) /\ (OneAttestation => OneAttestationInTurn)
  BY DEF OneAttestationInTurn
<1> QED BY <1>1, RacesInTurn, OneAttestationEach, PTL

\* And for such a client a failed lane is final.
THEOREM FailureWhenInTurn == RacesSpec => []FailedIsFinalInTurn
<1>1. (~inTurn => FailedIsFinalInTurn) /\ (FailedIsFinal => FailedIsFinalInTurn)
  BY DEF FailedIsFinalInTurn
<1> QED BY <1>1, RacesInTurn, FailureEach, PTL
=============================================================================
