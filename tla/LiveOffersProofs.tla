-------------------------- MODULE LiveOffersProofs --------------------------
(* Theorems about LiveOffers, for every set of offers, messages and        *)
(* handlers and every value of the limits and bounds.                      *)
EXTENDS LiveOffers, TLAPS

-----------------------------------------------------------------------------
(* Type correctness                                                        *)

\* A call that is not idle is a whole call record.
LEMMA CallTypes ==
  ASSUME TypeOK
  PROVE  /\ \A h \in TermsH : th[h].pc # "idle" => th[h] \in TermsCall
         /\ \A h \in AvailH : ah[h].pc # "idle" => ah[h] \in AvailCall
         /\ \A h \in RevokeH : rh[h].pc # "idle" => rh[h] \in RevokeCall
         /\ \A h \in LiveH : lh[h].pc # "idle" => lh[h] \in LiveCall
         /\ \A h \in ReadH : qh[h].pc = "redis" => qh[h] \in ReadCall
         /\ \A h \in ReadH : qh[h].pc = "reply" => qh[h] \in ReadReply
BY DEF TypeOK, Idle, ReadCall, ReadReply

\* Fetch and Put keep a store of the Redis model well-typed.
LEMMA StoreTypes ==
  ASSUME NEW K, NEW V, NEW f \in [K -> V \cup {None}], NEW k \in K, NEW v \in V \cup {None}
  PROVE  /\ Fetch(f, k) \in V \cup {None}
         /\ Put(f, k, v) \in [K -> V \cup {None}]
BY DEF Fetch, Put

LEMMA TermsTtlType ==
  ASSUME NEW c \in TermsCall
  PROVE  /\ TermsTtl(c.offer, c.m, c.at) \in Int
         /\ TermsTtl(c.offer, c.m, c.at) <= c.m.validUntil - c.at
         /\ c.m.validUntil > c.at => TermsTtl(c.offer, c.m, c.at) \in Nat
BY OfferAssumption, MsgAssumption, LimitAssumption
   DEF TermsTtl, Lesser, FreshWindow, TermsCall, TermsPayload

-----------------------------------------------------------------------------
(* What each kind of handler leaves alone                                  *)

LEMMA TermsFrame ==
  ASSUME NEW h \in TermsH,
         TermsStep(h) \/ \E o \in Offer, m \in TermsMsg : TermsRecv(h, o, m)
  PROVE  UNCHANGED <<now, db, busyKeys, snap, ah, rh, reads, acked>>
BY DEF TermsStep, TermsRecv, TermsCheck, TermsGetSeq, TermsSetSeq, TermsSet, TermsSetReplyLost,
       TermsZadd, TermsHset, TermsTouch, db, redisVars, liveKeys, busyKeys, reads

LEMMA AvailFrame ==
  ASSUME NEW h \in AvailH,
         AvailStep(h) \/ \E o \in Offer, m \in AvailMsg : AvailRecv(h, o, m)
  PROVE  UNCHANGED <<now, db, link, liveKeys, seq, seen, snap, th, rh, reads, acked>>
BY DEF AvailStep, AvailRecv, AvailCheck, AvailGetSeq, AvailSetSeq, AvailApply,
       db, link, redisVars, liveKeys, busyKeys, reads

LEMMA RevokeFrame ==
  ASSUME NEW h \in RevokeH,
         RevokeStep(h) \/ \E o \in Offer, m \in RevokeMsg : RevokeRecv(h, o, m)
  PROVE  UNCHANGED <<now, link, seen, snap, th, ah, reads>>
BY DEF RevokeStep, RevokeRecv, RevokeLog, RevokeUpdate, RevokeDel, RevokeZrem, RevokeHdel,
       db, link, redisVars, liveKeys, busyKeys, reads

LEMMA ReadFrame ==
  ASSUME NEW h \in ReadH,
         \/ ReadStep(h)
         \/ \E f \in {"strict", "normal", "any"}, free \in BOOLEAN : QuerySql(h, f, free)
         \/ \E o \in Offer : GetSql(h, o)
  PROVE  UNCHANGED <<now, db, link, redisVars, th, ah, rh, lh, acked>>
BY DEF ReadStep, QuerySql, GetSql, ReadRedis, ReadReturn

LEMMA LiveFrame ==
  ASSUME NEW h \in LiveH, LiveStep(h) \/ LiveMiss(h)
  PROVE  UNCHANGED <<now, db, link, terms, price, seq, seen, busyKeys, th, ah, rh, qh, acked>>
BY DEF LiveStep, LiveMiss, LivePrune, LiveRange, LivePrices, LiveCache,
       db, link, redisVars, liveKeys, busyKeys

-----------------------------------------------------------------------------
(* TypeOK is not inductive alone: a terms record has a natural expiry only *)
(* because its call passed the check validUntil > now, so the invariant    *)
(* carries what a call past its checks is known to satisfy.                *)

TermsChecked ==
  \A h \in TermsH : th[h].pc \notin {"idle", "check"} =>
    /\ SignedByOwner(th[h].m, th[h].offer)
    /\ th[h].m.validUntil > th[h].at

AvailChecked ==
  \A h \in AvailH : ah[h].pc \notin {"idle", "check"} => SignedByOwner(ah[h].m, ah[h].offer)

\* A request in flight was received in the past and at most MaxLatency ago.
Timely ==
  /\ \A h \in TermsH : th[h] # Idle => th[h].at <= now /\ now <= th[h].at + MaxLatency
  /\ \A h \in AvailH : ah[h] # Idle => ah[h].at <= now /\ now <= ah[h].at + MaxLatency
  /\ \A h \in LiveH : lh[h] # Idle => lh[h].at <= now /\ now <= lh[h].at + MaxLatency

TypeInv == TypeOK /\ TermsChecked /\ AvailChecked /\ Timely

LEMMA InitTypeInv == Init => TypeInv
BY LimitAssumption DEF Init, TypeInv, TypeOK, TermsChecked, AvailChecked, Timely, Idle

LEMMA TermsTypeInv ==
  ASSUME TypeInv, NEW h \in TermsH,
         TermsStep(h) \/ \E o \in Offer, m \in TermsMsg : TermsRecv(h, o, m)
  PROVE  TypeInv'
<1>1. TypeOK /\ TermsChecked /\ AvailChecked /\ Timely
  BY DEF TypeInv
<1>2. UNCHANGED <<now, revoked, log, raced, availSeq, busy, snap, ah, rh, qh, lh, acked>>
  BY TermsFrame DEF db, busyKeys, reads
<1>3. AvailChecked'
  BY <1>1, <1>2 DEF AvailChecked
<1>4. /\ \A g \in AvailH : ah'[g] # Idle => ah'[g].at <= now' /\ now' <= ah'[g].at + MaxLatency
      /\ \A g \in LiveH : lh'[g] # Idle => lh'[g].at <= now' /\ now' <= lh'[g].at + MaxLatency
  BY <1>1, <1>2 DEF Timely
<1>5. SUFFICES /\ up' \in BOOLEAN /\ faults' \in 0..MaxFaults
               /\ seq' \in [Offer -> Nat \cup {None}]
               /\ terms' \in [Offer -> TermsEntry \cup {None}]
               /\ score' \in [Offer -> Nat \cup {None}]
               /\ price' \in [Offer -> Nat \cup {None}]
               /\ seen' \in [Provider -> Nat \cup {None}]
               /\ th' \in [TermsH -> TermsCall \cup {Idle}]
               /\ \A g \in TermsH \ {h} : th'[g] = th[g]
               /\ th'[h].pc \notin {"idle", "check"} =>
                    /\ SignedByOwner(th'[h].m, th'[h].offer)
                    /\ th'[h].m.validUntil > th'[h].at
               /\ th'[h] # Idle => th'[h].at <= now /\ now <= th'[h].at + MaxLatency
  <2>1. TypeOK'
    BY <1>1, <1>2, <1>5 DEF TypeOK
  <2>2. TermsChecked'
    BY <1>1, <1>5 DEF TermsChecked
  <2>3. Timely'
    BY <1>1, <1>2, <1>4, <1>5 DEF Timely
  <2> QED BY <1>3, <2>1, <2>2, <2>3 DEF TypeInv
<1> DEFINE c == th[h]
<1>6. CASE \E o \in Offer, m \in TermsMsg : TermsRecv(h, o, m)
  BY <1>1, <1>6, LimitAssumption
     DEF TermsRecv, TypeOK, TermsCall, Idle, link, redisVars, liveKeys
<1>7. CASE TermsStep(h)
  <2>1. c \in TermsCall /\ c # Idle
    BY <1>1, <1>7, CallTypes DEF TermsStep, TermsCheck, TermsGetSeq, TermsSetSeq, TermsSet,
       TermsSetReplyLost, TermsZadd, TermsHset, TermsTouch, Idle
  <2>2. /\ c.at <= now /\ now <= c.at + MaxLatency
        /\ c.pc # "check" => SignedByOwner(c.m, c.offer) /\ c.m.validUntil > c.at
    BY <1>1, <2>1 DEF Timely, TermsChecked, TermsCall
  <2>3. /\ c.offer \in Offer /\ c.m \in TermsMsg /\ c.at \in Nat
        /\ c.m.seq \in Nat /\ c.m.price \in Nat /\ c.m.signer \in Provider
    BY <2>1, MsgAssumption DEF TermsCall, TermsPayload
  <2>4. ASSUME NEW pc \in {"getSeq", "setSeq", "set", "zadd", "hset", "touch"}, TermsGoto(h, pc)
        PROVE  /\ th' \in [TermsH -> TermsCall \cup {Idle}]
               /\ \A g \in TermsH \ {h} : th'[g] = th[g]
               /\ th'[h].offer = c.offer /\ th'[h].m = c.m /\ th'[h].at = c.at
    BY <1>1, <2>1, <2>4 DEF TypeOK, TermsGoto, TermsCall
  <2>5. ASSUME TermsEnd(h)
        PROVE  /\ th' \in [TermsH -> TermsCall \cup {Idle}]
               /\ \A g \in TermsH \ {h} : th'[g] = th[g]
               /\ th'[h] = Idle /\ th'[h].pc = "idle"
    BY <1>1, <2>5 DEF TypeOK, TermsEnd, Idle
  <2>6. CASE TermsCheck(h)
    BY <1>1, <2>1, <2>2, <2>4, <2>5, <2>6
       DEF TermsCheck, TermsAccepted, SignedByOwner, TypeOK, link, redisVars, liveKeys
  <2>7. CASE TermsGetSeq(h)
    BY <1>1, <2>2, <2>4, <2>5, <2>7 DEF TermsGetSeq, TypeOK, link, redisVars, liveKeys
  <2>8. CASE TermsSetSeq(h)
    BY <1>1, <2>2, <2>3, <2>4, <2>8, StoreTypes DEF TermsSetSeq, TypeOK, link, liveKeys
  <2>9. c.pc # "check" => EntryOf(c) \in TermsEntry /\ ScoreOf(c) \in Nat
    BY <1>1, <2>1, <2>2, <2>3, TermsTtlType DEF EntryOf, ScoreOf, TermsEntry, TypeOK
  <2>10. CASE TermsSet(h)
    BY <1>1, <2>2, <2>3, <2>4, <2>5, <2>9, <2>10, StoreTypes DEF TermsSet, TypeOK, link
  <2>11. CASE TermsSetReplyLost(h)
    <3>a. faults < MaxFaults /\ faults' = faults + 1 /\ up' = FALSE
      BY <2>11 DEF TermsSetReplyLost
    <3>b. faults \in 0..MaxFaults
      BY <1>1 DEF TypeOK
    <3>c. faults' \in 0..MaxFaults
      BY <3>a, <3>b, LimitAssumption
    <3>1. up' \in BOOLEAN /\ faults' \in 0..MaxFaults
      BY <3>a, <3>c
    <3>2. terms' \in [Offer -> TermsEntry \cup {None}]
      BY <1>1, <2>3, <2>9, <2>11, StoreTypes DEF TermsSetReplyLost, TypeOK
    <3> QED BY <1>1, <2>5, <2>11, <3>1, <3>2 DEF TermsSetReplyLost, TypeOK
  <2>12. CASE TermsZadd(h)
    BY <1>1, <2>2, <2>3, <2>4, <2>9, <2>12, StoreTypes DEF TermsZadd, TypeOK, link
  <2>13. CASE TermsHset(h)
    BY <1>1, <2>2, <2>3, <2>4, <2>13, StoreTypes DEF TermsHset, TypeOK, link
  <2>14. CASE TermsTouch(h)
    BY <1>1, <2>3, <2>5, <2>14, StoreTypes DEF TermsTouch, TypeOK, link, liveKeys
  <2> QED BY <1>7, <2>6, <2>7, <2>8, <2>10, <2>11, <2>12, <2>13, <2>14 DEF TermsStep
<1> QED BY <1>6, <1>7

LEMMA AvailTypeInv ==
  ASSUME TypeInv, NEW h \in AvailH,
         AvailStep(h) \/ \E o \in Offer, m \in AvailMsg : AvailRecv(h, o, m)
  PROVE  TypeInv'
<1>1. TypeOK /\ TermsChecked /\ AvailChecked /\ Timely
  BY DEF TypeInv
<1>2. UNCHANGED <<now, revoked, log, raced, up, faults, terms, score, price, seq, seen, snap,
                  th, rh, qh, lh, acked>>
  BY AvailFrame DEF db, link, liveKeys, reads
<1>3. TermsChecked'
  BY <1>1, <1>2 DEF TermsChecked
<1>4. SUFFICES /\ availSeq' \in [Offer -> Nat \cup {None}]
               /\ busy' \in [Offer -> Nat \cup {None}]
               /\ ah' \in [AvailH -> AvailCall \cup {Idle}]
               /\ \A g \in AvailH \ {h} : ah'[g] = ah[g]
               /\ ah'[h].pc \notin {"idle", "check"} => SignedByOwner(ah'[h].m, ah'[h].offer)
               /\ ah'[h] # Idle => ah'[h].at <= now /\ now <= ah'[h].at + MaxLatency
  <2>1. TypeOK'
    BY <1>1, <1>2, <1>4 DEF TypeOK
  <2>2. AvailChecked'
    BY <1>1, <1>4 DEF AvailChecked
  <2>3. Timely'
    BY <1>1, <1>2, <1>4 DEF Timely
  <2> QED BY <1>3, <2>1, <2>2, <2>3 DEF TypeInv
<1> DEFINE c == ah[h]
<1>5. CASE \E o \in Offer, m \in AvailMsg : AvailRecv(h, o, m)
  BY <1>1, <1>5, LimitAssumption
     DEF AvailRecv, TypeOK, AvailCall, Idle, redisVars, busyKeys
<1>6. CASE AvailStep(h)
  <2>1. c \in AvailCall /\ c # Idle
    BY <1>1, <1>6, CallTypes DEF AvailStep, AvailCheck, AvailGetSeq, AvailSetSeq, AvailApply, Idle
  <2>2. /\ c.at <= now /\ now <= c.at + MaxLatency
        /\ c.pc # "check" => SignedByOwner(c.m, c.offer)
    BY <1>1, <2>1 DEF Timely, AvailChecked, AvailCall
  <2>3. /\ c.offer \in Offer /\ c.m \in AvailMsg /\ c.at \in Nat
        /\ c.m.seq \in Nat /\ c.m.validUntil \in Nat
    BY <2>1, MsgAssumption DEF AvailCall, AvailPayload
  <2>4. ASSUME NEW pc \in {"getSeq", "setSeq", "apply"}, AvailGoto(h, pc)
        PROVE  /\ ah' \in [AvailH -> AvailCall \cup {Idle}]
               /\ \A g \in AvailH \ {h} : ah'[g] = ah[g]
               /\ ah'[h].offer = c.offer /\ ah'[h].m = c.m /\ ah'[h].at = c.at
    BY <1>1, <2>1, <2>4 DEF TypeOK, AvailGoto, AvailCall
  <2>5. ASSUME AvailEnd(h)
        PROVE  /\ ah' \in [AvailH -> AvailCall \cup {Idle}]
               /\ \A g \in AvailH \ {h} : ah'[g] = ah[g]
               /\ ah'[h] = Idle /\ ah'[h].pc = "idle"
    BY <1>1, <2>5 DEF TypeOK, AvailEnd, Idle
  <2>6. CASE AvailCheck(h)
    BY <1>1, <2>2, <2>4, <2>5, <2>6
       DEF AvailCheck, AvailAccepted, SignedByOwner, TypeOK, redisVars, busyKeys
  <2>7. CASE AvailGetSeq(h)
    BY <1>1, <2>2, <2>4, <2>5, <2>7 DEF AvailGetSeq, TypeOK, redisVars, busyKeys
  <2>8. CASE AvailSetSeq(h)
    BY <1>1, <2>2, <2>3, <2>4, <2>8, StoreTypes DEF AvailSetSeq, TypeOK
  <2>9. CASE AvailApply(h)
    <3>1. c.m.validUntil > c.at => now + BusyTtl(c.m, c.at) \in Nat
      BY <1>1, <2>3, LimitAssumption DEF BusyTtl, Lesser, TypeOK
    <3>2. BusyAfter(c) \in [Offer -> Nat \cup {None}]
      <4>1. busy \in [Offer -> Nat \cup {None}]
        BY <1>1 DEF TypeOK
      <4>2. Put(busy, c.offer, None) \in [Offer -> Nat \cup {None}]
        BY <2>3, <4>1, StoreTypes
      <4>3. c.m.validUntil > c.at =>
              Put(busy, c.offer, now + BusyTtl(c.m, c.at)) \in [Offer -> Nat \cup {None}]
        BY <2>3, <3>1, <4>1, StoreTypes
      <4>4. c.m.validUntil <= c.at \/ c.m.validUntil > c.at
        BY <2>3
      <4> QED BY <4>1, <4>2, <4>3, <4>4 DEF BusyAfter
    <3> QED BY <1>1, <2>5, <2>9, <3>2 DEF AvailApply, TypeOK
  <2> QED BY <1>6, <2>6, <2>7, <2>8, <2>9 DEF AvailStep
<1> QED BY <1>5, <1>6

LEMMA RevokeTypeInv ==
  ASSUME TypeInv, NEW h \in RevokeH,
         RevokeStep(h) \/ \E o \in Offer, m \in RevokeMsg : RevokeRecv(h, o, m)
  PROVE  TypeInv'
<1>1. TypeOK /\ TermsChecked /\ AvailChecked /\ Timely
  BY DEF TypeInv
<1>2. UNCHANGED <<now, up, faults, seen, snap, th, ah, qh, lh>>
  BY RevokeFrame DEF link, reads
<1>3. TermsChecked' /\ AvailChecked' /\ Timely'
  BY <1>1, <1>2 DEF TermsChecked, AvailChecked, Timely
<1>4. SUFFICES /\ revoked' \in SUBSET Offer /\ log' \in SUBSET RevokeMsg
               /\ raced' \in SUBSET Offer /\ acked' \in SUBSET Offer
               /\ seq' \in [Offer -> Nat \cup {None}]
               /\ terms' \in [Offer -> TermsEntry \cup {None}]
               /\ score' \in [Offer -> Nat \cup {None}]
               /\ price' \in [Offer -> Nat \cup {None}]
               /\ availSeq' \in [Offer -> Nat \cup {None}]
               /\ busy' \in [Offer -> Nat \cup {None}]
               /\ rh' \in [RevokeH -> RevokeCall \cup {Idle}]
  BY <1>1, <1>2, <1>3, <1>4 DEF TypeInv, TypeOK
<1>5. CASE \E o \in Offer, m \in RevokeMsg : RevokeRecv(h, o, m)
  BY <1>1, <1>5 DEF RevokeRecv, TypeOK, RevokeCall, Idle, db, redisVars, liveKeys, busyKeys
<1>6. CASE RevokeStep(h)
  <2>1. rh[h] \in RevokeCall
    BY <1>1, <1>6, CallTypes
       DEF RevokeStep, RevokeLog, RevokeUpdate, RevokeDel, RevokeZrem, RevokeHdel
  <2>2. rh[h].offer \in Offer /\ rh[h].m \in RevokeMsg
    BY <2>1 DEF RevokeCall
  <2>3. ASSUME NEW pc \in {"update", "del", "zrem", "hdel"}, RevokeGoto(h, pc)
        PROVE  rh' \in [RevokeH -> RevokeCall \cup {Idle}]
    BY <1>1, <2>1, <2>3 DEF TypeOK, RevokeGoto, RevokeCall
  <2>4. CASE RevokeLog(h)
    BY <1>1, <2>2, <2>3, <2>4 DEF RevokeLog, TypeOK, redisVars, liveKeys, busyKeys
  <2>5. CASE RevokeUpdate(h)
    BY <1>1, <2>2, <2>3, <2>5 DEF RevokeUpdate, TypeOK, redisVars, liveKeys, busyKeys
  <2>6. CASE RevokeDel(h)
    BY <1>1, <2>2, <2>3, <2>6, StoreTypes DEF RevokeDel, TypeOK, db
  <2>7. CASE RevokeZrem(h)
    BY <1>1, <2>2, <2>3, <2>7, StoreTypes DEF RevokeZrem, TypeOK, db, busyKeys
  <2>8. CASE RevokeHdel(h)
    BY <1>1, <2>2, <2>8, StoreTypes DEF RevokeHdel, TypeOK, db, busyKeys, Idle
  <2> QED BY <1>6, <2>4, <2>5, <2>6, <2>7, <2>8 DEF RevokeStep
<1> QED BY <1>5, <1>6

LEMMA ReadTypeInv ==
  ASSUME TypeInv, NEW h \in ReadH,
         \/ ReadStep(h)
         \/ \E f \in {"strict", "normal", "any"}, free \in BOOLEAN : QuerySql(h, f, free)
         \/ \E o \in Offer : GetSql(h, o)
  PROVE  TypeInv'
<1>1. TypeOK /\ TermsChecked /\ AvailChecked /\ Timely
  BY DEF TypeInv
<1>2. UNCHANGED <<now, revoked, log, raced, up, faults, terms, score, price, seq, seen,
                  availSeq, busy, snap, th, ah, rh, lh, acked>>
  BY ReadFrame DEF db, link, redisVars, liveKeys, busyKeys
<1>3. TermsChecked' /\ AvailChecked' /\ Timely'
  BY <1>1, <1>2 DEF TermsChecked, AvailChecked, Timely
<1>4. SUFFICES qh' \in [ReadH -> ReadCall \cup ReadReply \cup {Idle}]
  BY <1>1, <1>2, <1>3, <1>4 DEF TypeInv, TypeOK
<1>5. CASE \E f \in {"strict", "normal", "any"}, free \in BOOLEAN : QuerySql(h, f, free)
  BY <1>1, <1>5 DEF QuerySql, Candidates, ReadCall, TypeOK
<1>6. CASE \E o \in Offer : GetSql(h, o)
  BY <1>1, <1>6 DEF GetSql, ReadCall, TypeOK
<1>7. CASE ReadRedis(h)
  <2> DEFINE isBusy(o) == Fetch(terms, o) # None /\ Fetch(busy, o) # None
             kept == {o \in qh[h].rows : /\ Fresh(qh[h].freshness, o, Fetch(terms, o))
                                         /\ ~(qh[h].free /\ isBusy(o))}
             item(o) == [offer |-> o, terms |-> Fetch(terms, o),
                         status |-> offerStatus(o \in qh[h].dead, ExpiresAt[o],
                                                Fetch(terms, o) # None, isBusy(o), now)]
  <2>1. qh[h] \in ReadCall
    BY <1>1, <1>7, CallTypes DEF ReadRedis
  <2>2. \A o \in Offer : item(o) \in Item
    <3> SUFFICES ASSUME NEW o \in Offer PROVE item(o) \in Item
      OBVIOUS
    <3>1. Fetch(terms, o) \in TermsEntry \cup {None}
      BY <1>1, StoreTypes DEF TypeOK
    <3>2. offerStatus(o \in qh[h].dead, ExpiresAt[o], Fetch(terms, o) # None, isBusy(o), now)
            \in {"active", "busy", "stale", "expired", "revoked"}
      BY DEF offerStatus
    <3> QED BY <3>1, <3>2 DEF Item
  <2>3. {item(o) : o \in kept} \in SUBSET Item
    BY <2>1, <2>2 DEF ReadCall
  <2>4. [pc |-> "reply", kind |-> qh[h].kind, freshness |-> qh[h].freshness, at |-> now,
         items |-> {item(o) : o \in kept}, gone |-> qh[h].gone] \in ReadReply
    BY <1>1, <2>1, <2>3 DEF ReadReply, ReadCall, TypeOK
  <2>5. qh' = [qh EXCEPT ![h] =
          [pc |-> "reply", kind |-> qh[h].kind, freshness |-> qh[h].freshness, at |-> now,
           items |-> {item(o) : o \in kept}, gone |-> qh[h].gone]]
    BY <1>7 DEF ReadRedis
  <2> QED BY <1>1, <2>4, <2>5 DEF TypeOK
<1>8. CASE ReadReturn(h)
  BY <1>1, <1>8 DEF ReadReturn, TypeOK
<1> QED BY <1>5, <1>6, <1>7, <1>8 DEF ReadStep

LEMMA LiveTypeInv ==
  ASSUME TypeInv, NEW h \in LiveH, LiveStep(h) \/ LiveMiss(h)
  PROVE  TypeInv'
<1>1. TypeOK /\ TermsChecked /\ AvailChecked /\ Timely
  BY DEF TypeInv
<1>2. UNCHANGED <<now, revoked, log, raced, up, faults, terms, price, seq, seen,
                  availSeq, busy, th, ah, rh, qh, acked>>
  BY LiveFrame DEF db, link, busyKeys
<1>3. TermsChecked' /\ AvailChecked'
  BY <1>1, <1>2 DEF TermsChecked, AvailChecked
<1>4. SUFFICES /\ score' \in [Offer -> Nat \cup {None}]
               /\ snap' \in Snapshot \cup {None}
               /\ lh' \in [LiveH -> LiveCall \cup {Idle}]
               /\ \A g \in LiveH \ {h} : lh'[g] = lh[g]
               /\ lh'[h] # Idle => lh'[h].at <= now /\ now <= lh'[h].at + MaxLatency
  <2>1. TypeOK'
    BY <1>1, <1>2, <1>4 DEF TypeOK
  <2>2. Timely'
    BY <1>1, <1>2, <1>4 DEF Timely
  <2> QED BY <1>3, <2>1, <2>2 DEF TypeInv
<1>5. CASE LiveMiss(h)
  BY <1>1, <1>5, LimitAssumption DEF LiveMiss, LiveCall, TypeOK, redisVars, liveKeys, Idle
<1>6. CASE LiveStep(h)
  <2> DEFINE c == lh[h]
  <2>1. c \in LiveCall /\ c # Idle
    BY <1>1, <1>6, CallTypes DEF LiveStep, LivePrune, LiveRange, LivePrices, LiveCache, Idle
  <2>2. c.at <= now /\ now <= c.at + MaxLatency /\ c.at \in Nat
    BY <1>1, <2>1 DEF Timely, LiveCall
  <2>3. CASE LivePrune(h)
    <3>1. score' \in [Offer -> Nat \cup {None}]
      BY <1>1, <2>3 DEF LivePrune, TypeOK
    <3> QED BY <1>1, <2>1, <2>2, <2>3, <3>1 DEF LivePrune, TypeOK, LiveCall
  <2>4. CASE LiveRange(h)
    <3> DEFINE d == [pc |-> IF Listed(c.at) = {} THEN "cache" ELSE "prices", at |-> c.at,
                     ids |-> Listed(c.at), rows |-> {}, gone |-> acked]
    <3>1. d \in LiveCall
      BY <1>1, <2>2 DEF LiveCall, Listed, TypeOK
    <3>2. lh' = [lh EXCEPT ![h] = d] /\ UNCHANGED <<score, snap>>
      BY <2>4 DEF LiveRange, redisVars, liveKeys
    <3> QED BY <1>1, <2>2, <3>1, <3>2 DEF TypeOK
  <2>5. CASE LivePrices(h)
    <3>1. PricedRows(c.ids) \in SUBSET Row
      BY <1>1, <2>1 DEF PricedRows, Row, LiveCall, TypeOK
    <3> QED BY <1>1, <2>1, <2>2, <2>5, <3>1 DEF LivePrices, TypeOK, LiveCall, redisVars, liveKeys
  <2>6. CASE LiveCache(h)
    <3>1. [at |-> c.at, rows |-> c.rows, exp |-> now + SnapshotTtl] \in Snapshot
      BY <1>1, <2>1, LimitAssumption DEF Snapshot, LiveCall, TypeOK
    <3> QED BY <1>1, <2>6, <3>1 DEF LiveCache, TypeOK, liveKeys
  <2> QED BY <1>6, <2>3, <2>4, <2>5, <2>6 DEF LiveStep
<1> QED BY <1>5, <1>6

LEMMA TickTypeInv == TypeInv /\ Tick => TypeInv'
<1> SUFFICES ASSUME TypeInv, Tick PROVE TypeInv'
  OBVIOUS
<1>1. TypeOK /\ TermsChecked /\ AvailChecked /\ Timely
  BY DEF TypeInv
<1>2. /\ now' = now + 1 /\ Prompt
      /\ UNCHANGED <<revoked, log, raced, up, faults, score, price, seq, seen, availSeq,
                     th, ah, rh, qh, lh, acked>>
  BY DEF Tick, db, link, calls, reads
<1>3. TermsChecked' /\ AvailChecked'
  BY <1>1, <1>2 DEF TermsChecked, AvailChecked
<1>4. Timely'
  <2>1. ASSUME NEW h \in TermsH, th[h] # Idle PROVE th[h].at <= now + 1 /\ now + 1 <= th[h].at + MaxLatency
    BY <1>1, <1>2, <2>1, LimitAssumption DEF Timely, Prompt, TypeOK, TermsCall
  <2>2. ASSUME NEW h \in AvailH, ah[h] # Idle PROVE ah[h].at <= now + 1 /\ now + 1 <= ah[h].at + MaxLatency
    BY <1>1, <1>2, <2>2, LimitAssumption DEF Timely, Prompt, TypeOK, AvailCall
  <2>3. ASSUME NEW h \in LiveH, lh[h] # Idle PROVE lh[h].at <= now + 1 /\ now + 1 <= lh[h].at + MaxLatency
    BY <1>1, <1>2, <2>3, LimitAssumption DEF Timely, Prompt, TypeOK, LiveCall
  <2> QED BY <1>2, <2>1, <2>2, <2>3 DEF Timely
<1>5. /\ terms' \in [Offer -> TermsEntry \cup {None}]
      /\ busy' \in [Offer -> Nat \cup {None}]
      /\ snap' \in Snapshot \cup {None}
  BY <1>1 DEF Tick, TypeOK
<1>6. TypeOK'
  BY <1>1, <1>2, <1>5 DEF TypeOK
<1> QED BY <1>3, <1>4, <1>6 DEF TypeInv

LEMMA FaultTypeInv ==
  TypeInv /\ ((\E lose \in BOOLEAN : RedisDown(lose)) \/ RedisUp \/ Crash) => TypeInv'
<1> SUFFICES ASSUME TypeInv, (\E lose \in BOOLEAN : RedisDown(lose)) \/ RedisUp \/ Crash
             PROVE  TypeInv'
  OBVIOUS
<1>1. TypeOK /\ TermsChecked /\ AvailChecked /\ Timely
  BY DEF TypeInv
<1>2. CASE RedisUp
  <2>1. /\ up' = TRUE
        /\ UNCHANGED <<now, revoked, log, raced, faults, terms, score, price, seq, seen, availSeq,
                       busy, snap, th, ah, rh, qh, lh, acked>>
    BY <1>2 DEF RedisUp, db, redisVars, liveKeys, busyKeys, calls, reads
  <2> QED BY <1>1, <2>1 DEF TypeInv, TypeOK, TermsChecked, AvailChecked, Timely
<1>3. ASSUME faults < MaxFaults, faults' = faults + 1 PROVE faults' \in 0..MaxFaults
  BY <1>1, <1>3, LimitAssumption DEF TypeOK
<1>4. CASE \E lose \in BOOLEAN : RedisDown(lose)
  <2>1. /\ up' = FALSE /\ faults < MaxFaults /\ faults' = faults + 1
        /\ UNCHANGED <<now, revoked, log, raced, th, ah, rh, qh, lh, acked>>
    BY <1>4 DEF RedisDown, db, calls, reads
  <2>2. /\ seq' \in [Offer -> Nat \cup {None}]
        /\ terms' \in [Offer -> TermsEntry \cup {None}]
        /\ score' \in [Offer -> Nat \cup {None}]
        /\ price' \in [Offer -> Nat \cup {None}]
        /\ seen' \in [Provider -> Nat \cup {None}]
        /\ availSeq' \in [Offer -> Nat \cup {None}]
        /\ busy' \in [Offer -> Nat \cup {None}]
        /\ snap' \in Snapshot \cup {None}
    BY <1>1, <1>4 DEF RedisDown, TypeOK, redisVars, liveKeys, busyKeys
  <2>3. TypeOK'
    BY <1>1, <1>3, <2>1, <2>2 DEF TypeOK
  <2> QED BY <1>1, <2>1, <2>3 DEF TypeInv, TermsChecked, AvailChecked, Timely
<1>5. CASE Crash
  <2>1. /\ faults < MaxFaults /\ faults' = faults + 1
        /\ UNCHANGED <<now, revoked, log, raced, up, terms, score, price, seq, seen, availSeq,
                       busy, snap, acked>>
        /\ th' = [h \in TermsH |-> Idle] /\ ah' = [h \in AvailH |-> Idle]
        /\ rh' = [h \in RevokeH |-> Idle] /\ qh' = [h \in ReadH |-> Idle]
        /\ lh' = [h \in LiveH |-> Idle]
    BY <1>5 DEF Crash, db, redisVars, liveKeys, busyKeys
  <2>2. TypeOK'
    BY <1>1, <1>3, <2>1 DEF TypeOK
  <2> QED BY <2>1, <2>2 DEF TypeInv, TermsChecked, AvailChecked, Timely, Idle
<1> QED BY <1>2, <1>4, <1>5

LEMMA NextTypeInv == TypeInv /\ [Next]_vars => TypeInv'
<1> SUFFICES ASSUME TypeInv, [Next]_vars PROVE TypeInv'
  OBVIOUS
<1>1. CASE UNCHANGED vars
  BY <1>1 DEF TypeInv, TypeOK, TermsChecked, AvailChecked, Timely,
     vars, db, link, redisVars, liveKeys, busyKeys, calls, reads
<1>2. CASE Next
  BY <1>2, TermsTypeInv, AvailTypeInv, RevokeTypeInv, ReadTypeInv, LiveTypeInv, TickTypeInv,
     FaultTypeInv DEF Next
<1> QED BY <1>1, <1>2

LEMMA TypeInvariant == Spec => []TypeInv
BY InitTypeInv, NextTypeInv, PTL DEF Spec

\* Every reachable state of the tables, of Redis and of the requests in flight is
\* well-formed (handlers/offers.ts, handlers/query.ts, redis.ts).
THEOREM TypeCorrect == Spec => []TypeOK
BY TypeInvariant, PTL DEF TypeInv

-----------------------------------------------------------------------------
(* Revocation.  A revocation in flight carries the owner's signature, is   *)
(* logged before the row changes and answered after it; a read remembers   *)
(* what was answered before its SQL ran, which that SQL therefore saw.     *)

RevokeInv ==
  /\ acked \subseteq revoked
  /\ RevokedIsLogged
  /\ \A h \in RevokeH : rh[h].pc # "idle" =>
       /\ SignedByOwner(rh[h].m, rh[h].offer)
       /\ rh[h].pc # "log" => rh[h].m \in log
       /\ rh[h].pc \in {"del", "zrem", "hdel"} => rh[h].offer \in revoked

ReadInv ==
  /\ \A h \in ReadH : qh[h].pc = "redis" => \A o \in qh[h].rows :
       o \in qh[h].gone => qh[h].kind = "get" /\ o \in qh[h].dead
  /\ RevokedNeverReturned

LEMMA InitRevokeInv == Init => RevokeInv /\ ReadInv
BY DEF Init, RevokeInv, ReadInv, RevokedIsLogged, RevokedNeverReturned, Idle

LEMMA RevokeStepInv ==
  ASSUME TypeInv, RevokeInv, NEW h \in RevokeH,
         RevokeStep(h) \/ \E o \in Offer, m \in RevokeMsg : RevokeRecv(h, o, m)
  PROVE  RevokeInv'
<1>1. TypeOK
  BY DEF TypeInv
<1>2. CASE \E o \in Offer, m \in RevokeMsg : RevokeRecv(h, o, m)
  BY <1>1, <1>2 DEF RevokeRecv, RevokeAccepted, RevokeInv, RevokedIsLogged, SignedByOwner,
     TypeOK, db
<1>3. CASE RevokeStep(h)
  <2>1. rh[h] \in RevokeCall
    BY <1>1, <1>3, CallTypes
       DEF RevokeStep, RevokeLog, RevokeUpdate, RevokeDel, RevokeZrem, RevokeHdel
  <2>2. ASSUME NEW pc \in {"update", "del", "zrem", "hdel"}, RevokeGoto(h, pc)
        PROVE  /\ \A g \in RevokeH \ {h} : rh'[g] = rh[g]
               /\ rh'[h].pc = pc /\ rh'[h].offer = rh[h].offer /\ rh'[h].m = rh[h].m
    BY <1>1, <2>1, <2>2 DEF TypeOK, RevokeGoto, RevokeCall
  <2>3. CASE RevokeLog(h)
    BY <2>2, <2>3 DEF RevokeLog, RevokeInv, RevokedIsLogged
  <2>4. CASE RevokeUpdate(h)
    BY <2>2, <2>4 DEF RevokeUpdate, RevokeInv, RevokedIsLogged, SignedByOwner
  <2>5. CASE RevokeDel(h)
    BY <2>2, <2>5 DEF RevokeDel, RevokeInv, RevokedIsLogged, db
  <2>6. CASE RevokeZrem(h)
    BY <2>2, <2>6 DEF RevokeZrem, RevokeInv, RevokedIsLogged, db
  <2>7. CASE RevokeHdel(h)
    BY <1>1, <2>7 DEF RevokeHdel, RevokeInv, RevokedIsLogged, db, TypeOK, Idle
  <2> QED BY <1>3, <2>3, <2>4, <2>5, <2>6, <2>7 DEF RevokeStep
<1> QED BY <1>2, <1>3

LEMMA ReadStepInv ==
  ASSUME TypeInv, RevokeInv, ReadInv, NEW h \in ReadH,
         \/ ReadStep(h)
         \/ \E f \in {"strict", "normal", "any"}, free \in BOOLEAN : QuerySql(h, f, free)
         \/ \E o \in Offer : GetSql(h, o)
  PROVE  ReadInv'
<1>1. TypeOK
  BY DEF TypeInv
<1>2. CASE \E f \in {"strict", "normal", "any"}, free \in BOOLEAN : QuerySql(h, f, free)
  BY <1>1, <1>2 DEF QuerySql, Candidates, RevokeInv, ReadInv, RevokedNeverReturned, TypeOK
<1>3. CASE \E o \in Offer : GetSql(h, o)
  BY <1>1, <1>3 DEF GetSql, RevokeInv, ReadInv, RevokedNeverReturned, TypeOK
<1>4. CASE ReadRedis(h)
  <2>1. PICK items :
          /\ qh' = [qh EXCEPT ![h] =
               [pc |-> "reply", kind |-> qh[h].kind, freshness |-> qh[h].freshness,
                at |-> now, items |-> items, gone |-> qh[h].gone]]
          /\ \A it \in items : it.offer \in qh[h].rows
                               /\ (it.offer \in qh[h].dead => it.status = "revoked")
    <3> DEFINE isBusy(o) == Fetch(terms, o) # None /\ Fetch(busy, o) # None
               kept == {o \in qh[h].rows : /\ Fresh(qh[h].freshness, o, Fetch(terms, o))
                                           /\ ~(qh[h].free /\ isBusy(o))}
               item(o) == [offer |-> o, terms |-> Fetch(terms, o),
                           status |-> offerStatus(o \in qh[h].dead, ExpiresAt[o],
                                                  Fetch(terms, o) # None, isBusy(o), now)]
    <3>1. \A o \in kept : /\ item(o).offer = o /\ o \in qh[h].rows
                          /\ o \in qh[h].dead => item(o).status = "revoked"
      BY DEF offerStatus
    <3>2. qh' = [qh EXCEPT ![h] =
            [pc |-> "reply", kind |-> qh[h].kind, freshness |-> qh[h].freshness,
             at |-> now, items |-> {item(o) : o \in kept}, gone |-> qh[h].gone]]
      BY <1>4 DEF ReadRedis
    <3> HIDE DEF item, kept
    <3> WITNESS {item(o) : o \in kept}
    <3> QED BY <3>1, <3>2
  <2>2. \A o \in qh[h].rows : o \in qh[h].gone => qh[h].kind = "get" /\ o \in qh[h].dead
    BY <1>4 DEF ReadRedis, ReadInv
  <2> QED BY <1>1, <2>1, <2>2 DEF ReadInv, RevokedNeverReturned, TypeOK
<1>5. CASE ReadReturn(h)
  BY <1>1, <1>5 DEF ReadReturn, ReadInv, RevokedNeverReturned, TypeOK, Idle
<1> QED BY <1>2, <1>3, <1>4, <1>5 DEF ReadStep

LEMMA NextRevokeInv == TypeInv /\ RevokeInv /\ ReadInv /\ [Next]_vars => RevokeInv' /\ ReadInv'
<1> SUFFICES ASSUME TypeInv, RevokeInv, ReadInv, [Next]_vars PROVE RevokeInv' /\ ReadInv'
  OBVIOUS
<1>1. ASSUME UNCHANGED <<revoked, log, rh, acked>> PROVE RevokeInv'
  BY <1>1 DEF RevokeInv, RevokedIsLogged
<1>2. ASSUME UNCHANGED qh PROVE ReadInv'
  BY <1>2 DEF ReadInv, RevokedNeverReturned
<1>3. CASE UNCHANGED vars
  BY <1>1, <1>2, <1>3 DEF vars, db, calls, reads
<1>4. ASSUME NEW h \in TermsH, TermsStep(h) \/ \E o \in Offer, m \in TermsMsg : TermsRecv(h, o, m)
      PROVE  RevokeInv' /\ ReadInv'
  BY <1>1, <1>2, <1>4, TermsFrame DEF db, reads
<1>5. ASSUME NEW h \in AvailH, AvailStep(h) \/ \E o \in Offer, m \in AvailMsg : AvailRecv(h, o, m)
      PROVE  RevokeInv' /\ ReadInv'
  BY <1>1, <1>2, <1>5, AvailFrame DEF db, reads
<1>6. ASSUME NEW h \in RevokeH, RevokeStep(h) \/ \E o \in Offer, m \in RevokeMsg : RevokeRecv(h, o, m)
      PROVE  RevokeInv' /\ ReadInv'
  BY <1>2, <1>6, RevokeStepInv, RevokeFrame DEF reads
<1>7. ASSUME NEW h \in ReadH,
             \/ ReadStep(h)
             \/ \E f \in {"strict", "normal", "any"}, free \in BOOLEAN : QuerySql(h, f, free)
             \/ \E o \in Offer : GetSql(h, o)
      PROVE  RevokeInv' /\ ReadInv'
  BY <1>1, <1>7, ReadStepInv, ReadFrame DEF db
<1>8. ASSUME NEW h \in LiveH, LiveStep(h) \/ LiveMiss(h)
      PROVE  RevokeInv' /\ ReadInv'
  BY <1>1, <1>2, <1>8, LiveFrame DEF db
<1>9. CASE Tick \/ RedisUp \/ \E lose \in BOOLEAN : RedisDown(lose)
  BY <1>1, <1>2, <1>9 DEF Tick, RedisUp, RedisDown, db, calls, reads
<1>10. CASE Crash
  BY <1>10 DEF Crash, db, RevokeInv, RevokedIsLogged, ReadInv, RevokedNeverReturned, Idle
<1> QED BY <1>3, <1>4, <1>5, <1>6, <1>7, <1>8, <1>9, <1>10 DEF Next

LEMMA RevokeInvariant == Spec => [](RevokeInv /\ ReadInv)
<1>1. Init => RevokeInv /\ ReadInv
  BY InitRevokeInv
<1>2. TypeInv /\ (RevokeInv /\ ReadInv) /\ [Next]_vars => (RevokeInv /\ ReadInv)'
  BY NextRevokeInv
<1> QED BY <1>1, <1>2, TypeInvariant, PTL DEF Spec

\* However heartbeats, hints, revocations, outages and crashes interleave, a read
\* that starts after a revocation was answered never lists the offer and a lookup
\* reports it revoked (postRevoke, getOffers, getOffer).
THEOREM RevocationIsFinal == Spec => []RevokedNeverReturned
BY RevokeInvariant, PTL DEF ReadInv

\* No revoked row without the owner's signed payload in payload_log (postRevoke).
THEOREM RevocationIsLogged == Spec => []RevokedIsLogged
BY RevokeInvariant, PTL DEF RevokeInv

-----------------------------------------------------------------------------
(* The busy flag heals itself                                              *)

LEMMA NextBusy == TypeInv /\ BusyBounded /\ [Next]_vars => BusyBounded'
<1> SUFFICES ASSUME TypeInv, BusyBounded, [Next]_vars PROVE BusyBounded'
  OBVIOUS
<1>1. TypeOK
  BY DEF TypeInv
<1>2. ASSUME now' \in Nat, now' >= now,
             \A o \in Offer : busy'[o] = busy[o] \/ busy'[o] = None
      PROVE  BusyBounded'
  BY <1>1, <1>2, LimitAssumption DEF BusyBounded, TypeOK
<1>3. ASSUME UNCHANGED <<now, busy>> PROVE BusyBounded'
  BY <1>1, <1>2, <1>3 DEF TypeOK
<1>4. CASE UNCHANGED vars
  BY <1>3, <1>4 DEF vars, redisVars, busyKeys
<1>5. ASSUME NEW h \in TermsH, TermsStep(h) \/ \E o \in Offer, m \in TermsMsg : TermsRecv(h, o, m)
      PROVE  BusyBounded'
  BY <1>3, <1>5, TermsFrame DEF busyKeys
<1>6. ASSUME NEW h \in AvailH, AvailStep(h) \/ \E o \in Offer, m \in AvailMsg : AvailRecv(h, o, m)
      PROVE  BusyBounded'
  <2>1. CASE AvailApply(h)
    <3> DEFINE c == ah[h]
    <3>1. c \in AvailCall /\ c # Idle /\ c.pc = "apply"
      BY <1>1, <2>1, CallTypes DEF AvailApply, Idle
    <3>2. /\ SignedByOwner(c.m, c.offer) /\ now <= c.at + MaxLatency
          /\ c.m \in AvailMsg /\ c.offer \in Offer /\ c.at \in Nat
          /\ c.m.validUntil \in Nat /\ c.m.available \in BOOLEAN
      BY <3>1, MsgAssumption DEF TypeInv, AvailChecked, Timely, AvailCall, AvailPayload
    <3>3. now' = now /\ busy' = BusyAfter(c)
      BY <2>1 DEF AvailApply
    <3>4. CASE c.m.available
      BY <1>1, <1>2, <3>2, <3>3, <3>4 DEF BusyAfter, Put, TypeOK
    <3>5. CASE ~c.m.available /\ c.m.validUntil <= c.at
      BY <1>3, <3>3, <3>5 DEF BusyAfter
    <3>6. CASE ~c.m.available /\ c.m.validUntil > c.at
      <4> DEFINE v == now + BusyTtl(c.m, c.at)
      <4>1. v \in Nat /\ v <= now + AvailMaxValidity /\ v <= c.m.validUntil + MaxLatency
        BY <1>1, <3>2, <3>6, LimitAssumption DEF BusyTtl, Lesser, TypeOK
      <4>2. busy' = Put(busy, c.offer, v)
        BY <3>2, <3>3, <3>6 DEF BusyAfter
      <4>3. \A o \in Offer : busy'[o] = busy[o] \/ (o = c.offer /\ busy'[o] = v)
        BY <1>1, <4>2 DEF Put, TypeOK
      <4> HIDE DEF v
      <4> QED BY <3>2, <3>3, <3>6, <4>1, <4>3 DEF BusyBounded
    <3> QED BY <3>2, <3>4, <3>5, <3>6
  <2>2. CASE AvailCheck(h) \/ AvailGetSeq(h) \/ AvailSetSeq(h)
             \/ \E o \in Offer, m \in AvailMsg : AvailRecv(h, o, m)
    BY <1>3, <2>2 DEF AvailCheck, AvailGetSeq, AvailSetSeq, AvailRecv, redisVars, busyKeys
  <2> QED BY <1>6, <2>1, <2>2 DEF AvailStep
<1>7. ASSUME NEW h \in RevokeH, RevokeStep(h) \/ \E o \in Offer, m \in RevokeMsg : RevokeRecv(h, o, m)
      PROVE  BusyBounded'
  <2>1. now' = now
    BY <1>7, RevokeFrame
  <2>2. CASE RevokeDel(h)
    BY <1>1, <1>2, <2>1, <2>2 DEF RevokeDel, Put, TypeOK
  <2>3. CASE ~RevokeDel(h)
    BY <1>3, <1>7, <2>1, <2>3
       DEF RevokeStep, RevokeRecv, RevokeLog, RevokeUpdate, RevokeZrem, RevokeHdel, redisVars, busyKeys
  <2> QED BY <2>2, <2>3
<1>8. ASSUME NEW h \in ReadH,
             \/ ReadStep(h)
             \/ \E f \in {"strict", "normal", "any"}, free \in BOOLEAN : QuerySql(h, f, free)
             \/ \E o \in Offer : GetSql(h, o)
      PROVE  BusyBounded'
  BY <1>3, <1>8, ReadFrame DEF redisVars, busyKeys
<1>9. ASSUME NEW h \in LiveH, LiveStep(h) \/ LiveMiss(h)
      PROVE  BusyBounded'
  BY <1>3, <1>9, LiveFrame DEF busyKeys
<1>10. CASE Tick
  BY <1>1, <1>2, <1>10 DEF Tick, TypeOK
<1>11. CASE RedisUp \/ Crash
  BY <1>3, <1>11 DEF RedisUp, Crash, redisVars, busyKeys
<1>12. CASE \E lose \in BOOLEAN : RedisDown(lose)
  <2>1. now' = now /\ \A o \in Offer : busy'[o] = busy[o] \/ busy'[o] = None
    BY <1>12 DEF RedisDown, redisVars, busyKeys
  <2> QED BY <1>1, <1>2, <2>1 DEF TypeOK
<1> QED BY <1>4, <1>5, <1>6, <1>7, <1>8, <1>9, <1>10, <1>11, <1>12 DEF Next

\* Whatever races and fails, a busy flag is gone no later than MaxLatency after the
\* validUntil its provider signed, and never more than AvailMaxValidity from now
\* (postAvailability, setBusy).
THEOREM BusySelfHeals == Spec => []BusyBounded
<1>1. Init => BusyBounded
  BY DEF Init, BusyBounded
<1> QED BY <1>1, NextBusy, TypeInvariant, PTL DEF Spec

-----------------------------------------------------------------------------
(* What is reported live is signed and current                             *)

TermsBacked ==
  \A o \in Offer : terms[o] # None =>
    /\ SignedByOwner(terms[o].m, o)
    /\ terms[o].exp <= terms[o].m.validUntil + MaxLatency
    /\ now < terms[o].exp

LEMMA NextTermsBacked == TypeInv /\ TermsBacked /\ [Next]_vars => TermsBacked'
<1> SUFFICES ASSUME TypeInv, TermsBacked, [Next]_vars PROVE TermsBacked'
  OBVIOUS
<1>1. TypeOK
  BY DEF TypeInv
<1>2. ASSUME now' = now, \A o \in Offer : terms'[o] = terms[o] \/ terms'[o] = None
      PROVE  TermsBacked'
  BY <1>2 DEF TermsBacked
<1>3. CASE UNCHANGED vars
  BY <1>2, <1>3 DEF vars, redisVars, liveKeys
<1>4. ASSUME NEW h \in TermsH, TermsStep(h) \/ \E o \in Offer, m \in TermsMsg : TermsRecv(h, o, m)
      PROVE  TermsBacked'
  <2>1. now' = now
    BY <1>4, TermsFrame
  <2>2. CASE TermsSet(h) \/ TermsSetReplyLost(h)
    <3> DEFINE c == th[h]
    <3>1. c \in TermsCall /\ c # Idle /\ c.pc = "set"
      BY <1>1, <2>2, CallTypes DEF TermsSet, TermsSetReplyLost, Idle
    <3>2. /\ SignedByOwner(c.m, c.offer) /\ c.m.validUntil > c.at /\ now <= c.at + MaxLatency
          /\ c.at \in Nat /\ c.offer \in Offer /\ c.m.validUntil \in Nat
      BY <3>1, MsgAssumption DEF TypeInv, TermsChecked, Timely, TermsCall, TermsPayload
    <3>3. FreshWindow(c.offer) \in Nat \ {0}
      BY <3>2, OfferAssumption, LimitAssumption DEF FreshWindow
    <3>4. /\ EntryOf(c).m = c.m
          /\ EntryOf(c).exp <= c.m.validUntil + MaxLatency
          /\ now < EntryOf(c).exp
      BY <1>1, <3>2, <3>3, LimitAssumption DEF EntryOf, TermsTtl, Lesser, TypeOK
    <3>5. \A o \in Offer : terms'[o] = terms[o] \/ (o = c.offer /\ terms'[o] = EntryOf(c))
      BY <1>1, <2>2 DEF TermsSet, TermsSetReplyLost, Put, TypeOK
    <3> QED BY <2>1, <3>2, <3>4, <3>5 DEF TermsBacked
  <2>3. CASE ~(TermsSet(h) \/ TermsSetReplyLost(h))
    BY <1>2, <1>4, <2>1, <2>3
       DEF TermsStep, TermsRecv, TermsCheck, TermsGetSeq, TermsSetSeq, TermsZadd, TermsHset,
           TermsTouch, redisVars, liveKeys
  <2> QED BY <2>2, <2>3
<1>5. ASSUME NEW h \in AvailH, AvailStep(h) \/ \E o \in Offer, m \in AvailMsg : AvailRecv(h, o, m)
      PROVE  TermsBacked'
  BY <1>2, <1>5, AvailFrame DEF liveKeys
<1>6. ASSUME NEW h \in RevokeH, RevokeStep(h) \/ \E o \in Offer, m \in RevokeMsg : RevokeRecv(h, o, m)
      PROVE  TermsBacked'
  <2>1. now' = now
    BY <1>6, RevokeFrame
  <2>2. CASE RevokeDel(h)
    BY <1>1, <1>2, <2>1, <2>2 DEF RevokeDel, Put, TypeOK
  <2>3. CASE ~RevokeDel(h)
    BY <1>2, <1>6, <2>1, <2>3
       DEF RevokeStep, RevokeRecv, RevokeLog, RevokeUpdate, RevokeZrem, RevokeHdel, redisVars, liveKeys
  <2> QED BY <2>2, <2>3
<1>7. ASSUME NEW h \in ReadH,
             \/ ReadStep(h)
             \/ \E f \in {"strict", "normal", "any"}, free \in BOOLEAN : QuerySql(h, f, free)
             \/ \E o \in Offer : GetSql(h, o)
      PROVE  TermsBacked'
  BY <1>2, <1>7, ReadFrame DEF redisVars, liveKeys
<1>8. ASSUME NEW h \in LiveH, LiveStep(h) \/ LiveMiss(h)
      PROVE  TermsBacked'
  BY <1>2, <1>8, LiveFrame
<1>9. CASE Tick
  <2>1. \A o \in Offer : terms[o] # None => terms[o].exp \in Nat
    BY <1>1 DEF TypeOK, TermsEntry
  <2>2. /\ now' = now + 1
        /\ \A o \in Offer : terms'[o] = IF terms[o] # None /\ terms[o].exp <= now + 1
                                          THEN None ELSE terms[o]
    BY <1>9 DEF Tick
  <2> QED BY <1>1, <2>1, <2>2 DEF TermsBacked, TypeOK
<1>10. CASE RedisUp \/ Crash \/ \E lose \in BOOLEAN : RedisDown(lose)
  BY <1>2, <1>10 DEF RedisUp, Crash, RedisDown, redisVars, liveKeys
<1> QED BY <1>3, <1>4, <1>5, <1>6, <1>7, <1>8, <1>9, <1>10 DEF Next

LEMMA NextActive ==
  TypeInv /\ TermsBacked /\ ActiveMeansSigned /\ [Next]_vars => ActiveMeansSigned'
<1> SUFFICES ASSUME TypeInv, TermsBacked, ActiveMeansSigned, [Next]_vars
             PROVE  ActiveMeansSigned'
  OBVIOUS
<1>1. TypeOK
  BY DEF TypeInv
<1>2. ASSUME UNCHANGED qh PROVE ActiveMeansSigned'
  BY <1>2 DEF ActiveMeansSigned
<1>3. ASSUME NEW h \in ReadH, ReadRedis(h) PROVE ActiveMeansSigned'
  <2> DEFINE isBusy(o) == Fetch(terms, o) # None /\ Fetch(busy, o) # None
             kept == {o \in qh[h].rows : /\ Fresh(qh[h].freshness, o, Fetch(terms, o))
                                         /\ ~(qh[h].free /\ isBusy(o))}
             item(o) == [offer |-> o, terms |-> Fetch(terms, o),
                         status |-> offerStatus(o \in qh[h].dead, ExpiresAt[o],
                                                Fetch(terms, o) # None, isBusy(o), now)]
  <2>1. qh[h] \in ReadCall
    BY <1>1, <1>3, CallTypes DEF ReadRedis
  <2>2. ASSUME NEW o \in kept
        PROVE  /\ qh[h].freshness # "any" => item(o).terms # None
               /\ item(o).terms # None => /\ SignedByOwner(item(o).terms.m, item(o).offer)
                                          /\ now < item(o).terms.m.validUntil + MaxLatency
               /\ item(o).status \in {"active", "busy"} =>
                    item(o).terms # None /\ ExpiresAt[item(o).offer] > now
    <3>1. o \in Offer /\ Fresh(qh[h].freshness, o, Fetch(terms, o))
      BY <2>1 DEF ReadCall
    <3>2. qh[h].freshness # "any" => Fetch(terms, o) # None
      BY <3>1 DEF Fresh
    <3>3. Fetch(terms, o) # None =>
            /\ SignedByOwner(Fetch(terms, o).m, o)
            /\ now < Fetch(terms, o).m.validUntil + MaxLatency
      <4>1. terms[o] # None => /\ terms[o].exp \in Nat /\ terms[o].m.validUntil \in Nat
        BY <1>1, <3>1, MsgAssumption DEF TypeOK, TermsEntry, TermsPayload
      <4> QED BY <1>1, <3>1, <4>1, LimitAssumption DEF Fetch, TermsBacked, TypeOK
    <3>4. ExpiresAt[o] \in Nat /\ now \in Nat
      BY <1>1, <3>1, OfferAssumption DEF TypeOK
    <3>5. item(o).status \in {"active", "busy"} => Fetch(terms, o) # None /\ ExpiresAt[o] > now
      BY <3>4 DEF offerStatus
    <3> QED BY <3>2, <3>3, <3>5
  <2>3. qh' = [qh EXCEPT ![h] =
          [pc |-> "reply", kind |-> qh[h].kind, freshness |-> qh[h].freshness, at |-> now,
           items |-> {item(o) : o \in kept}, gone |-> qh[h].gone]]
    BY <1>3 DEF ReadRedis
  <2> HIDE DEF item, kept
  <2> QED BY <1>1, <2>2, <2>3 DEF ActiveMeansSigned, TypeOK
<1>4. ASSUME NEW h \in ReadH,
             \/ ReadReturn(h)
             \/ \E f \in {"strict", "normal", "any"}, free \in BOOLEAN : QuerySql(h, f, free)
             \/ \E o \in Offer : GetSql(h, o)
      PROVE  ActiveMeansSigned'
  BY <1>1, <1>4 DEF ReadReturn, QuerySql, GetSql, ActiveMeansSigned, TypeOK, Idle
<1>5. CASE UNCHANGED vars
  BY <1>2, <1>5 DEF vars, calls, reads
<1>6. CASE \E h \in TermsH : TermsStep(h) \/ \E o \in Offer, m \in TermsMsg : TermsRecv(h, o, m)
  BY <1>2, <1>6, TermsFrame DEF reads
<1>7. CASE \E h \in AvailH : AvailStep(h) \/ \E o \in Offer, m \in AvailMsg : AvailRecv(h, o, m)
  BY <1>2, <1>7, AvailFrame DEF reads
<1>8. CASE \E h \in RevokeH : RevokeStep(h) \/ \E o \in Offer, m \in RevokeMsg : RevokeRecv(h, o, m)
  BY <1>2, <1>8, RevokeFrame DEF reads
<1>9. CASE \E h \in LiveH : LiveStep(h) \/ LiveMiss(h)
  BY <1>2, <1>9, LiveFrame
<1>10. CASE Tick \/ RedisUp \/ \E lose \in BOOLEAN : RedisDown(lose)
  BY <1>2, <1>10 DEF Tick, RedisUp, RedisDown, calls, reads
<1>11. CASE Crash
  BY <1>11 DEF Crash, ActiveMeansSigned, Idle
<1> QED BY <1>3, <1>4, <1>5, <1>6, <1>7, <1>8, <1>9, <1>10, <1>11 DEF Next, ReadStep

LEMMA TermsBackedInvariant == Spec => []TermsBacked
<1>1. Init => TermsBacked
  BY DEF Init, TermsBacked
<1> QED BY <1>1, NextTermsBacked, TypeInvariant, PTL DEF Spec

\* Whatever races and fails, an offer a read reports active or busy has unexpired
\* template dates and owner-signed terms at most MaxLatency past validUntil
\* (postTerms, setTerms, getOffers, offerStatus).
THEOREM LiveIsSigned == Spec => []ActiveMeansSigned
<1>1. Init => ActiveMeansSigned
  BY DEF Init, ActiveMeansSigned, Idle
<1> QED BY <1>1, NextActive, TypeInvariant, TermsBackedInvariant, PTL DEF Spec

-----------------------------------------------------------------------------
(* The reported status follows OfferStatus                                 *)

LEMMA StatusType ==
  ASSUME TypeOK, NEW o \in Offer
  PROVE  /\ StatusNow(o) \in {"stale", "active", "busy", "expired", "revoked"}
         /\ StatusNow(o) = "revoked" <=> o \in revoked
         /\ StatusNow(o) = "expired" <=> o \notin revoked /\ ExpiresAt[o] <= now
<1>1. ExpiresAt[o] \in Nat /\ now \in Nat
  BY OfferAssumption DEF TypeOK
<1> QED BY <1>1 DEF StatusNow, offerStatus

\* A row is never un-revoked and the clock never goes back.
LEMMA OnlyOnwards ==
  ASSUME TypeOK, [Next]_vars
  PROVE  revoked \subseteq revoked' /\ now <= now'
<1>1. now \in Nat
  BY DEF TypeOK
<1>2. CASE UNCHANGED vars
  BY <1>1, <1>2 DEF vars, db
<1>3. CASE \E h \in TermsH : TermsStep(h) \/ \E o \in Offer, m \in TermsMsg : TermsRecv(h, o, m)
  BY <1>1, <1>3, TermsFrame DEF db
<1>4. CASE \E h \in AvailH : AvailStep(h) \/ \E o \in Offer, m \in AvailMsg : AvailRecv(h, o, m)
  BY <1>1, <1>4, AvailFrame DEF db
<1>5. CASE \E h \in RevokeH : RevokeStep(h) \/ \E o \in Offer, m \in RevokeMsg : RevokeRecv(h, o, m)
  BY <1>1, <1>5, RevokeFrame
     DEF RevokeStep, RevokeRecv, RevokeLog, RevokeUpdate, RevokeDel, RevokeZrem, RevokeHdel, db
<1>6. CASE \E h \in ReadH : \/ ReadStep(h)
                            \/ \E f \in {"strict", "normal", "any"}, free \in BOOLEAN : QuerySql(h, f, free)
                            \/ \E o \in Offer : GetSql(h, o)
  BY <1>1, <1>6, ReadFrame DEF db
<1>7. CASE \E h \in LiveH : LiveStep(h) \/ LiveMiss(h)
  BY <1>1, <1>7, LiveFrame DEF db
<1>8. CASE Tick \/ RedisUp \/ Crash \/ \E lose \in BOOLEAN : RedisDown(lose)
  BY <1>1, <1>8 DEF Tick, RedisUp, Crash, RedisDown, db
<1> QED BY <1>2, <1>3, <1>4, <1>5, <1>6, <1>7, <1>8 DEF Next

LEMMA StatusStep ==
  TypeOK /\ TypeOK' /\ [Next]_vars => [Board!Next]_([o \in Offer |-> StatusNow(o)])
<1> SUFFICES ASSUME TypeOK, TypeOK', [Next]_vars
             PROVE  Board!Next
  OBVIOUS
<1> DEFINE s == [o \in Offer |-> StatusNow(o)]
<1>1. revoked \subseteq revoked' /\ now <= now'
  BY OnlyOnwards
<1>2. \A o \in Offer : s[o] = StatusNow(o) /\ s'[o] = StatusNow(o)'
  OBVIOUS
<1>3. \A o \in Offer : /\ StatusNow(o)' \in {"stale", "active", "busy", "expired", "revoked"}
                       /\ StatusNow(o)' = "revoked" <=> o \in revoked'
                       /\ StatusNow(o)' = "expired" <=> o \notin revoked' /\ ExpiresAt[o] <= now'
  <2> SUFFICES ASSUME NEW o \in Offer
               PROVE  /\ StatusNow(o)' \in {"stale", "active", "busy", "expired", "revoked"}
                      /\ StatusNow(o)' = "revoked" <=> o \in revoked'
                      /\ StatusNow(o)' = "expired" <=> o \notin revoked' /\ ExpiresAt[o] <= now'
    OBVIOUS
  <2>1. ExpiresAt[o] \in Nat /\ now' \in Nat
    BY OfferAssumption DEF TypeOK
  <2> QED BY <2>1 DEF StatusNow, offerStatus
<1>4. s' \in [Offer -> Board!Status]
  BY <1>3 DEF Board!Status, Board!Soft
<1>5. \A o \in Offer : /\ s[o] = "revoked" => s'[o] = "revoked"
                       /\ s[o] = "expired" => s'[o] \in {"expired", "revoked"}
  <2> SUFFICES ASSUME NEW o \in Offer
               PROVE  /\ StatusNow(o) = "revoked" => StatusNow(o)' = "revoked"
                      /\ StatusNow(o) = "expired" => StatusNow(o)' \in {"expired", "revoked"}
    BY <1>2
  <2>1. ExpiresAt[o] \in Nat /\ now \in Nat /\ now' \in Nat
    BY OfferAssumption DEF TypeOK
  <2> QED BY <1>1, <1>3, <2>1, StatusType
<1> QED BY <1>4, <1>5 DEF Board!Next

\* The registry implements OfferStatus: through every race, outage and crash an
\* expired offer can only become revoked and a revoked one stays revoked
\* (offerStatus, postRevoke, postTerms).
THEOREM StatusRefined == Spec => StatusLifecycle
<1>1. Init => Board!Init
  <2> SUFFICES ASSUME Init PROVE Board!Init
    OBVIOUS
  <2>1. \A o \in Offer : StatusNow(o) = "stale"
    BY OfferAssumption DEF Init, StatusNow, offerStatus, Fetch
  <2> QED BY <2>1 DEF Board!Init
<1>2. TypeInv /\ TypeInv' /\ [Next]_vars => [Board!Next]_([o \in Offer |-> StatusNow(o)])
  BY StatusStep DEF TypeInv
<1> QED BY <1>1, <1>2, TypeInvariant, PTL DEF Spec, StatusLifecycle, Board!Spec

-----------------------------------------------------------------------------
(* What a snapshot shows is backed                                         *)

PricedBy(o, p) == \E m \in TermsMsg : SignedByOwner(m, o) /\ m.price = p
StandingAt(o, t) == \E m \in TermsMsg : SignedByOwner(m, o) /\ t <= m.validUntil

\* Scores and prices come from the owner's terms, though perhaps not the same ones.
KeysBacked ==
  \A o \in Offer : /\ score[o] # None => StandingAt(o, score[o])
                   /\ price[o] # None => PricedBy(o, price[o])

\* So do the members a reader has listed as of lh[h].at, and the rows it priced.
ListBacked ==
  \A h \in LiveH : lh[h] # Idle =>
    /\ \A o \in lh[h].ids : StandingAt(o, lh[h].at)
    /\ \A r \in lh[h].rows : r.offer \in lh[h].ids /\ PricedBy(r.offer, r.price)

\* And the rows it caches, which stay for SnapshotTtl.
CacheBacked ==
  snap # None => /\ now < snap.exp
                 /\ \A r \in snap.rows : RowBacked(r, snap.exp - SnapshotTtl)

SnapInv == KeysBacked /\ ListBacked /\ CacheBacked

LEMMA RowsBacked ==
  ASSUME TypeInv, ListBacked, NEW h \in LiveH, lh[h] # Idle, NEW r \in lh[h].rows
  PROVE  RowBacked(r, now)
<1>1. lh[h] \in LiveCall
  BY DEF TypeInv, TypeOK
<1>2. lh[h].at \in Nat /\ now \in Nat /\ now <= lh[h].at + MaxLatency /\ MaxLatency \in Nat
  BY <1>1, LimitAssumption DEF TypeInv, TypeOK, Timely, LiveCall
<1>3. PICK m \in TermsMsg : SignedByOwner(m, r.offer) /\ lh[h].at <= m.validUntil
  BY DEF ListBacked, StandingAt
<1>4. m.validUntil \in Nat
  BY MsgAssumption DEF TermsPayload
<1>5. now <= m.validUntil + MaxLatency
  BY <1>2, <1>3, <1>4
<1> QED BY <1>3, <1>5 DEF ListBacked, PricedBy, RowBacked

LEMMA SnapInvShows == TypeInv /\ SnapInv => SnapshotBacked
<1> SUFFICES ASSUME TypeInv, SnapInv PROVE SnapshotBacked
  OBVIOUS
<1>1. ASSUME snap # None, NEW r \in snap.rows PROVE RowBacked(r, now - SnapshotTtl)
  <2>1. snap.exp \in Nat /\ now \in Nat /\ now < snap.exp
    BY <1>1 DEF TypeInv, TypeOK, Snapshot, SnapInv, CacheBacked
  <2>2. RowBacked(r, snap.exp - SnapshotTtl)
    BY <1>1 DEF SnapInv, CacheBacked
  <2>3. \A m \in TermsMsg : m.validUntil \in Nat
    BY MsgAssumption DEF TermsPayload
  <2> QED BY <2>1, <2>2, <2>3, LimitAssumption DEF RowBacked
<1> QED BY <1>1, RowsBacked DEF SnapshotBacked, SnapInv

LEMMA NextKeys == TypeInv /\ KeysBacked /\ [Next]_vars => KeysBacked'
<1> SUFFICES ASSUME TypeInv, KeysBacked, [Next]_vars PROVE KeysBacked'
  OBVIOUS
<1>1. TypeOK
  BY DEF TypeInv
<1>2. ASSUME \A o \in Offer : score'[o] = score[o] \/ score'[o] = None,
             \A o \in Offer : price'[o] = price[o] \/ price'[o] = None
      PROVE  KeysBacked'
  BY <1>2 DEF KeysBacked, StandingAt, PricedBy
<1>3. ASSUME UNCHANGED <<score, price>> PROVE KeysBacked'
  BY <1>2, <1>3
<1>4. CASE UNCHANGED vars
  BY <1>3, <1>4 DEF vars, redisVars, liveKeys
<1>5. ASSUME NEW h \in TermsH, TermsStep(h) \/ \E o \in Offer, m \in TermsMsg : TermsRecv(h, o, m)
      PROVE  KeysBacked'
  <2> DEFINE c == th[h]
  <2>1. CASE ~ TermsZadd(h) /\ ~ TermsHset(h)
    BY <1>3, <1>5, <2>1 DEF TermsStep, TermsRecv, TermsCheck, TermsGetSeq, TermsSetSeq, TermsSet,
       TermsSetReplyLost, TermsTouch, redisVars, liveKeys
  <2>2. CASE TermsZadd(h) \/ TermsHset(h)
    <3>1. c \in TermsCall /\ c.pc \in {"zadd", "hset"}
      BY <1>1, <2>2, CallTypes DEF TermsZadd, TermsHset
    <3>2. SignedByOwner(c.m, c.offer) /\ c.m \in TermsMsg /\ c.offer \in Offer
      BY <3>1 DEF TypeInv, TermsChecked, TermsCall
    <3>3. ScoreOf(c) <= c.m.validUntil
      BY <3>1, TermsTtlType, MsgAssumption DEF ScoreOf, TermsCall, TermsPayload
    <3>4. StandingAt(c.offer, ScoreOf(c)) /\ PricedBy(c.offer, c.m.price)
      BY <3>2, <3>3 DEF StandingAt, PricedBy
    <3>5. \A o \in Offer : score'[o] = score[o] \/ (o = c.offer /\ score'[o] = ScoreOf(c))
      BY <1>1, <2>2, <3>2 DEF TermsZadd, TermsHset, Put, TypeOK
    <3>6. \A o \in Offer : price'[o] = price[o] \/ (o = c.offer /\ price'[o] = c.m.price)
      BY <1>1, <2>2, <3>2 DEF TermsZadd, TermsHset, Put, TypeOK
    <3>7. \A o \in Offer : score'[o] # None => StandingAt(o, score'[o])
      BY <3>4, <3>5 DEF KeysBacked
    <3>8. \A o \in Offer : price'[o] # None => PricedBy(o, price'[o])
      BY <3>4, <3>6 DEF KeysBacked
    <3> QED BY <3>7, <3>8 DEF KeysBacked, StandingAt, PricedBy
  <2> QED BY <2>1, <2>2
<1>6. ASSUME NEW h \in AvailH, AvailStep(h) \/ \E o \in Offer, m \in AvailMsg : AvailRecv(h, o, m)
      PROVE  KeysBacked'
  BY <1>3, <1>6, AvailFrame DEF liveKeys
<1>7. ASSUME NEW h \in RevokeH, RevokeStep(h) \/ \E o \in Offer, m \in RevokeMsg : RevokeRecv(h, o, m)
      PROVE  KeysBacked'
  <2>1. /\ \A o \in Offer : score'[o] = score[o] \/ score'[o] = None
        /\ \A o \in Offer : price'[o] = price[o] \/ price'[o] = None
    BY <1>1, <1>7 DEF RevokeStep, RevokeRecv, RevokeLog, RevokeUpdate, RevokeDel, RevokeZrem, RevokeHdel,
       redisVars, liveKeys, Put, TypeOK
  <2> QED BY <1>2, <2>1
<1>8. ASSUME NEW h \in ReadH,
             \/ ReadStep(h)
             \/ \E f \in {"strict", "normal", "any"}, free \in BOOLEAN : QuerySql(h, f, free)
             \/ \E o \in Offer : GetSql(h, o)
      PROVE  KeysBacked'
  BY <1>3, <1>8, ReadFrame DEF redisVars, liveKeys
<1>9. ASSUME NEW h \in LiveH, LiveStep(h) \/ LiveMiss(h)
      PROVE  KeysBacked'
  <2>1. \A o \in Offer : score'[o] = score[o] \/ score'[o] = None
    BY <1>9 DEF LiveStep, LiveMiss, LivePrune, LiveRange, LivePrices, LiveCache, redisVars, liveKeys
  <2> QED BY <1>2, <1>9, <2>1, LiveFrame
<1>10. CASE Tick \/ RedisUp \/ Crash
  BY <1>3, <1>10 DEF Tick, RedisUp, Crash, redisVars, liveKeys
<1>11. CASE \E lose \in BOOLEAN : RedisDown(lose)
  BY <1>2, <1>11 DEF RedisDown, redisVars, liveKeys
<1> QED BY <1>4, <1>5, <1>6, <1>7, <1>8, <1>9, <1>10, <1>11 DEF Next

LEMMA LiveSnap ==
  ASSUME TypeInv, SnapInv, NEW h \in LiveH, LiveStep(h) \/ LiveMiss(h)
  PROVE  ListBacked' /\ CacheBacked'
<1> USE DEF SnapInv
<1>1. TypeOK /\ now' = now
  BY LiveFrame DEF TypeInv
<1> DEFINE c == lh[h]
<1>2. ASSUME snap' = snap PROVE CacheBacked'
  BY <1>1, <1>2 DEF CacheBacked, RowBacked
<1>3. ASSUME \A g \in LiveH \ {h} : lh'[g] = lh[g], lh'[h] = Idle \/
             (/\ \A o \in lh'[h].ids : StandingAt(o, lh'[h].at)
              /\ \A r \in lh'[h].rows : r.offer \in lh'[h].ids /\ PricedBy(r.offer, r.price))
      PROVE  ListBacked'
  BY <1>3 DEF ListBacked, StandingAt, PricedBy
<1>4. CASE LiveMiss(h)
  <2>1. /\ snap' = snap /\ \A g \in LiveH \ {h} : lh'[g] = lh[g]
        /\ lh'[h].ids = {} /\ lh'[h].rows = {}
    BY <1>1, <1>4 DEF LiveMiss, redisVars, TypeOK
  <2> QED BY <1>2, <1>3, <2>1
<1>5. CASE LiveStep(h)
  <2>1. c \in LiveCall /\ c # Idle
    BY <1>1, <1>5, CallTypes DEF LiveStep, LivePrune, LiveRange, LivePrices, LiveCache, Idle
  <2>2. CASE LivePrune(h)
    <3>1. /\ snap' = snap /\ \A g \in LiveH \ {h} : lh'[g] = lh[g]
          /\ lh'[h].ids = c.ids /\ lh'[h].rows = c.rows /\ lh'[h].at = c.at
      BY <1>1, <2>1, <2>2 DEF LivePrune, TypeOK, LiveCall
    <3> QED BY <1>2, <1>3, <2>1, <3>1 DEF ListBacked
  <2>3. CASE LiveRange(h)
    <3>1. /\ snap' = snap /\ \A g \in LiveH \ {h} : lh'[g] = lh[g]
          /\ lh'[h].ids = Listed(c.at) /\ lh'[h].rows = {} /\ lh'[h].at = c.at
      BY <1>1, <2>3 DEF LiveRange, TypeOK, redisVars
    <3>2. ASSUME NEW o \in Listed(c.at) PROVE StandingAt(o, c.at)
      <4>1. o \in Offer /\ score[o] # None /\ score[o] >= c.at /\ score[o] \in Nat /\ c.at \in Nat
        BY <1>1, <2>1 DEF Listed, TypeOK, LiveCall
      <4>2. \A m \in TermsMsg : m.validUntil \in Nat
        BY MsgAssumption DEF TermsPayload
      <4> QED BY <4>1, <4>2 DEF KeysBacked, StandingAt
    <3> QED BY <1>2, <1>3, <3>1, <3>2
  <2>4. CASE LivePrices(h)
    <3>1. /\ snap' = snap /\ \A g \in LiveH \ {h} : lh'[g] = lh[g]
          /\ lh'[h].ids = c.ids /\ lh'[h].rows = PricedRows(c.ids) /\ lh'[h].at = c.at
      BY <1>1, <2>1, <2>4 DEF LivePrices, TypeOK, LiveCall, redisVars
    <3>2. \A r \in PricedRows(c.ids) : r.offer \in c.ids /\ PricedBy(r.offer, r.price)
      BY <2>1 DEF PricedRows, KeysBacked, LiveCall
    <3> QED BY <1>2, <1>3, <2>1, <3>1, <3>2 DEF ListBacked
  <2>5. CASE LiveCache(h)
    <3>1. lh'[h] = Idle /\ \A g \in LiveH \ {h} : lh'[g] = lh[g]
      BY <1>1, <2>5 DEF LiveCache, TypeOK
    <3>2. snap' = snap \/ (snap'.exp = now + SnapshotTtl /\ snap'.rows = c.rows)
      BY <2>5 DEF LiveCache
    <3>3. ASSUME snap'.exp = now + SnapshotTtl /\ snap'.rows = c.rows PROVE CacheBacked'
      <4>1. now \in Nat /\ SnapshotTtl \in Nat \ {0}
        BY <1>1, LimitAssumption DEF TypeOK
      <4>2. snap'.exp - SnapshotTtl = now /\ now < snap'.exp
        BY <3>3, <4>1
      <4>3. \A r \in c.rows : RowBacked(r, now)
        BY <2>1, RowsBacked
      <4>4. \A r \in snap'.rows : RowBacked(r, snap'.exp - SnapshotTtl)
        BY <3>3, <4>2, <4>3
      <4>5. now' < snap'.exp
        BY <1>1, <4>2
      <4> QED BY <4>4, <4>5 DEF CacheBacked
    <3>4. CacheBacked'
      BY <1>2, <3>2, <3>3
    <3> QED BY <1>3, <3>1, <3>4
  <2> QED BY <1>5, <2>2, <2>3, <2>4, <2>5 DEF LiveStep
<1> QED BY <1>4, <1>5

LEMMA NextSnap == TypeInv /\ SnapInv /\ [Next]_vars => SnapInv'
<1> SUFFICES ASSUME TypeInv, SnapInv, [Next]_vars PROVE SnapInv'
  OBVIOUS
<1>1. KeysBacked'
  BY NextKeys DEF SnapInv
<1>2. ASSUME UNCHANGED <<now, snap, lh>> PROVE ListBacked' /\ CacheBacked'
  BY <1>2 DEF SnapInv, ListBacked, CacheBacked, RowBacked, StandingAt, PricedBy
<1>3. CASE \E h \in LiveH : LiveStep(h) \/ LiveMiss(h)
  BY <1>1, <1>3, LiveSnap DEF SnapInv
<1>4. CASE UNCHANGED vars
  BY <1>1, <1>2, <1>4 DEF SnapInv, vars, redisVars, calls, reads
<1>5. CASE \E h \in TermsH : TermsStep(h) \/ \E o \in Offer, m \in TermsMsg : TermsRecv(h, o, m)
  BY <1>1, <1>2, <1>5, TermsFrame DEF SnapInv, reads
<1>6. CASE \E h \in AvailH : AvailStep(h) \/ \E o \in Offer, m \in AvailMsg : AvailRecv(h, o, m)
  BY <1>1, <1>2, <1>6, AvailFrame DEF SnapInv, reads
<1>7. CASE \E h \in RevokeH : RevokeStep(h) \/ \E o \in Offer, m \in RevokeMsg : RevokeRecv(h, o, m)
  BY <1>1, <1>2, <1>7, RevokeFrame DEF SnapInv, reads
<1>8. CASE \E h \in ReadH : \/ ReadStep(h)
                            \/ \E f \in {"strict", "normal", "any"}, free \in BOOLEAN : QuerySql(h, f, free)
                            \/ \E o \in Offer : GetSql(h, o)
  BY <1>1, <1>2, <1>8, ReadFrame DEF SnapInv, redisVars
<1>9. CASE RedisUp
  BY <1>1, <1>2, <1>9 DEF SnapInv, RedisUp, redisVars, calls, reads
<1>10. CASE Tick
  <2>1. lh' = lh /\ now' = now + 1 /\ snap' = IF snap # None /\ snap.exp <= now + 1 THEN None ELSE snap
    BY <1>10 DEF Tick, calls, reads
  <2>2. snap # None => snap.exp \in Nat /\ now \in Nat
    BY DEF TypeInv, TypeOK, Snapshot
  <2>3. CacheBacked'
    BY <2>1, <2>2 DEF SnapInv, CacheBacked, RowBacked
  <2>4. ListBacked'
    BY <2>1 DEF SnapInv, ListBacked, StandingAt, PricedBy
  <2> QED BY <1>1, <2>3, <2>4 DEF SnapInv
<1>11. CASE \E lose \in BOOLEAN : RedisDown(lose)
  <2>1. lh' = lh /\ now' = now /\ (snap' = snap \/ snap' = None)
    BY <1>11 DEF RedisDown, calls, reads, redisVars
  <2>2. ListBacked' /\ CacheBacked'
    BY <2>1 DEF SnapInv, ListBacked, CacheBacked, RowBacked, StandingAt, PricedBy
  <2> QED BY <1>1, <2>2 DEF SnapInv
<1>12. CASE Crash
  <2>1. lh' = [h \in LiveH |-> Idle] /\ now' = now /\ snap' = snap
    BY <1>12 DEF Crash, redisVars
  <2>2. ListBacked' /\ CacheBacked'
    BY <2>1 DEF SnapInv, ListBacked, CacheBacked, RowBacked
  <2> QED BY <1>1, <2>2 DEF SnapInv
<1> QED BY <1>3, <1>4, <1>5, <1>6, <1>7, <1>8, <1>9, <1>10, <1>11, <1>12 DEF Next

\* Although live:offers and live:prices are written and read by separate commands
\* while heartbeats, revocations and outages go on, every row of a snapshot carries
\* a price its provider signed and stands on terms at most a cache lifetime and a
\* request latency old (setTerms, liveOffers, getLiveness).
THEOREM SnapshotIsBacked == Spec => []SnapshotBacked
<1>1. Init => SnapInv
  BY DEF Init, SnapInv, KeysBacked, ListBacked, CacheBacked
<1> QED BY <1>1, NextSnap, SnapInvShows, TypeInvariant, PTL DEF Spec

-----------------------------------------------------------------------------
(* A revocation cleans up                                                  *)

\* While Redis has stayed up, the commands of dropOffer have left their mark, and
\* nobody writes to an offer whose revocation no write was racing.
CleanInv ==
  faults = 0 =>
    /\ up = TRUE
    /\ \A o \in revoked \ raced : ~ WritesInFlight(o)
    /\ \A h \in RevokeH : rh[h].pc \in {"zrem", "hdel"} /\ rh[h].offer \notin raced =>
         /\ terms[rh[h].offer] = None /\ seq[rh[h].offer] = None
         /\ busy[rh[h].offer] = None /\ availSeq[rh[h].offer] = None
         /\ rh[h].pc = "hdel" => score[rh[h].offer] = None
    /\ RevokeCleans

\* A step without a fault that writes to no offer whose revocation was not raced,
\* except to clear a key.
LEMMA QuietClean ==
  ASSUME CleanInv, acked \subseteq revoked, RevokeInv, faults' = faults, up' = up,
         UNCHANGED <<revoked, raced, acked, rh>>,
         \A o \in revoked \ raced : WritesInFlight(o)' => WritesInFlight(o),
         \A o \in revoked \ raced :
           /\ terms'[o] = terms[o] \/ terms'[o] = None
           /\ seq'[o] = seq[o] \/ seq'[o] = None
           /\ score'[o] = score[o] \/ score'[o] = None
           /\ price'[o] = price[o] \/ price'[o] = None
           /\ busy'[o] = busy[o] \/ busy'[o] = None
           /\ availSeq'[o] = availSeq[o] \/ availSeq'[o] = None
  PROVE  CleanInv'
<1> SUFFICES ASSUME faults = 0
             PROVE  /\ \A o \in revoked \ raced : ~ WritesInFlight(o)'
                    /\ \A h \in RevokeH : rh[h].pc \in {"zrem", "hdel"} /\ rh[h].offer \notin raced =>
                         /\ terms'[rh[h].offer] = None /\ seq'[rh[h].offer] = None
                         /\ busy'[rh[h].offer] = None /\ availSeq'[rh[h].offer] = None
                         /\ rh[h].pc = "hdel" => score'[rh[h].offer] = None
                    /\ RevokeCleans'
  BY DEF CleanInv
<1>1. \A o \in revoked \ raced : ~ WritesInFlight(o)'
  BY DEF CleanInv
<1>2. \A h \in RevokeH : rh[h].pc \in {"zrem", "hdel"} => rh[h].offer \in revoked
  BY DEF RevokeInv
<1>3. RevokeCleans'
  BY DEF CleanInv, RevokeCleans
<1> QED BY <1>1, <1>2, <1>3 DEF CleanInv

LEMMA TermsClean ==
  ASSUME TypeInv, RevokeInv, CleanInv, NEW h \in TermsH,
         TermsStep(h) \/ \E o \in Offer, m \in TermsMsg : TermsRecv(h, o, m)
  PROVE  CleanInv'
<1>1. TypeOK /\ acked \subseteq revoked
  BY DEF TypeInv, RevokeInv
<1>2. UNCHANGED <<revoked, raced, acked, rh, ah, busy, availSeq>>
  BY TermsFrame DEF db, busyKeys
<1>3. CASE faults' # 0
  BY <1>3 DEF CleanInv
<1>4. CASE faults' = 0
  <2>1. faults = 0 /\ faults' = faults /\ up' = up /\ faults \in Nat
    BY <1>1, <1>4 DEF TypeOK, TermsStep, TermsRecv, TermsCheck, TermsGetSeq, TermsSetSeq, TermsSet,
       TermsSetReplyLost, TermsZadd, TermsHset, TermsTouch, link
  <2>2. \A o \in revoked \ raced : WritesInFlight(o)' => WritesInFlight(o)
    <3> SUFFICES ASSUME NEW o \in revoked \ raced, WritesInFlight(o)' PROVE WritesInFlight(o)
      OBVIOUS
    <3>1. CASE \E g \in AvailH : ah[g].pc \notin {"idle", "check"} /\ ah[g].offer = o
      BY <3>1 DEF WritesInFlight
    <3>2. CASE \E g \in TermsH : th'[g].pc \notin {"idle", "check"} /\ th'[g].offer = o
      <4>1. PICK g \in TermsH : th'[g].pc \notin {"idle", "check"} /\ th'[g].offer = o
        BY <3>2
      <4>2. CASE th'[g] = th[g]
        BY <4>1, <4>2 DEF WritesInFlight
      <4>3. CASE th'[g] # th[g]
        <5>1. g = h
          BY <1>1, <4>3 DEF TypeOK, TermsStep, TermsRecv, TermsCheck, TermsGetSeq, TermsSetSeq, TermsSet,
             TermsSetReplyLost, TermsZadd, TermsHset, TermsTouch, TermsGoto, TermsEnd
        <5>2. CASE TermsCheck(h)
          <6>1. th[h] \in TermsCall
            BY <1>1, <5>2, CallTypes DEF TermsCheck
          <6>2. CASE TermsAccepted(th[h].offer, th[h].m, th[h].at) /\ TermsGoto(h, "getSeq")
            BY <1>1, <4>1, <5>1, <6>1, <6>2 DEF TermsGoto, TermsAccepted, TypeOK, TermsCall
          <6>3. CASE TermsEnd(h)
            BY <1>1, <4>1, <5>1, <6>3 DEF TermsEnd, TypeOK, Idle
          <6> QED BY <5>2, <6>2, <6>3 DEF TermsCheck
        <5>3. CASE \E p \in Offer, m \in TermsMsg : TermsRecv(h, p, m)
          BY <1>1, <4>1, <5>1, <5>3 DEF TermsRecv, TypeOK
        <5>4. CASE TermsStep(h) /\ ~ TermsCheck(h)
          <6>1. th[h] \in TermsCall /\ th[h].pc \notin {"idle", "check"}
            BY <1>1, <5>4, CallTypes DEF TermsStep, TermsGetSeq, TermsSetSeq, TermsSet,
               TermsSetReplyLost, TermsZadd, TermsHset, TermsTouch
          <6>2. th'[h] = Idle \/ th'[h].offer = th[h].offer
            BY <1>1, <5>4, <6>1 DEF TermsStep, TermsGetSeq, TermsSetSeq, TermsSet,
               TermsSetReplyLost, TermsZadd, TermsHset, TermsTouch, TermsGoto, TermsEnd, TypeOK, TermsCall
          <6> QED BY <4>1, <5>1, <6>1, <6>2 DEF WritesInFlight, Idle
        <5> QED BY <5>2, <5>3, <5>4
      <4> QED BY <4>2, <4>3
    <3> QED BY <1>2, <3>1, <3>2 DEF WritesInFlight
  <2>3. \A o \in revoked \ raced : th[h].pc \in {"idle", "check"} \/ th[h].offer # o
    BY <2>1 DEF CleanInv, WritesInFlight
  <2>4. \A o \in revoked \ raced : /\ terms'[o] = terms[o] /\ seq'[o] = seq[o]
                                   /\ score'[o] = score[o] /\ price'[o] = price[o]
    <3> SUFFICES ASSUME NEW o \in revoked \ raced
                 PROVE  /\ terms'[o] = terms[o] /\ seq'[o] = seq[o]
                        /\ score'[o] = score[o] /\ price'[o] = price[o]
      OBVIOUS
    <3>1. o \in Offer
      BY <1>1 DEF TypeOK
    <3> QED BY <1>1, <2>3, <3>1
       DEF TermsStep, TermsRecv, TermsCheck, TermsGetSeq, TermsSetSeq, TermsSet,
           TermsSetReplyLost, TermsZadd, TermsHset, TermsTouch, Put, TypeOK, redisVars, liveKeys
  <2> QED BY <1>1, <1>2, <2>1, <2>2, <2>4, QuietClean
<1> QED BY <1>3, <1>4

LEMMA AvailClean ==
  ASSUME TypeInv, RevokeInv, CleanInv, NEW h \in AvailH,
         AvailStep(h) \/ \E o \in Offer, m \in AvailMsg : AvailRecv(h, o, m)
  PROVE  CleanInv'
<1>1. TypeOK /\ acked \subseteq revoked
  BY DEF TypeInv, RevokeInv
<1>2. UNCHANGED <<revoked, raced, acked, rh, th, terms, seq, score, price, faults, up>>
  BY AvailFrame DEF db, link, liveKeys
<1>3. CASE faults # 0
  BY <1>2, <1>3 DEF CleanInv
<1>4. CASE faults = 0
  <2>2. \A o \in revoked \ raced : WritesInFlight(o)' => WritesInFlight(o)
    <3> SUFFICES ASSUME NEW o \in revoked \ raced, WritesInFlight(o)' PROVE WritesInFlight(o)
      OBVIOUS
    <3>1. CASE \E g \in TermsH : th[g].pc \notin {"idle", "check"} /\ th[g].offer = o
      BY <3>1 DEF WritesInFlight
    <3>2. CASE \E g \in AvailH : ah'[g].pc \notin {"idle", "check"} /\ ah'[g].offer = o
      <4>1. PICK g \in AvailH : ah'[g].pc \notin {"idle", "check"} /\ ah'[g].offer = o
        BY <3>2
      <4>2. CASE ah'[g] = ah[g]
        BY <4>1, <4>2 DEF WritesInFlight
      <4>3. CASE ah'[g] # ah[g]
        <5>1. g = h
          BY <1>1, <4>3 DEF TypeOK, AvailStep, AvailRecv, AvailCheck, AvailGetSeq, AvailSetSeq, AvailApply,
             AvailGoto, AvailEnd
        <5>2. CASE AvailCheck(h)
          <6>1. ah[h] \in AvailCall
            BY <1>1, <5>2, CallTypes DEF AvailCheck
          <6>2. CASE AvailAccepted(ah[h].offer, ah[h].m, ah[h].at) /\ AvailGoto(h, "getSeq")
            BY <1>1, <4>1, <5>1, <6>1, <6>2 DEF AvailGoto, AvailAccepted, TypeOK, AvailCall
          <6>3. CASE AvailEnd(h)
            BY <1>1, <4>1, <5>1, <6>3 DEF AvailEnd, TypeOK, Idle
          <6> QED BY <5>2, <6>2, <6>3 DEF AvailCheck
        <5>3. CASE \E p \in Offer, m \in AvailMsg : AvailRecv(h, p, m)
          BY <1>1, <4>1, <5>1, <5>3 DEF AvailRecv, TypeOK
        <5>4. CASE AvailStep(h) /\ ~ AvailCheck(h)
          <6>1. ah[h] \in AvailCall /\ ah[h].pc \notin {"idle", "check"}
            BY <1>1, <5>4, CallTypes DEF AvailStep, AvailGetSeq, AvailSetSeq, AvailApply
          <6>2. ah'[h] = Idle \/ ah'[h].offer = ah[h].offer
            BY <1>1, <5>4, <6>1 DEF AvailStep, AvailGetSeq, AvailSetSeq, AvailApply,
               AvailGoto, AvailEnd, TypeOK, AvailCall
          <6> QED BY <4>1, <5>1, <6>1, <6>2 DEF WritesInFlight, Idle
        <5> QED BY <5>2, <5>3, <5>4
      <4> QED BY <4>2, <4>3
    <3> QED BY <1>2, <3>1, <3>2 DEF WritesInFlight
  <2>3. \A o \in revoked \ raced : ah[h].pc \in {"idle", "check"} \/ ah[h].offer # o
    BY <1>4 DEF CleanInv, WritesInFlight
  <2>4. \A o \in revoked \ raced : busy'[o] = busy[o] /\ availSeq'[o] = availSeq[o]
    <3> SUFFICES ASSUME NEW o \in revoked \ raced PROVE busy'[o] = busy[o] /\ availSeq'[o] = availSeq[o]
      OBVIOUS
    <3>1. o \in Offer
      BY <1>1 DEF TypeOK
    <3> QED BY <1>1, <2>3, <3>1
       DEF AvailStep, AvailRecv, AvailCheck, AvailGetSeq, AvailSetSeq, AvailApply, BusyAfter, Put, TypeOK,
           redisVars, busyKeys
  <2> QED BY <1>1, <1>2, <2>2, <2>4, QuietClean
<1> QED BY <1>3, <1>4

LEMMA RevokeStepClean ==
  ASSUME TypeInv, RevokeInv, CleanInv, NEW h \in RevokeH,
         RevokeStep(h) \/ \E o \in Offer, m \in RevokeMsg : RevokeRecv(h, o, m)
  PROVE  CleanInv'
<1> DEFINE c == rh[h]
<1>1. TypeOK /\ acked \subseteq revoked
  BY DEF TypeInv, RevokeInv
<1>2. UNCHANGED <<faults, up, th, ah>>
  BY RevokeFrame DEF link
<1>3. CASE faults # 0
  BY <1>2, <1>3 DEF CleanInv
<1>4. CASE faults = 0
  <2>1. up = TRUE /\ RevokeCleans /\ \A o \in revoked \ raced : ~ WritesInFlight(o)
    BY <1>4 DEF CleanInv
  <2>2. /\ \A o : WritesInFlight(o)' <=> WritesInFlight(o)
        /\ \A g \in RevokeH \ {h} : rh'[g] = rh[g]
    BY <1>1, <1>2 DEF WritesInFlight, TypeOK, RevokeStep, RevokeRecv, RevokeLog, RevokeUpdate, RevokeDel,
       RevokeZrem, RevokeHdel, RevokeGoto
  <2>3. ASSUME UNCHANGED redisVars, raced \subseteq raced', acked' = acked,
               \A o \in revoked' \ raced' : ~ WritesInFlight(o),
               rh'[h].pc \in {"idle", "log", "update", "del"}
        PROVE  CleanInv'
    BY <1>1, <1>2, <1>4, <2>1, <2>2, <2>3 DEF CleanInv, RevokeCleans, redisVars, liveKeys, busyKeys
  <2>4. CASE \E o \in Offer, m \in RevokeMsg : RevokeRecv(h, o, m)
    BY <1>1, <2>1, <2>3, <2>4 DEF RevokeRecv, db, TypeOK
  <2>5. CASE RevokeStep(h)
    <3>1. c \in RevokeCall /\ c.offer \in Offer
      BY <1>1, <2>5, CallTypes
         DEF RevokeStep, RevokeLog, RevokeUpdate, RevokeDel, RevokeZrem, RevokeHdel, RevokeCall
    <3>2. ASSUME NEW pc \in {"update", "del", "zrem", "hdel"}, RevokeGoto(h, pc)
          PROVE  rh'[h].pc = pc /\ rh'[h].offer = c.offer
      BY <1>1, <3>1, <3>2 DEF TypeOK, RevokeGoto, RevokeCall
    <3>3. CASE RevokeLog(h)
      BY <2>1, <2>3, <3>2, <3>3 DEF RevokeLog
    <3>4. CASE RevokeUpdate(h)
      <4>1. \A o \in revoked' \ raced' : ~ WritesInFlight(o)
        BY <2>1, <3>4 DEF RevokeUpdate
      <4> QED BY <2>3, <3>2, <3>4, <4>1 DEF RevokeUpdate
    <3>5. c.pc \in {"del", "zrem", "hdel"} => c.offer \in revoked
      BY <3>1 DEF RevokeInv
    <3>6. CASE RevokeDel(h)
      <4>1. /\ UNCHANGED <<revoked, raced, acked, score, price>>
            /\ rh'[h].pc = "zrem" /\ rh'[h].offer = c.offer
        BY <3>2, <3>6 DEF RevokeDel, db
      <4>2. /\ terms'[c.offer] = None /\ seq'[c.offer] = None /\ busy'[c.offer] = None /\ availSeq'[c.offer] = None
            /\ \A o \in Offer : o # c.offer => /\ terms'[o] = terms[o] /\ seq'[o] = seq[o]
                                               /\ busy'[o] = busy[o] /\ availSeq'[o] = availSeq[o]
        BY <1>1, <2>1, <3>1, <3>6 DEF RevokeDel, Put, TypeOK
      <4>3. \A g \in RevokeH : rh[g].pc \in {"zrem", "hdel"} => rh[g].offer \in Offer
        BY <1>1, CallTypes DEF RevokeCall
      <4>4. RevokeCleans'
        BY <1>1, <1>2, <1>4, <2>1, <4>1, <4>2 DEF RevokeCleans, TypeOK
      <4> QED BY <1>2, <1>4, <2>1, <2>2, <4>1, <4>2, <4>3, <4>4 DEF CleanInv
    <3>7. CASE RevokeZrem(h)
      <4>1. /\ UNCHANGED <<revoked, raced, acked, price, terms, seq, busy, availSeq>> /\ c.pc = "zrem"
            /\ rh'[h].pc = "hdel" /\ rh'[h].offer = c.offer
        BY <3>2, <3>7 DEF RevokeZrem, db, busyKeys
      <4>2. score'[c.offer] = None /\ \A o \in Offer : o # c.offer => score'[o] = score[o]
        BY <1>1, <2>1, <3>1, <3>7 DEF RevokeZrem, Put, TypeOK
      <4>3. \A g \in RevokeH : rh[g].pc \in {"zrem", "hdel"} => rh[g].offer \in Offer
        BY <1>1, CallTypes DEF RevokeCall
      <4>4. RevokeCleans'
        BY <1>1, <1>2, <1>4, <2>1, <4>1, <4>2 DEF RevokeCleans, TypeOK
      <4> QED BY <1>2, <1>4, <2>1, <2>2, <4>1, <4>2, <4>3, <4>4 DEF CleanInv
    <3>8. CASE RevokeHdel(h)
      <4>1. /\ UNCHANGED <<revoked, raced, score, terms, seq, busy, availSeq>> /\ c.pc = "hdel"
            /\ rh'[h] = Idle /\ acked' = acked \cup {c.offer}
        BY <1>1, <3>8 DEF RevokeHdel, db, busyKeys, TypeOK
      <4>2. price'[c.offer] = None /\ \A o \in Offer : o # c.offer => price'[o] = price[o]
        BY <1>1, <2>1, <3>1, <3>8 DEF RevokeHdel, Put, TypeOK
      <4>3. c.offer \notin raced => /\ terms[c.offer] = None /\ seq[c.offer] = None /\ busy[c.offer] = None
                                    /\ availSeq[c.offer] = None /\ score[c.offer] = None
        BY <1>4, <4>1 DEF CleanInv
      <4>4. RevokeCleans'
        BY <1>1, <1>2, <1>4, <2>1, <4>1, <4>2, <4>3 DEF RevokeCleans, TypeOK
      <4> QED BY <1>2, <1>4, <2>1, <2>2, <4>1, <4>4 DEF CleanInv, Idle
    <3> QED BY <2>5, <3>3, <3>4, <3>6, <3>7, <3>8 DEF RevokeStep
  <2> QED BY <2>4, <2>5
<1> QED BY <1>3, <1>4

LEMMA NextClean == TypeInv /\ RevokeInv /\ CleanInv /\ [Next]_vars => CleanInv'
<1> SUFFICES ASSUME TypeInv, RevokeInv, CleanInv, [Next]_vars PROVE CleanInv'
  OBVIOUS
<1>1. TypeOK /\ acked \subseteq revoked /\ revoked \subseteq Offer
  BY DEF TypeInv, TypeOK, RevokeInv
<1>2. ASSUME UNCHANGED <<revoked, raced, acked, rh, th, ah, faults, up, redisVars>> PROVE CleanInv'
  BY <1>1, <1>2, QuietClean DEF WritesInFlight, redisVars, liveKeys, busyKeys
<1>3. CASE UNCHANGED vars
  BY <1>2, <1>3 DEF vars, db, link, calls
<1>4. CASE \E h \in ReadH : \/ ReadStep(h)
                            \/ \E f \in {"strict", "normal", "any"}, free \in BOOLEAN : QuerySql(h, f, free)
                            \/ \E o \in Offer : GetSql(h, o)
  BY <1>2, <1>4, ReadFrame DEF db, link
<1>5. ASSUME NEW h \in LiveH, LiveStep(h) \/ LiveMiss(h) PROVE CleanInv'
  <2>1. \A o \in Offer : score'[o] = score[o] \/ score'[o] = None
    BY <1>5 DEF LiveStep, LiveMiss, LivePrune, LiveRange, LivePrices, LiveCache, redisVars, liveKeys
  <2>2. UNCHANGED <<revoked, raced, acked, rh, th, ah, faults, up, terms, seq, price, busy, availSeq>>
    BY <1>5, LiveFrame DEF db, link, busyKeys
  <2> QED BY <1>1, <2>1, <2>2, QuietClean DEF WritesInFlight
<1>6. CASE Tick
  <2>1. UNCHANGED <<revoked, raced, acked, rh, th, ah, faults, up, seq, score, price, availSeq>>
    BY <1>6 DEF Tick, db, link, calls
  <2>2. \A o \in Offer : (terms'[o] = terms[o] \/ terms'[o] = None) /\ (busy'[o] = busy[o] \/ busy'[o] = None)
    BY <1>6 DEF Tick
  <2> QED BY <1>1, <2>1, <2>2, QuietClean DEF WritesInFlight
<1>7. CASE RedisUp \/ Crash \/ \E lose \in BOOLEAN : RedisDown(lose)
  <2>1. CASE RedisUp
    <3>1. UNCHANGED <<revoked, raced, acked, rh, th, ah, faults, redisVars>> /\ up = FALSE /\ up' = TRUE
      BY <1>1, <2>1 DEF RedisUp, db, calls, TypeOK
    <3> QED BY <3>1 DEF CleanInv
  <2>2. CASE Crash \/ \E lose \in BOOLEAN : RedisDown(lose)
    <3>1. faults' = faults + 1 /\ faults \in Nat
      BY <1>1, <2>2, LimitAssumption DEF Crash, RedisDown, TypeOK
    <3>2. faults' # 0
      BY <3>1
    <3> QED BY <3>2 DEF CleanInv
  <2> QED BY <1>7, <2>1, <2>2
<1> QED BY <1>3, <1>4, <1>5, <1>6, <1>7, TermsClean, AvailClean, RevokeStepClean DEF Next

LEMMA CleanInvariant == Spec => []CleanInv
<1>1. Init => CleanInv
  BY DEF Init, CleanInv, RevokeCleans, Idle
<1>2. TypeInv /\ (RevokeInv /\ ReadInv) /\ CleanInv /\ [Next]_vars => CleanInv'
  BY NextClean
<1> QED BY <1>1, <1>2, TypeInvariant, RevokeInvariant, PTL DEF Spec

\* With Redis reachable throughout, dropOffer leaves no key of an offer behind by the
\* time the revocation is answered, and no later heartbeat or hint brings one back,
\* unless one was past its look at revoked_at when the row changed (postRevoke).
THEOREM RevocationCleans == Spec => []RevokeCleans
<1>1. CleanInv => RevokeCleans
  BY DEF CleanInv, RevokeCleans
<1> QED BY <1>1, CleanInvariant, PTL

-----------------------------------------------------------------------------
(* One request at a time.  The agent waits for the answer to a heartbeat   *)
(* before it sends the next one, so no two terms calls, and no two hints,  *)
(* for one offer are in flight together; calls for different offers still  *)
(* interleave freely, with each other and with revocations and reads.      *)

OneCallEach ==
  /\ \A g, h \in TermsH : th[g] # Idle /\ th[h] # Idle /\ th[g].offer = th[h].offer => g = h
  /\ \A g, h \in AvailH : ah[g] # Idle /\ ah[h] # Idle /\ ah[g].offer = ah[h].offer => g = h

\* What the seq check found is still true when the seq is stored.
SeqAhead ==
  /\ \A h \in TermsH : th[h].pc = "setSeq" =>
       seq[th[h].offer] = None \/ seq[th[h].offer] < th[h].m.seq
  /\ \A h \in AvailH : ah[h].pc = "setSeq" =>
       availSeq[ah[h].offer] = None \/ availSeq[ah[h].offer] < ah[h].m.seq

\* A step of a call moves one call and leaves the rest of its kind.
LEMMA OtherCalls ==
  ASSUME TypeOK
  PROVE  /\ \A h \in TermsH : TermsStep(h) \/ (\E o \in Offer, m \in TermsMsg : TermsRecv(h, o, m)) =>
              \A g \in TermsH \ {h} : th'[g] = th[g]
         /\ \A h \in AvailH : AvailStep(h) \/ (\E o \in Offer, m \in AvailMsg : AvailRecv(h, o, m)) =>
              \A g \in AvailH \ {h} : ah'[g] = ah[g]
<1>1. th \in [TermsH -> TermsCall \cup {Idle}] /\ ah \in [AvailH -> AvailCall \cup {Idle}]
  BY DEF TypeOK
<1>2. ASSUME NEW h \in TermsH, TermsStep(h) \/ \E o \in Offer, m \in TermsMsg : TermsRecv(h, o, m)
      PROVE  \A g \in TermsH \ {h} : th'[g] = th[g]
  BY <1>1, <1>2 DEF TermsStep, TermsRecv, TermsCheck, TermsGetSeq, TermsSetSeq, TermsSet, TermsSetReplyLost,
     TermsZadd, TermsHset, TermsTouch, TermsGoto, TermsEnd
<1>3. ASSUME NEW h \in AvailH, AvailStep(h) \/ \E o \in Offer, m \in AvailMsg : AvailRecv(h, o, m)
      PROVE  \A g \in AvailH \ {h} : ah'[g] = ah[g]
  BY <1>1, <1>3 DEF AvailStep, AvailRecv, AvailCheck, AvailGetSeq, AvailSetSeq, AvailApply, AvailGoto, AvailEnd
<1> QED BY <1>2, <1>3

\* Where a step of a terms call leaves it, and what the step stores.
LEMMA TermsMoves ==
  ASSUME TypeInv, up = TRUE, faults' = faults, NEW h \in TermsH, TermsStep(h)
  PROVE  /\ th[h] \in TermsCall /\ th[h].offer \in Offer /\ th[h].m \in TermsMsg
         /\ th'[h] = Idle \/ /\ th'[h].offer = th[h].offer /\ th'[h].m = th[h].m /\ th'[h].at = th[h].at
                             /\ th'[h].pc # "check"
         /\ \/ /\ th[h].pc \in {"check", "getSeq", "touch"} /\ UNCHANGED <<seq, terms, score, price>>
               /\ th'[h] = Idle \/ th'[h].pc = IF th[h].pc = "check" THEN "getSeq" ELSE "setSeq"
               /\ th'[h].pc = "setSeq" => ~ SeqRegression(seq[th[h].offer], th[h].m.seq)
            \/ /\ th[h].pc = "setSeq" /\ th'[h].pc = "set" /\ UNCHANGED <<terms, score, price>>
               /\ seq' = [seq EXCEPT ![th[h].offer] = th[h].m.seq]
            \/ /\ th[h].pc = "set" /\ th'[h].pc = "zadd" /\ UNCHANGED <<seq, score, price>>
               /\ terms' = [terms EXCEPT ![th[h].offer] = EntryOf(th[h])]
            \/ /\ th[h].pc = "zadd" /\ th'[h].pc = "hset" /\ UNCHANGED <<seq, terms, price>>
               /\ score' = [score EXCEPT ![th[h].offer] = ScoreOf(th[h])]
            \/ /\ th[h].pc = "hset" /\ th'[h].pc = "touch" /\ UNCHANGED <<seq, terms, score>>
               /\ price' = [price EXCEPT ![th[h].offer] = th[h].m.price]
<1> DEFINE c == th[h]
<1>1. TypeOK
  BY DEF TypeInv
<1>2. c \in TermsCall /\ c.offer \in Offer /\ c.m \in TermsMsg
  BY <1>1, CallTypes DEF TermsStep, TermsCheck, TermsGetSeq, TermsSetSeq, TermsSet,
     TermsSetReplyLost, TermsZadd, TermsHset, TermsTouch, TermsCall
<1>3. ASSUME NEW pc \in {"getSeq", "setSeq", "set", "zadd", "hset", "touch"}, TermsGoto(h, pc)
      PROVE  th'[h].pc = pc /\ th'[h].offer = c.offer /\ th'[h].m = c.m /\ th'[h].at = c.at
  BY <1>1, <1>2, <1>3 DEF TypeOK, TermsGoto, TermsCall
<1>4. ASSUME TermsEnd(h) PROVE th'[h] = Idle /\ th'[h].pc # "setSeq"
  BY <1>1, <1>4 DEF TypeOK, TermsEnd, Idle
<1>5. CASE TermsCheck(h)
  BY <1>2, <1>3, <1>4, <1>5 DEF TermsCheck, redisVars, liveKeys
<1>6. CASE TermsGetSeq(h)
  BY <1>2, <1>3, <1>4, <1>6 DEF TermsGetSeq, Fetch, redisVars, liveKeys
<1>7. CASE TermsSetSeq(h)
  BY <1>2, <1>3, <1>7 DEF TermsSetSeq, Put, liveKeys
<1>8. CASE TermsSet(h)
  BY <1>2, <1>3, <1>8 DEF TermsSet, Put
<1>9. CASE TermsSetReplyLost(h)
  <2>1. faults' = faults + 1 /\ faults \in Int
    BY <1>1, <1>9 DEF TermsSetReplyLost, TypeOK
  <2> QED BY <2>1
<1>10. CASE TermsZadd(h)
  BY <1>2, <1>3, <1>10 DEF TermsZadd, Put
<1>11. CASE TermsHset(h)
  BY <1>2, <1>3, <1>11 DEF TermsHset, Put
<1>12. CASE TermsTouch(h)
  BY <1>2, <1>4, <1>12 DEF TermsTouch, liveKeys
<1> QED BY <1>5, <1>6, <1>7, <1>8, <1>9, <1>10, <1>11, <1>12 DEF TermsStep

\* The same for a hint.
LEMMA AvailMoves ==
  ASSUME TypeInv, up = TRUE, NEW h \in AvailH, AvailStep(h)
  PROVE  /\ ah[h] \in AvailCall /\ ah[h].offer \in Offer /\ ah[h].m \in AvailMsg
         /\ ah'[h] = Idle \/ (ah'[h].offer = ah[h].offer /\ ah'[h].m = ah[h].m)
         /\ \/ /\ ah[h].pc \in {"check", "getSeq"} /\ UNCHANGED <<availSeq, busy>>
               /\ ah'[h] = Idle \/ ah'[h].pc = IF ah[h].pc = "check" THEN "getSeq" ELSE "setSeq"
               /\ ah'[h].pc = "setSeq" => ~ SeqRegression(availSeq[ah[h].offer], ah[h].m.seq)
            \/ /\ ah[h].pc = "setSeq" /\ ah'[h].pc = "apply" /\ UNCHANGED busy
               /\ availSeq' = [availSeq EXCEPT ![ah[h].offer] = ah[h].m.seq]
            \/ /\ ah[h].pc = "apply" /\ ah'[h] = Idle /\ UNCHANGED availSeq
               /\ busy' = BusyAfter(ah[h])
<1> DEFINE c == ah[h]
<1>1. TypeOK
  BY DEF TypeInv
<1>2. c \in AvailCall /\ c.offer \in Offer /\ c.m \in AvailMsg
  BY <1>1, CallTypes DEF AvailStep, AvailCheck, AvailGetSeq, AvailSetSeq, AvailApply, AvailCall
<1>3. ASSUME NEW pc \in {"getSeq", "setSeq", "apply"}, AvailGoto(h, pc)
      PROVE  ah'[h].pc = pc /\ ah'[h].offer = c.offer /\ ah'[h].m = c.m
  BY <1>1, <1>2, <1>3 DEF TypeOK, AvailGoto, AvailCall
<1>4. ASSUME AvailEnd(h) PROVE ah'[h] = Idle /\ ah'[h].pc # "setSeq"
  BY <1>1, <1>4 DEF TypeOK, AvailEnd, Idle
<1>5. CASE AvailCheck(h)
  BY <1>2, <1>3, <1>4, <1>5 DEF AvailCheck, redisVars, busyKeys
<1>6. CASE AvailGetSeq(h)
  BY <1>2, <1>3, <1>4, <1>6 DEF AvailGetSeq, Fetch, redisVars, busyKeys
<1>7. CASE AvailSetSeq(h)
  BY <1>2, <1>3, <1>7 DEF AvailSetSeq, Put
<1>8. CASE AvailApply(h)
  BY <1>2, <1>4, <1>8 DEF AvailApply
<1> QED BY <1>5, <1>6, <1>7, <1>8 DEF AvailStep

-----------------------------------------------------------------------------
(* TermsSettled and NewestAvailWins hold between requests; the invariant   *)
(* says how far a request in flight has got.  An entry outlives its score, *)
(* since its PX counts from the SET and the score from receipt: that is    *)
(* why an expiry never leaves a member of the live set without terms.      *)

\* Call c on offer o: what its last command stored still stands.
Stage(o, c) ==
  /\ c.pc = "set" => seq[o] = c.m.seq
  /\ c.pc \in {"zadd", "hset"} /\ ScoreOf(c) > now =>
       terms[o] # None /\ terms[o].m = c.m /\ ScoreOf(c) <= terms[o].exp
  /\ c.pc = "hset" => score[o] \in {None, ScoreOf(c)}

SeqSettled(o) == terms[o] # None => terms[o].m.seq = seq[o]

PriceSettled(o) ==
  score[o] # None /\ score[o] > now =>
    terms[o] # None /\ terms[o].m.price = price[o] /\ score[o] <= terms[o].exp

SettleInv ==
  \A o \in Offer \ revoked :
    /\ \A h \in TermsH : th[h] # Idle /\ th[h].offer = o => Stage(o, th[h])
    /\ (\A h \in TermsH : th[h] # Idle /\ th[h].offer = o => th[h].pc # "set") => SeqSettled(o)
    /\ (\A h \in TermsH : th[h] # Idle /\ th[h].offer = o => th[h].pc \notin {"zadd", "hset"}) =>
         PriceSettled(o)

\* Between the store of a hint's seq and its effect the flag may still be the word
\* of the hint before.
HintSettled(o) == busy[o] # None => \E m \in AvailMsg : m.offer = o /\ m.seq = availSeq[o] /\ ~m.available

HintInv ==
  \A o \in Offer \ revoked :
    /\ \A h \in AvailH : ah[h].pc = "apply" /\ ah[h].offer = o => availSeq[o] = ah[h].m.seq
    /\ (\A h \in AvailH : ah[h] # Idle /\ ah[h].offer = o => ah[h].pc # "apply") => HintSettled(o)

\* Without a fault Redis answers, and nothing fails.
LEMMA NoFaultStep ==
  ASSUME TypeInv, CleanInv, faults = 0, faults' = 0, [Next]_vars
  PROVE  /\ up = TRUE
         /\ ~ Crash /\ ~ RedisUp /\ ~ \E lose \in BOOLEAN : RedisDown(lose)
<1>1. up = TRUE
  BY DEF CleanInv
<1> QED BY <1>1 DEF Crash, RedisUp, RedisDown

\* What a revocation's commands do to the keys: they clear those of revoked offers.
LEMMA RevokeOnlyClears ==
  ASSUME TypeInv, RevokeInv, NEW h \in RevokeH,
         RevokeStep(h) \/ \E o \in Offer, m \in RevokeMsg : RevokeRecv(h, o, m)
  PROVE  /\ revoked \subseteq revoked'
         /\ \A o \in Offer \ revoked : /\ terms'[o] = terms[o] /\ seq'[o] = seq[o] /\ score'[o] = score[o]
                                       /\ price'[o] = price[o] /\ busy'[o] = busy[o] /\ availSeq'[o] = availSeq[o]
         /\ \A o \in Offer : /\ seq'[o] = seq[o] \/ seq'[o] = None
                             /\ availSeq'[o] = availSeq[o] \/ availSeq'[o] = None
<1>1. TypeOK
  BY DEF TypeInv
<1>2. CASE \E o \in Offer, m \in RevokeMsg : RevokeRecv(h, o, m)
  BY <1>2 DEF RevokeRecv, db, redisVars, liveKeys, busyKeys
<1>3. CASE RevokeLog(h) \/ RevokeUpdate(h)
  BY <1>3 DEF RevokeLog, RevokeUpdate, redisVars, liveKeys, busyKeys
<1>4. CASE RevokeDel(h) \/ RevokeZrem(h) \/ RevokeHdel(h)
  <2>1. rh[h].offer \in Offer /\ rh[h].offer \in revoked
    BY <1>1, <1>4, CallTypes DEF RevokeDel, RevokeZrem, RevokeHdel, RevokeCall, RevokeInv
  <2>2. CASE RevokeDel(h)
    BY <1>1, <2>1, <2>2 DEF RevokeDel, Put, TypeOK, db
  <2>3. CASE RevokeZrem(h)
    BY <1>1, <2>1, <2>3 DEF RevokeZrem, Put, TypeOK, db, busyKeys
  <2>4. CASE RevokeHdel(h)
    BY <1>1, <2>1, <2>4 DEF RevokeHdel, Put, TypeOK, db, busyKeys
  <2> QED BY <1>4, <2>2, <2>3, <2>4
<1> QED BY <1>2, <1>3, <1>4 DEF RevokeStep

LEMMA NextSeqAhead ==
  ASSUME TypeInv, CleanInv, RevokeInv, OneCallEach, SeqAhead, faults = 0, faults' = 0, [Next]_vars
  PROVE  /\ SeqAhead'
         /\ \A o \in Offer : /\ seq[o] # None /\ seq'[o] # None => seq[o] <= seq'[o]
                             /\ availSeq[o] # None /\ availSeq'[o] # None => availSeq[o] <= availSeq'[o]
<1> DEFINE Grows(f, g) == \A o \in Offer : f[o] # None /\ g[o] # None => f[o] <= g[o]
<1>1. TypeOK /\ up = TRUE
  BY NoFaultStep DEF TypeInv
<1>2. /\ seq \in [Offer -> Nat \cup {None}] /\ availSeq \in [Offer -> Nat \cup {None}]
      /\ \A h \in TermsH : th[h].pc = "setSeq" => th[h] # Idle /\ th[h].offer \in Offer
      /\ \A h \in AvailH : ah[h].pc = "setSeq" => ah[h] # Idle /\ ah[h].offer \in Offer
  BY <1>1, CallTypes DEF TypeOK, TermsCall, AvailCall, Idle
<1>3. ASSUME UNCHANGED <<th, ah>>,
             \A o \in Offer : /\ seq'[o] = seq[o] \/ seq'[o] = None
                              /\ availSeq'[o] = availSeq[o] \/ availSeq'[o] = None
      PROVE  SeqAhead' /\ Grows(seq, seq') /\ Grows(availSeq, availSeq')
  <2>1. SeqAhead'
    BY <1>2, <1>3 DEF SeqAhead
  <2>2. Grows(seq, seq') /\ Grows(availSeq, availSeq')
    BY <1>2, <1>3
  <2> QED BY <2>1, <2>2
<1>4. ASSUME NEW h \in TermsH, TermsStep(h) \/ \E o \in Offer, m \in TermsMsg : TermsRecv(h, o, m)
      PROVE  SeqAhead' /\ Grows(seq, seq') /\ Grows(availSeq, availSeq')
  <2>1. UNCHANGED <<ah, availSeq>> /\ \A g \in TermsH \ {h} : th'[g] = th[g]
    BY <1>1, <1>4, TermsFrame, OtherCalls DEF busyKeys
  <2>2. Grows(availSeq, availSeq')
    BY <1>2, <2>1
  <2>3. CASE \E o \in Offer, m \in TermsMsg : TermsRecv(h, o, m)
    <3>1. UNCHANGED seq /\ th'[h].pc = "check"
      BY <1>1, <2>3 DEF TermsRecv, redisVars, TypeOK
    <3> QED BY <1>2, <2>1, <2>2, <3>1 DEF SeqAhead
  <2>4. CASE TermsStep(h)
    <3> DEFINE c == th[h]
    <3>1. c.offer \in Offer /\ c.m.seq \in Nat /\ c # Idle
      BY <1>1, <2>4, TermsMoves, MsgAssumption DEF TermsCall, TermsPayload, Idle
    <3>2. CASE UNCHANGED seq
      <4>1. th'[h].pc = "setSeq" =>
              th'[h].offer = c.offer /\ th'[h].m = c.m /\ ~ SeqRegression(seq[c.offer], c.m.seq)
        BY <1>1, <2>4, TermsMoves DEF Idle
      <4>2. ~ SeqRegression(seq[c.offer], c.m.seq) => seq[c.offer] = None \/ seq[c.offer] < c.m.seq
        BY <1>2, <3>1 DEF SeqRegression
      <4>3. SeqAhead'
        BY <2>1, <3>2, <4>1, <4>2 DEF SeqAhead
      <4> QED BY <1>2, <2>2, <3>2, <4>3
    <3>3. CASE seq' = [seq EXCEPT ![c.offer] = c.m.seq] /\ c.pc = "setSeq" /\ th'[h].pc = "set"
      <4>1. seq[c.offer] = None \/ seq[c.offer] < c.m.seq
        BY <3>3 DEF SeqAhead
      <4>2. \A g \in TermsH \ {h} : th'[g].pc = "setSeq" => th[g].offer # c.offer
        BY <1>2, <2>1, <3>1 DEF OneCallEach
      <4>3. SeqAhead'
        BY <1>2, <2>1, <3>3, <4>2 DEF SeqAhead
      <4>4. Grows(seq, seq')
        BY <1>2, <3>1, <3>3, <4>1
      <4> QED BY <2>2, <4>3, <4>4
    <3> QED BY <1>1, <2>4, <3>2, <3>3, TermsMoves
  <2> QED BY <1>4, <2>3, <2>4
<1>5. ASSUME NEW h \in AvailH, AvailStep(h) \/ \E o \in Offer, m \in AvailMsg : AvailRecv(h, o, m)
      PROVE  SeqAhead' /\ Grows(seq, seq') /\ Grows(availSeq, availSeq')
  <2>1. UNCHANGED <<th, seq>> /\ \A g \in AvailH \ {h} : ah'[g] = ah[g]
    BY <1>1, <1>5, AvailFrame, OtherCalls
  <2>2. Grows(seq, seq')
    BY <1>2, <2>1
  <2>3. CASE \E o \in Offer, m \in AvailMsg : AvailRecv(h, o, m)
    <3>1. UNCHANGED availSeq /\ ah'[h].pc = "check"
      BY <1>1, <2>3 DEF AvailRecv, redisVars, busyKeys, TypeOK
    <3> QED BY <1>2, <2>1, <2>2, <3>1 DEF SeqAhead
  <2>4. CASE AvailStep(h)
    <3> DEFINE c == ah[h]
    <3>1. c.offer \in Offer /\ c.m.seq \in Nat /\ c # Idle
      BY <1>1, <2>4, AvailMoves, MsgAssumption DEF AvailCall, AvailPayload, Idle
    <3>2. CASE UNCHANGED availSeq
      <4>1. ah'[h].pc = "setSeq" =>
              ah'[h].offer = c.offer /\ ah'[h].m = c.m /\ ~ SeqRegression(availSeq[c.offer], c.m.seq)
        BY <1>1, <2>4, AvailMoves DEF Idle
      <4>2. ~ SeqRegression(availSeq[c.offer], c.m.seq) => availSeq[c.offer] = None \/ availSeq[c.offer] < c.m.seq
        BY <1>2, <3>1 DEF SeqRegression
      <4>3. SeqAhead'
        BY <2>1, <3>2, <4>1, <4>2 DEF SeqAhead
      <4> QED BY <1>2, <2>2, <3>2, <4>3
    <3>3. CASE availSeq' = [availSeq EXCEPT ![c.offer] = c.m.seq] /\ c.pc = "setSeq" /\ ah'[h].pc = "apply"
      <4>1. availSeq[c.offer] = None \/ availSeq[c.offer] < c.m.seq
        BY <3>3 DEF SeqAhead
      <4>2. \A g \in AvailH \ {h} : ah'[g].pc = "setSeq" => ah[g].offer # c.offer
        BY <1>2, <2>1, <3>1 DEF OneCallEach
      <4>3. SeqAhead'
        BY <1>2, <2>1, <3>3, <4>2 DEF SeqAhead
      <4>4. Grows(availSeq, availSeq')
        BY <1>2, <3>1, <3>3, <4>1
      <4> QED BY <2>2, <4>3, <4>4
    <3> QED BY <1>1, <2>4, <3>2, <3>3, AvailMoves
  <2> QED BY <1>5, <2>3, <2>4
<1>6. CASE \E h \in RevokeH : RevokeStep(h) \/ \E o \in Offer, m \in RevokeMsg : RevokeRecv(h, o, m)
  BY <1>3, <1>6, RevokeFrame, RevokeOnlyClears
<1>7. ASSUME UNCHANGED <<th, ah, seq, availSeq>> PROVE SeqAhead' /\ Grows(seq, seq') /\ Grows(availSeq, availSeq')
  BY <1>3, <1>7
<1>8. CASE UNCHANGED vars \/ Tick
  BY <1>7, <1>8 DEF vars, Tick, redisVars, busyKeys, calls
<1>9. CASE \E h \in ReadH : \/ ReadStep(h)
                            \/ \E f \in {"strict", "normal", "any"}, free \in BOOLEAN : QuerySql(h, f, free)
                            \/ \E o \in Offer : GetSql(h, o)
  BY <1>7, <1>9, ReadFrame DEF redisVars, busyKeys
<1>10. CASE \E h \in LiveH : LiveStep(h) \/ LiveMiss(h)
  BY <1>7, <1>10, LiveFrame DEF busyKeys
<1> QED BY <1>4, <1>5, <1>6, <1>8, <1>9, <1>10, NoFaultStep DEF Next

\* Replay protection: when no two heartbeats and no two hints of one offer are in
\* flight together and Redis does not fail, no stored seq ever goes back, although
\* postTerms and postAvailability check and store it with two separate commands.
THEOREM SeqsNeverRegress == Spec /\ [](OneCallEach /\ faults = 0) => SeqNeverRegresses
<1> DEFINE Grow == \A o \in Offer :
             /\ seq[o] # None /\ seq'[o] # None => seq[o] <= seq'[o]
             /\ availSeq[o] # None /\ availSeq'[o] # None => availSeq[o] <= availSeq'[o]
<1>1. Init => SeqAhead
  BY DEF Init, SeqAhead, Idle
<1>2. TypeInv /\ CleanInv /\ (RevokeInv /\ ReadInv) /\ (OneCallEach /\ faults = 0) /\ (OneCallEach /\ faults = 0)'
        /\ SeqAhead /\ [Next]_vars => SeqAhead' /\ [Grow]_vars
  BY NextSeqAhead
<1> QED BY <1>1, <1>2, TypeInvariant, CleanInvariant, RevokeInvariant, PTL DEF Spec, SeqNeverRegresses

-----------------------------------------------------------------------------
(* Between requests                                                        *)

\* A step that moves no terms call keeps SettleInv when, for every offer that still
\* stands, it changes no key but to drop a member from the live set.
LEMMA QuietSettle ==
  ASSUME SettleInv, UNCHANGED <<th, now>>, revoked \subseteq revoked',
         \A o \in Offer \ revoked' : /\ terms'[o] = terms[o] /\ seq'[o] = seq[o] /\ price'[o] = price[o]
                                     /\ score'[o] = score[o] \/ score'[o] = None
  PROVE  SettleInv'
<1> SUFFICES ASSUME NEW o \in Offer \ revoked'
             PROVE  /\ \A h \in TermsH : th[h] # Idle /\ th[h].offer = o => Stage(o, th[h])'
                    /\ (\A h \in TermsH : th[h] # Idle /\ th[h].offer = o => th[h].pc # "set") => SeqSettled(o)'
                    /\ (\A h \in TermsH : th[h] # Idle /\ th[h].offer = o => th[h].pc \notin {"zadd", "hset"}) =>
                         PriceSettled(o)'
  BY DEF SettleInv
<1>1. o \in Offer \ revoked
  OBVIOUS
<1>2. \A h \in TermsH : Stage(o, th[h]) => Stage(o, th[h])'
  BY DEF Stage, ScoreOf
<1>3. /\ SeqSettled(o) => SeqSettled(o)'
      /\ PriceSettled(o) => PriceSettled(o)'
  BY DEF SeqSettled, PriceSettled
<1> QED BY <1>1, <1>2, <1>3 DEF SettleInv

\* A key that expires was already past its score.
LEMMA TickSettle ==
  ASSUME TypeInv, SettleInv, Tick
  PROVE  SettleInv'
<1>1. TypeOK /\ TermsChecked /\ now \in Nat
  BY DEF TypeInv, TypeOK
<1>2. now' = now + 1 /\ UNCHANGED <<th, revoked, seq, score, price>>
  BY DEF Tick, db, calls
<1>3. \A o \in Offer : \/ terms'[o] = terms[o]
                       \/ terms[o] # None /\ terms[o].exp <= now + 1 /\ terms'[o] = None
  BY DEF Tick
<1>4. /\ \A h \in TermsH : th[h].pc \in {"zadd", "hset"} => ScoreOf(th[h]) \in Nat
      /\ \A o \in Offer : terms[o] # None => terms[o].exp \in Nat
      /\ \A o \in Offer : score[o] # None => score[o] \in Nat
  <2>1. ASSUME NEW h \in TermsH, th[h].pc \in {"zadd", "hset"} PROVE ScoreOf(th[h]) \in Nat
    <3>1. th[h] \in TermsCall /\ th[h].m.validUntil > th[h].at
      BY <1>1, <2>1, CallTypes DEF TermsChecked
    <3> QED BY <3>1, TermsTtlType DEF ScoreOf, TermsCall
  <2>2. \A o \in Offer : terms[o] # None => terms[o].exp \in Nat
    BY <1>1 DEF TypeOK, TermsEntry
  <2>3. \A o \in Offer : score[o] # None => score[o] \in Nat
    BY <1>1 DEF TypeOK
  <2> QED BY <2>1, <2>2, <2>3
<1> SUFFICES ASSUME NEW o \in Offer \ revoked
             PROVE  /\ \A h \in TermsH : th[h] # Idle /\ th[h].offer = o => Stage(o, th[h])'
                    /\ (\A h \in TermsH : th[h] # Idle /\ th[h].offer = o => th[h].pc # "set") => SeqSettled(o)'
                    /\ (\A h \in TermsH : th[h] # Idle /\ th[h].offer = o => th[h].pc \notin {"zadd", "hset"}) =>
                         PriceSettled(o)'
  BY <1>2 DEF SettleInv
<1>5. ASSUME NEW h \in TermsH, Stage(o, th[h]) PROVE Stage(o, th[h])'
  <2>1. ScoreOf(th[h])' = ScoreOf(th[h])
    BY <1>2 DEF ScoreOf
  <2>2. ASSUME th[h].pc \in {"zadd", "hset"}, ScoreOf(th[h]) > now + 1
        PROVE  terms'[o] # None /\ terms'[o].m = th[h].m /\ ScoreOf(th[h]) <= terms'[o].exp
    <3>1. terms[o] # None /\ terms[o].m = th[h].m /\ ScoreOf(th[h]) <= terms[o].exp
      BY <1>1, <1>4, <1>5, <2>2 DEF Stage
    <3>2. ~ terms[o].exp <= now + 1
      BY <1>1, <1>4, <2>2, <3>1
    <3> QED BY <1>3, <3>1, <3>2
  <2> QED BY <1>2, <1>5, <2>1, <2>2 DEF Stage
<1>6. SeqSettled(o) => SeqSettled(o)'
  BY <1>2, <1>3 DEF SeqSettled
<1>7. ASSUME PriceSettled(o) PROVE PriceSettled(o)'
  <2> SUFFICES ASSUME score[o] # None, score[o] > now + 1
               PROVE  terms'[o] # None /\ terms'[o].m.price = price[o] /\ score[o] <= terms'[o].exp
    BY <1>2 DEF PriceSettled
  <2>1. terms[o] # None /\ terms[o].m.price = price[o] /\ score[o] <= terms[o].exp
    BY <1>1, <1>4, <1>7 DEF PriceSettled
  <2>2. ~ terms[o].exp <= now + 1
    BY <1>1, <1>4, <2>1
  <2> QED BY <1>3, <2>1, <2>2
<1> QED BY <1>5, <1>6, <1>7 DEF SettleInv

LEMMA TermsSettle ==
  ASSUME TypeInv, up = TRUE, faults' = faults, OneCallEach, SettleInv, NEW h \in TermsH, TermsStep(h)
  PROVE  SettleInv'
<1> DEFINE c == th[h]
           d == th'[h]
<1> PICK q \in Offer : q = th[h].offer
  BY TermsMoves
<1>1. TypeOK /\ UNCHANGED <<now, revoked>> /\ c.at <= now
  BY TermsFrame, TermsMoves DEF TypeInv, db, Timely, TermsCall, Idle
<1>2. c \in TermsCall /\ q = c.offer /\ c.m \in TermsMsg /\ c # Idle /\ c.pc # "idle"
  BY TermsMoves DEF TermsCall, Idle
<1>3. \A g \in TermsH \ {h} : th'[g] = th[g] /\ (th[g] # Idle => th[g].offer # q)
  BY <1>1, <1>2, OtherCalls DEF OneCallEach
<1>4. \A o \in Offer : o # q =>
        /\ seq'[o] = seq[o] /\ terms'[o] = terms[o] /\ score'[o] = score[o] /\ price'[o] = price[o]
  BY <1>1, <1>2, TermsMoves DEF TypeOK
<1>5. d # Idle => d.offer = q /\ d.m = c.m /\ d.at = c.at
  BY TermsMoves
<1>6. ASSUME NEW o \in Offer \ revoked, o # q
      PROVE  /\ \A g \in TermsH : th'[g] # Idle /\ th'[g].offer = o => Stage(o, th[g])' /\ g # h
             /\ (\A g \in TermsH : th'[g] # Idle /\ th'[g].offer = o => th'[g].pc # "set") => SeqSettled(o)'
             /\ (\A g \in TermsH : th'[g] # Idle /\ th'[g].offer = o => th'[g].pc \notin {"zadd", "hset"}) =>
                  PriceSettled(o)'
  <2>1. \A g \in TermsH \ {h} : Stage(o, th[g]) => Stage(o, th[g])'
    BY <1>1, <1>3, <1>4, <1>6 DEF Stage, ScoreOf
  <2>2. /\ SeqSettled(o) => SeqSettled(o)'
        /\ PriceSettled(o) => PriceSettled(o)'
    BY <1>1, <1>4, <1>6 DEF SeqSettled, PriceSettled
  <2>3. \A g \in TermsH : th[g] # Idle /\ th[g].offer = o => g # h /\ th'[g] = th[g]
    BY <1>3, <1>6
  <2>4. \A g \in TermsH : th'[g] # Idle /\ th'[g].offer = o => g # h /\ th'[g] = th[g]
    BY <1>3, <1>5, <1>6
  <2> QED BY <1>6, <2>1, <2>2, <2>3, <2>4 DEF SettleInv
<1>7. SUFFICES ASSUME q \notin revoked
               PROVE  /\ d # Idle => Stage(q, th[h])'
                      /\ d = Idle \/ d.pc # "set" => SeqSettled(q)'
                      /\ d = Idle \/ d.pc \notin {"zadd", "hset"} => PriceSettled(q)'
  <2>1. ASSUME q \notin revoked
        PROVE  /\ \A g \in TermsH : th'[g] # Idle /\ th'[g].offer = q => Stage(q, th[g])'
               /\ (\A g \in TermsH : th'[g] # Idle /\ th'[g].offer = q => th'[g].pc # "set") => SeqSettled(q)'
               /\ (\A g \in TermsH : th'[g] # Idle /\ th'[g].offer = q => th'[g].pc \notin {"zadd", "hset"}) =>
                    PriceSettled(q)'
    BY <1>3, <1>5, <1>7, <2>1
  <2> QED BY <1>1, <1>2, <1>6, <2>1 DEF SettleInv
<1>8. /\ Stage(q, c)
      /\ c.pc # "set" => SeqSettled(q)
      /\ c.pc \notin {"zadd", "hset"} => PriceSettled(q)
  <2>1. \A g \in TermsH : th[g] # Idle /\ th[g].offer = q => g = h
    BY <1>3
  <2> QED BY <1>2, <1>7, <2>1 DEF SettleInv
<1>9. c.pc # "check" => ScoreOf(c) \in Nat /\ EntryOf(c).exp \in Nat /\ ScoreOf(c) <= EntryOf(c).exp
  <2> SUFFICES ASSUME c.pc # "check"
               PROVE  ScoreOf(c) \in Nat /\ EntryOf(c).exp \in Nat /\ ScoreOf(c) <= EntryOf(c).exp
    OBVIOUS
  <2>1. TermsTtl(c.offer, c.m, c.at) \in Nat
    BY <1>2, TermsTtlType DEF TypeInv, TermsChecked
  <2> QED BY <1>1, <1>2, <2>1 DEF ScoreOf, EntryOf, TypeOK, TermsCall
<1>10. d # Idle => ScoreOf(d) = ScoreOf(c)
  BY <1>5 DEF ScoreOf
<1>11. CASE c.pc \in {"check", "getSeq", "touch"} /\ UNCHANGED <<seq, terms, score, price>>
  <2>1. d = Idle \/ d.pc \in {"getSeq", "setSeq"}
    BY <1>11, TermsMoves
  <2>2. SeqSettled(q)' /\ PriceSettled(q)'
    BY <1>1, <1>8, <1>11 DEF SeqSettled, PriceSettled
  <2> QED BY <2>1, <2>2 DEF Stage
<1>12. CASE c.pc = "setSeq" /\ d.pc = "set" /\ UNCHANGED <<terms, score, price>>
            /\ seq' = [seq EXCEPT ![q] = c.m.seq]
  <2>1. d # Idle /\ d.m = c.m /\ seq'[q] = c.m.seq
    BY <1>1, <1>2, <1>5, <1>12 DEF Idle, TypeOK
  <2>2. PriceSettled(q)'
    BY <1>1, <1>8, <1>12 DEF PriceSettled
  <2> QED BY <1>12, <2>1, <2>2 DEF Stage
<1>13. CASE c.pc = "set" /\ d.pc = "zadd" /\ UNCHANGED <<seq, score, price>>
            /\ terms' = [terms EXCEPT ![q] = EntryOf(c)]
  <2>1. d # Idle /\ d.m = c.m /\ terms'[q] = EntryOf(c) /\ EntryOf(c).m = c.m
    BY <1>1, <1>2, <1>5, <1>13 DEF Idle, TypeOK, EntryOf
  <2>2. EntryOf(c) \in TermsEntry /\ seq[q] = c.m.seq
    BY <1>2, <1>8, <1>9, <1>13 DEF EntryOf, TermsEntry, TermsCall, Stage
  <2>3. SeqSettled(q)'
    BY <1>13, <2>1, <2>2 DEF SeqSettled
  <2>4. Stage(q, th[h])'
    BY <1>9, <1>10, <1>13, <2>1, <2>2, NoneAssumption DEF Stage
  <2> QED BY <1>13, <2>1, <2>3, <2>4
<1>14. CASE c.pc = "zadd" /\ d.pc = "hset" /\ UNCHANGED <<seq, terms, price>>
            /\ score' = [score EXCEPT ![q] = ScoreOf(c)]
  <2>1. d # Idle /\ d.m = c.m /\ score'[q] = ScoreOf(c)
    BY <1>1, <1>2, <1>5, <1>14 DEF Idle, TypeOK
  <2>2. SeqSettled(q)'
    BY <1>8, <1>14 DEF SeqSettled
  <2>3. Stage(q, th[h])'
    BY <1>1, <1>8, <1>10, <1>14, <2>1 DEF Stage
  <2> QED BY <1>14, <2>1, <2>2, <2>3
<1>15. CASE c.pc = "hset" /\ d.pc = "touch" /\ UNCHANGED <<seq, terms, score>>
            /\ price' = [price EXCEPT ![q] = c.m.price]
  <2>1. price'[q] = c.m.price
    BY <1>1, <1>2, <1>15 DEF TypeOK
  <2>2. SeqSettled(q)'
    BY <1>8, <1>15 DEF SeqSettled
  <2>3. PriceSettled(q)'
    BY <1>1, <1>8, <1>15, <2>1 DEF PriceSettled, Stage
  <2> QED BY <1>15, <2>2, <2>3 DEF Stage
<1> QED BY <1>11, <1>12, <1>13, <1>14, <1>15, TermsMoves

LEMMA NextSettle ==
  ASSUME TypeInv, CleanInv, RevokeInv, OneCallEach, SettleInv, faults = 0, faults' = 0, [Next]_vars
  PROVE  SettleInv'
<1>1. TypeOK /\ up = TRUE
  BY NoFaultStep DEF TypeInv
<1>2. ASSUME UNCHANGED <<th, now, revoked, terms, seq, score, price>> PROVE SettleInv'
  BY <1>2, QuietSettle
<1>3. CASE UNCHANGED vars
  BY <1>2, <1>3 DEF vars, db, redisVars, liveKeys, calls
<1>4. ASSUME NEW h \in TermsH, NEW o \in Offer, NEW m \in TermsMsg, TermsRecv(h, o, m) PROVE SettleInv'
  <2>1. /\ UNCHANGED <<now, revoked, terms, seq, score, price>> /\ th[h] = Idle
        /\ th'[h].pc = "check" /\ \A g \in TermsH \ {h} : th'[g] = th[g]
    BY <1>1, <1>4 DEF TermsRecv, TypeOK, db, redisVars, liveKeys
  <2> SUFFICES ASSUME NEW i \in Offer \ revoked
               PROVE  /\ \A g \in TermsH : th'[g] # Idle /\ th'[g].offer = i => Stage(i, th[g])'
                      /\ (\A g \in TermsH : th'[g] # Idle /\ th'[g].offer = i => th'[g].pc # "set") => SeqSettled(i)'
                      /\ (\A g \in TermsH : th'[g] # Idle /\ th'[g].offer = i => th'[g].pc \notin {"zadd", "hset"})
                           => PriceSettled(i)'
    BY <2>1 DEF SettleInv
  <2>2. \A g \in TermsH \ {h} : Stage(i, th[g]) => Stage(i, th[g])'
    BY <2>1 DEF Stage, ScoreOf
  <2>3. Stage(i, th[h])'
    BY <2>1 DEF Stage
  <2>4. /\ SeqSettled(i) => SeqSettled(i)'
        /\ PriceSettled(i) => PriceSettled(i)'
    BY <2>1 DEF SeqSettled, PriceSettled
  <2> QED BY <2>1, <2>2, <2>3, <2>4 DEF SettleInv
<1>5. CASE \E h \in TermsH : TermsStep(h)
  BY <1>1, <1>5, TermsSettle
<1>6. CASE \E h \in AvailH : AvailStep(h) \/ \E o \in Offer, m \in AvailMsg : AvailRecv(h, o, m)
  BY <1>2, <1>6, AvailFrame DEF db, liveKeys
<1>7. CASE \E h \in RevokeH : RevokeStep(h) \/ \E o \in Offer, m \in RevokeMsg : RevokeRecv(h, o, m)
  BY <1>7, RevokeFrame, RevokeOnlyClears, QuietSettle
<1>8. CASE \E h \in ReadH : \/ ReadStep(h)
                            \/ \E f \in {"strict", "normal", "any"}, free \in BOOLEAN : QuerySql(h, f, free)
                            \/ \E o \in Offer : GetSql(h, o)
  BY <1>2, <1>8, ReadFrame DEF db, redisVars, liveKeys
<1>9. ASSUME NEW h \in LiveH, LiveStep(h) \/ LiveMiss(h) PROVE SettleInv'
  <2>1. \A o \in Offer : score'[o] = score[o] \/ score'[o] = None
    BY <1>9 DEF LiveStep, LiveMiss, LivePrune, LiveRange, LivePrices, LiveCache, redisVars, liveKeys
  <2> QED BY <1>9, <2>1, LiveFrame, QuietSettle DEF db
<1>10. CASE Tick
  BY <1>10, TickSettle
<1> QED BY <1>3, <1>4, <1>5, <1>6, <1>7, <1>8, <1>9, <1>10, NoFaultStep DEF Next

\* When no two heartbeats of one offer are in flight together and Redis does not
\* fail, the Redis structures of a standing offer agree between heartbeats: its terms
\* record has the stored seq, and while it is in the live set it has a terms record
\* with the price the snapshot shows (setTerms, postTerms).
THEOREM TermsAlwaysSettle == Spec /\ [](OneCallEach /\ faults = 0) => []TermsSettled
<1>1. Init => SettleInv
  BY DEF Init, SettleInv, Idle, Stage, SeqSettled, PriceSettled
<1>2. TypeInv /\ CleanInv /\ (RevokeInv /\ ReadInv) /\ (OneCallEach /\ faults = 0) /\ (OneCallEach /\ faults = 0)'
        /\ SettleInv /\ [Next]_vars => SettleInv'
  BY NextSettle
<1>3. SettleInv => TermsSettled
  BY DEF SettleInv, TermsSettled, SeqSettled, PriceSettled
<1> QED BY <1>1, <1>2, <1>3, TypeInvariant, CleanInvariant, RevokeInvariant, PTL DEF Spec

LEMMA QuietHint ==
  ASSUME HintInv, UNCHANGED ah, revoked \subseteq revoked',
         \A o \in Offer \ revoked' : /\ availSeq'[o] = availSeq[o]
                                     /\ busy'[o] = busy[o] \/ busy'[o] = None
  PROVE  HintInv'
BY DEF HintInv, HintSettled

LEMMA AvailHint ==
  ASSUME TypeInv, up = TRUE, OneCallEach, HintInv, NEW h \in AvailH, AvailStep(h)
  PROVE  HintInv'
<1> DEFINE c == ah[h]
           d == ah'[h]
<1> PICK q \in Offer : q = ah[h].offer
  BY AvailMoves
<1>1. TypeOK /\ UNCHANGED revoked
  BY AvailFrame DEF TypeInv, db
<1>2. /\ c \in AvailCall /\ c.m \in AvailMsg /\ c # Idle
      /\ c.pc = "apply" => c.m.offer = q
  BY AvailMoves DEF AvailCall, Idle, TypeInv, AvailChecked, SignedByOwner
<1>3. \A g \in AvailH \ {h} : ah'[g] = ah[g] /\ (ah[g] # Idle => ah[g].offer # q)
  BY <1>1, <1>2, OtherCalls DEF OneCallEach
<1>4. d # Idle => d.offer = q /\ d.m = c.m
  BY AvailMoves
<1>5. \A g \in AvailH : ah[g].pc = "apply" => ah[g] # Idle
  BY DEF Idle
<1>6. \A o \in Offer : o # q => availSeq'[o] = availSeq[o] /\ busy'[o] = busy[o]
  BY <1>1, <1>2, AvailMoves DEF TypeOK, BusyAfter, Put
<1>7. ASSUME NEW o \in Offer \ revoked, o # q
      PROVE  /\ \A g \in AvailH : ah'[g].pc = "apply" /\ ah'[g].offer = o => availSeq'[o] = ah'[g].m.seq
             /\ (\A g \in AvailH : ah'[g] # Idle /\ ah'[g].offer = o => ah'[g].pc # "apply") => HintSettled(o)'
  <2>1. \A g \in AvailH : \/ ah[g] # Idle /\ ah[g].offer = o
                          \/ ah'[g] # Idle /\ ah'[g].offer = o
                          => g # h /\ ah'[g] = ah[g]
    BY <1>3, <1>4, <1>7
  <2>2. HintSettled(o) => HintSettled(o)'
    BY <1>6, <1>7 DEF HintSettled
  <2>3. \A g \in AvailH : ah'[g].pc = "apply" => ah'[g] # Idle
    BY DEF Idle
  <2> QED BY <1>6, <1>7, <2>1, <2>2, <2>3 DEF HintInv
<1>8. SUFFICES ASSUME q \notin revoked
               PROVE  /\ d.pc = "apply" => availSeq'[q] = d.m.seq
                      /\ d = Idle \/ d.pc # "apply" => HintSettled(q)'
  <2>1. ASSUME q \notin revoked
        PROVE  /\ \A g \in AvailH : ah'[g].pc = "apply" /\ ah'[g].offer = q => availSeq'[q] = ah'[g].m.seq
               /\ (\A g \in AvailH : ah'[g] # Idle /\ ah'[g].offer = q => ah'[g].pc # "apply") => HintSettled(q)'
    BY <1>3, <1>4, <1>5, <1>8, <2>1
  <2> QED BY <1>1, <1>7, <2>1 DEF HintInv
<1>9. /\ c.pc = "apply" => availSeq[q] = c.m.seq
      /\ c.pc # "apply" => HintSettled(q)
  <2>1. \A g \in AvailH : ah[g] # Idle /\ ah[g].offer = q => g = h
    BY <1>3
  <2> QED BY <1>8, <2>1 DEF HintInv
<1>10. CASE c.pc \in {"check", "getSeq"} /\ UNCHANGED <<availSeq, busy>>
  BY <1>9, <1>10, AvailMoves DEF HintSettled, Idle
<1>11. CASE c.pc = "setSeq" /\ d.pc = "apply" /\ availSeq' = [availSeq EXCEPT ![q] = c.m.seq]
  BY <1>1, <1>4, <1>11 DEF TypeOK, Idle
<1>12. CASE c.pc = "apply" /\ d = Idle /\ UNCHANGED availSeq /\ busy' = BusyAfter(c)
  <2>1. busy \in [Offer -> Nat \cup {None}] /\ q = c.offer
    BY <1>1 DEF TypeOK
  <2>2. busy'[q] # None => ~ c.m.available
    BY <1>12, <2>1 DEF BusyAfter, Put
  <2>3. HintSettled(q)'
    BY <1>2, <1>9, <1>12, <2>2 DEF HintSettled
  <2> QED BY <1>12, <2>3 DEF Idle
<1> QED BY <1>10, <1>11, <1>12, AvailMoves

LEMMA NextHint ==
  ASSUME TypeInv, CleanInv, RevokeInv, OneCallEach, HintInv, faults = 0, faults' = 0, [Next]_vars
  PROVE  HintInv'
<1>1. TypeOK /\ up = TRUE
  BY NoFaultStep DEF TypeInv
<1>2. ASSUME UNCHANGED <<ah, revoked, availSeq, busy>> PROVE HintInv'
  BY <1>2, QuietHint
<1>3. CASE UNCHANGED vars
  BY <1>2, <1>3 DEF vars, db, redisVars, busyKeys, calls
<1>4. CASE \E h \in TermsH : TermsStep(h) \/ \E o \in Offer, m \in TermsMsg : TermsRecv(h, o, m)
  BY <1>2, <1>4, TermsFrame DEF db, busyKeys
<1>5. ASSUME NEW h \in AvailH, NEW o \in Offer, NEW m \in AvailMsg, AvailRecv(h, o, m) PROVE HintInv'
  <2>1. /\ UNCHANGED <<revoked, availSeq, busy>> /\ ah[h] = Idle /\ ah[h].pc # "apply"
        /\ ah'[h].pc = "check" /\ \A g \in AvailH \ {h} : ah'[g] = ah[g]
    BY <1>1, <1>5 DEF AvailRecv, TypeOK, db, redisVars, busyKeys, Idle
  <2> QED BY <2>1 DEF HintInv, HintSettled
<1>6. CASE \E h \in AvailH : AvailStep(h)
  BY <1>1, <1>6, AvailHint
<1>7. CASE \E h \in RevokeH : RevokeStep(h) \/ \E o \in Offer, m \in RevokeMsg : RevokeRecv(h, o, m)
  BY <1>7, RevokeFrame, RevokeOnlyClears, QuietHint
<1>8. CASE \E h \in ReadH : \/ ReadStep(h)
                            \/ \E f \in {"strict", "normal", "any"}, free \in BOOLEAN : QuerySql(h, f, free)
                            \/ \E o \in Offer : GetSql(h, o)
  BY <1>2, <1>8, ReadFrame DEF db, redisVars, busyKeys
<1>9. CASE \E h \in LiveH : LiveStep(h) \/ LiveMiss(h)
  BY <1>2, <1>9, LiveFrame DEF db, busyKeys
<1>10. CASE Tick
  <2>1. /\ UNCHANGED <<ah, revoked, availSeq>>
        /\ \A o \in Offer : busy'[o] = busy[o] \/ busy'[o] = None
    BY <1>10 DEF Tick, db, calls
  <2> QED BY <2>1, QuietHint
<1> QED BY <1>3, <1>4, <1>5, <1>6, <1>7, <1>8, <1>9, <1>10, NoFaultStep DEF Next

\* When no two hints of one offer are in flight together and Redis does not fail, a
\* busy flag between hints is the word of the newest accepted hint, so a job reported
\* finished frees its offer (postAvailability).
THEOREM NewestHintWins == Spec /\ [](OneCallEach /\ faults = 0) => []NewestAvailWins
<1>1. Init => HintInv
  BY DEF Init, HintInv, Idle, HintSettled
<1>2. TypeInv /\ CleanInv /\ (RevokeInv /\ ReadInv) /\ (OneCallEach /\ faults = 0) /\ (OneCallEach /\ faults = 0)'
        /\ HintInv /\ [Next]_vars => HintInv'
  BY NextHint
<1>3. HintInv => NewestAvailWins
  BY DEF HintInv, NewestAvailWins, HintSettled
<1> QED BY <1>1, <1>2, <1>3, TypeInvariant, CleanInvariant, RevokeInvariant, PTL DEF Spec
=============================================================================
