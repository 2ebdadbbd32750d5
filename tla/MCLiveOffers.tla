---------------------------- MODULE MCLiveOffers ----------------------------
(* Small instances of LiveOffers for TLC.                                  *)
EXTENDS LiveOffers, TLC

CONSTANTS o1, p1, p2

MCOwner == [o \in Offer |-> p1]
MCExpiresAt == [o \in Offer |-> 3]
MCInterval == [p \in Provider |-> 1]

Terms(o, p, n, pr, from, til) ==
  [offer |-> o, signer |-> p, seq |-> n, price |-> pr, signedAt |-> from, validUntil |-> til]
Avail(o, p, n, free, from, til) ==
  [offer |-> o, signer |-> p, seq |-> n, available |-> free, signedAt |-> from, validUntil |-> til]

\* Two successive heartbeats at different prices, and one signed by a stranger.
RaceTerms == {Terms(o1, p1, 1, 1, 0, 1), Terms(o1, p1, 2, 2, 0, 2), Terms(o1, p2, 3, 3, 0, 3)}
TwoTerms == {Terms(o1, p1, 1, 1, 0, 1), Terms(o1, p1, 2, 2, 0, 3)}

\* A job taken, the job finished, and a hint that is past before it is applied.
MCAvail == {Avail(o1, p1, 1, FALSE, 0, 2), Avail(o1, p1, 2, TRUE, 0, 2), Avail(o1, p1, 3, FALSE, 0, 1)}

\* A heartbeat and a busy hint, for the run in which all of it runs out.
QuietTerms == {Terms(o1, p1, 1, 1, 0, 2)}
QuietAvail == {Avail(o1, p1, 1, FALSE, 0, 2)}

MCRevoke == {[offer |-> o1, signer |-> p1], [offer |-> o1, signer |-> p2]}

\* Concurrent heartbeats are interchangeable.
Sym == Permutations(TermsH)

\* Every message has run out, and every key it left, before the clock stops.
ASSUME QuietHorizon ==
  \A m \in TermsMsg \cup AvailMsg : m.signer = p1 => m.validUntil + MaxLatency + SnapshotTtl <= MaxTime
=============================================================================
