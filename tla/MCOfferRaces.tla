---------------------------- MODULE MCOfferRaces ----------------------------
(* Two families of races over LiveOffers in one run: heartbeats against    *)
(* each other and against snapshots, and a heartbeat against a revocation  *)
(* and the reads.  `slots` says which slots of LiveOffers are in use; all  *)
(* of them at once would be the product of the two.                        *)
EXTENDS MCLiveOffers

VARIABLE slots

\* At most one heartbeat in flight: the provider's first, or the stranger's.
OneHeartbeat ==
  /\ Cardinality({h \in TermsH : th[h] # Idle}) <= 1
  /\ \A h \in TermsH : th[h] # Idle => th[h].m.seq # 2

RacesInit == Init /\ slots \in {"heartbeats", "reads"}

RacesNext ==
  /\ Next
  /\ UNCHANGED slots
  /\ slots = "heartbeats" => UNCHANGED <<rh, qh>>
  /\ slots = "reads" => UNCHANGED lh /\ OneHeartbeat'

RacesSpec == RacesInit /\ [][RacesNext]_<<vars, slots>>
=============================================================================
