---------------------------- MODULE OfferStatus ----------------------------
(***************************************************************************)
(* What the registry promises about the status it reports for an offer     *)
(* (`OfferStatus` in handlers/offers.ts): the three soft states may follow *)
(* one another in any order as heartbeats and busy hints come and go, but  *)
(* an expired offer can only become revoked and a revoked one stays so.    *)
(* Nothing here knows of Redis, Postgres, clocks or handlers.              *)
(***************************************************************************)
CONSTANT Offer

VARIABLE status

\* An offer with no live terms is stale; with them it is active, or busy.
Soft == {"stale", "active", "busy"}
Status == Soft \cup {"expired", "revoked"}

Init == status = [o \in Offer |-> "stale"]

\* One observable change: time may expire several offers in the same instant.
Next ==
  /\ status' \in [Offer -> Status]
  /\ \A o \in Offer :
       /\ status[o] = "revoked" => status'[o] = "revoked"
       /\ status[o] = "expired" => status'[o] \in {"expired", "revoked"}

Spec == Init /\ [][Next]_status
=============================================================================
