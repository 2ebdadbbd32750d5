--------------------------- MODULE MCAttestRaces ---------------------------
(* Attestation with and without races in one run: `inTurn` says whether    *)
(* the client sends one request at a time over a Redis that stays up, as   *)
(* the agent does, or several at once while Redis and the registry fail.   *)
EXTENDS MCAttestation

VARIABLE inTurn

\* Proofs signed by another provider are left to the client that takes turns.
OwnProofs ==
  \A h \in H : call[h].pc = "loadSubmit" /\ bench[call[h].c] # None =>
    call[h].m.signer = bench[call[h].c].s.provider

RacesInit == Init /\ inTurn \in BOOLEAN

RacesNext ==
  /\ Next
  /\ UNCHANGED inTurn
  /\ IF inTurn THEN faults' = 0 /\ Cardinality({h \in H : call'[h] # Idle}) <= 1
               ELSE OwnProofs'

RacesSpec == RacesInit /\ [][RacesNext]_<<vars, inTurn>>

\* A client that sends one request at a time gets at most one attestation out of
\* a challenge (dropBench at the close of postLaneSubmit).
OneAttestationInTurn == inTurn => OneAttestation

\* docs/registry-spec.md 5.3, for such a client: a failed lane aborts the whole
\* challenge, which no later start or submission revives (postLaneSubmit).
FailedIsFinalInTurn == inTurn => FailedIsFinal
=============================================================================
