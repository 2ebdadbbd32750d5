---------------------------- MODULE MCAttestation ----------------------------
(* Small instances of Attestation for TLC.                                 *)
EXTENDS Attestation, TLC

MCWork == [l \in Lane |-> IF l = 2 THEN 2 ELSE 1]

\* Nonces are random; providers and slots are interchangeable.
Sym == Permutations(Nonce) \cup Permutations(H) \cup Permutations(Provider)
=============================================================================
