--------------------------- MODULE MCRegistration ---------------------------
(* Small instances of Registration for TLC.                                *)
EXTENDS Registration, TLC

CONSTANTS p1, p2, a1

\* Two successive profiles of one provider, and one of another.
MCProfile == {[signer |-> p1, signedAt |-> 0], [signer |-> p1, signedAt |-> 1],
              [signer |-> p2, signedAt |-> 0]}

\* Three offers of p1, one of which asks for more than its attestation and, at first,
\* the limit allow, and one of p2, which may or may not own the attestation.
Offering(p, from, til) ==
  [signer |-> p, attestation |-> a1, signedAt |-> from, expiresAt |-> til]
MCOffer == {Offering(p1, 0, 2), Offering(p1, 1, 2), Offering(p1, 0, 3), Offering(p2, 0, 2)}

Sym == Permutations(OfferH)
=============================================================================
