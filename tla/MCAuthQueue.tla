---------------------------- MODULE MCAuthQueue ----------------------------
(* The responses of a chain that may be complete or lack a DS record.       *)
EXTENDS AuthQueue, TLC

\* A properly signed answer of zone z to the question of two labels.
Signed(z) ==
    [zone |-> z, qname |-> 2, qtype |-> "other", signer |-> z, keys |-> "good", sigs |-> "good",
     kind |-> "positive", ds |-> None, wildcards |-> 0, proofs |-> {}, answer |-> "match"]

Referral(z, ds) == [Signed(z) EXCEPT !.kind = "delegation", !.ds = ds, !.answer = "other"]
DSAnswer(z, child) == [Signed(z) EXCEPT !.qname = child, !.qtype = "DS", !.ds = child, !.answer = "other"]

\* Zone 1 answers for zone 2, which it hosts too, so that the DS records of
\* zone 2 are missing from the chain; a second response of zone 1 has them.
MCMessages ==
    {Referral(0, 1), [Signed(1) EXCEPT !.signer = 2], DSAnswer(1, 2), Signed(2)}

=============================================================================
