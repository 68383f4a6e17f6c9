--------------------------- MODULE MCAuthenticator ---------------------------
(* A question of two labels: the root (0), a top-level zone (1) and the     *)
(* zone of the question's name (2).                                         *)
EXTENDS Authenticator, TLC

\* A properly signed answer of zone z to the question.
Signed(z) ==
    [zone |-> z, qname |-> 2, qtype |-> "other", signer |-> z, keys |-> "good", sigs |-> "good",
     kind |-> "positive", ds |-> None, wildcards |-> 0, proofs |-> {}, answer |-> "match"]

Referral(z, child) == [Signed(z) EXCEPT !.kind = "delegation", !.ds = child, !.answer = "other"]
DSAnswer(z, child) == [Referral(z, child) EXCEPT !.qname = child, !.qtype = "DS", !.kind = "positive"]
Denied(m, doe) == [m EXCEPT !.ds = None, !.proofs = doe]
Negative(m, doe) == [Denied(m, doe) EXCEPT !.kind = "negative", !.answer = "other"]
Unsigned(m) == [m EXCEPT !.signer = None, !.keys = "none", !.sigs = "bad"]

RootMessages ==
    {Referral(0, 1), DSAnswer(0, 1), Denied(Referral(0, None), {"NsecMissingDS"}),
     [Referral(0, 1) EXCEPT !.keys = "unmatched"], [Referral(0, 1) EXCEPT !.keys = "error"]}

ZoneMessages ==
    {Referral(1, 2), DSAnswer(1, 2), Referral(1, None),
     Denied(Referral(1, None), {"Nsec3OptOut", "Nsec3MissingDS"}),
     Denied(Referral(1, None), {"Nsec3OptOut"}), [Referral(1, None) EXCEPT !.kind = "mixed"],
     Negative(DSAnswer(1, 2), {"NsecNoData"}), Negative(Signed(1), {"Nsec3NoData", "NsecWildcard"}),
     Negative(DSAnswer(1, 2), {"Nsec3OptOut"}), Negative(Signed(1), {"Nsec3OptOut", "Nsec3NxDomain"}),
     Unsigned(Referral(1, 2)), [Referral(1, 2) EXCEPT !.signer = OffPath],
     [Signed(1) EXCEPT !.signer = 2], [Signed(1) EXCEPT !.kind = "other"]}

AnswerMessages ==
    {Signed(2), Unsigned(Signed(2)), [Signed(2) EXCEPT !.answer = "cname"],
     [Signed(2) EXCEPT !.answer = "other"], [Signed(2) EXCEPT !.sigs = "bad"],
     [Signed(2) EXCEPT !.keys = "bad"], [Signed(2) EXCEPT !.wildcards = 1],
     [Signed(2) EXCEPT !.wildcards = 1, !.proofs = {"Nsec3Wildcard"}],
     [Signed(2) EXCEPT !.wildcards = 2, !.proofs = {"NsecWildcard"}],
     Negative(Signed(2), {"NsecNxDomain"}), Negative(Signed(2), {})}

OtherMessages == {[Signed(0) EXCEPT !.zone = OffPath], [Signed(0) EXCEPT !.qname = OffPath]}

MCMessages == RootMessages \cup ZoneMessages \cup AnswerMessages \cup OtherMessages

=============================================================================
