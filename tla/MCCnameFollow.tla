--------------------------- MODULE MCCnameFollow ---------------------------
EXTENDS CnameFollow, TLC

CONSTANTS c1, c2, c3, c4, t1, t2, t3

\* c1 and c2 lead to the same target, c4 to one that is known already.
MCTarget == (c1 :> t1) @@ (c2 :> t1) @@ (c3 :> t2) @@ (c4 :> t3)

MCExchanged ==
    {None,
     [auth |-> "Secure", rcode |-> Success, aa |-> TRUE],
     [auth |-> "Insecure", rcode |-> NameError, aa |-> TRUE],
     [auth |-> "Bogus", rcode |-> ServerFailure, aa |-> FALSE],
     [auth |-> "Unknown", rcode |-> Success, aa |-> FALSE]}

MCCached == {None, [auth |-> "Unknown", rcode |-> Success, aa |-> FALSE]}

=============================================================================
