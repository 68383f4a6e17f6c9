-------------------------- MODULE MCNameserverPool --------------------------
(* A small instance of NameserverPool for TLC.                             *)
EXTENDS NameserverPool

CONSTANTS h1, h2

Rec(h, f, t) == [host |-> h, family |-> f, ttl |-> t]

MCNameserverSets == {{h1, h2}}

\* No glue, that of one host of the two, and addresses of one family only.
MCGlues ==
    {{}, {Rec(h1, "ipv4", 1)}, {Rec(h1, "ipv6", 2), Rec(h2, "ipv6", 1)}}

\* Addresses of both hosts, and an answer about another name.
MCAnswers == {{Rec(h2, "ipv4", 5), Rec(h1, "ipv6", 2)}, {Rec(None, "ipv4", 1)}}

=============================================================================
