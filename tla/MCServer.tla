------------------------------ MODULE MCServer ------------------------------
(* Clients ask for one name, with and without the DO bit, and for another  *)
(* name.                                                                   *)
EXTENDS Server, TLC

CONSTANTS r1, r2, r3, r4, a, b, w1, w2

\* r3 has the DO bit, r4 is for the other name.
QuestionOfAll == (r1 :> a) @@ (r2 :> a) @@ (r3 :> a) @@ (r4 :> b)
FlagOfAll == (r1 :> "plain") @@ (r2 :> "plain") @@ (r3 :> "DO") @@ (r4 :> "plain")

MCQuestionOf == [r \in Request |-> QuestionOfAll[r]]
MCFlagOf == [r \in Request |-> FlagOfAll[r]]
=============================================================================
