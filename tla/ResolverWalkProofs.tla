------------------------- MODULE ResolverWalkProofs -------------------------
(* Proofs about concurrent queries over the zone store, for any number of   *)
(* queries, names of any length, and zones on any servers: the inductive    *)
(* invariant, and the steps of a query's walk down its labels.              *)
EXTENDS ResolverExchange, WellFoundedInduction, TLAPS

\* A set of natural numbers that is not empty has a least member.
LEMMA LeastNatural ==
    ASSUME NEW S, S \subseteq Nat, S # {}
    PROVE  Min(S) \in S /\ \A m \in S : Min(S) <= m
<1>1. PICK x \in S : \A y \in S : <<y, x>> \notin OpToRel(<, Nat)
  BY NatLessThanWellFounded, WFMin, Zenon
<1>2. ASSUME NEW y \in S PROVE x <= y
  <2>1. x \in Nat /\ y \in Nat
    OBVIOUS
  <2>2. ~ (y < x)
    BY <1>1, <2>1, Zenon DEF OpToRel
  <2> QED
    BY <2>1, <2>2
<1> QED
  BY Zenon, <1>2 DEF Min

\* A set of natural numbers that has a bound and is not empty has a greatest
\* member: the deepest of the zones above a name.
LEMMA GreatestNatural ==
    ASSUME NEW n \in Nat, NEW S, S \subseteq 0..n, S # {}
    PROVE  Max(S) \in S /\ \A m \in S : m <= Max(S)
<1> DEFINE above == {n - m : m \in S}
<1>0. \A m \in S : m \in 0..n /\ n - m \in Nat
  OBVIOUS
<1>1. above \subseteq Nat /\ above # {}
  BY <1>0, Zenon
<1>2. PICK d \in above : \A e \in above : d <= e
  BY Zenon, <1>1, LeastNatural
<1>3. PICK x \in S : d = n - x
  BY <1>2
<1>4. \A y \in S : y <= x
  <2> SUFFICES ASSUME NEW y \in S PROVE y <= x
    OBVIOUS
  <2>1. n - y \in above
    OBVIOUS
  <2>2. d <= n - y
    BY <1>2, <2>1
  <2> QED
    BY <1>3, <2>2
<1> QED
  BY Zenon, <1>3, <1>4 DEF Max

ResponseRecord == [kind : {"referral", "positive", "negative"}, owner : Position]

TypeInv ==
    /\ now \in Nat
    /\ store \in [Position -> ZoneRecord \cup {None}]
    /\ pc \in [Query -> {"idle", "listing", "looping", "asking", "missing", "responded",
                         "answered", "failed", "panic"}]
    /\ qname \in [Query -> Position]
    /\ do \in [Query -> {"DO", "plain"}]
    /\ at \in [Query -> Int]
    /\ zone \in [Query -> ZoneRecord \cup {None}]
    /\ counter \in [Query -> Nat]
    /\ response \in [Query -> ResponseRecord \cup {None}]
    /\ inputs \in [Query -> Seq(Position \X Position)]
    /\ unlinked \in [Query -> SUBSET Position]
    /\ soaFailed \in BOOLEAN

\* The query has reached a zone, which is an ancestor of its name.
HasZone(q) == zone[q] \in ZoneRecord /\ zone[q].name \in Cuts /\ zone[q].name <= qname[q]

\* A referral is to the first zone that the servers of the zone do not have.
Referred(q) ==
    LET deepest == Deepest(zone[q].name, qname[q]) IN
    response[q].kind = "referral" =>
        /\ response[q].owner \in Cuts
        /\ zone[q].name < response[q].owner /\ deepest < response[q].owner
        /\ \A c \in Cuts : c < response[q].owner => c <= deepest

\* Where a query is on its way down the labels.
WalkInv(q) ==
    /\ pc[q] = "listing" =>
           /\ at[q] \in 0..qname[q] /\ counter[q] = 0
           /\ zone[q] = None => at[q] = 0
           /\ zone[q] # None => HasZone(q) /\ zone[q].name < at[q]
    /\ pc[q] = "looping" =>
           HasZone(q) /\ (at[q] = zone[q].name + 1 \/ (at[q] = zone[q].name /\ counter[q] = 0))
    /\ pc[q] = "asking" =>
           HasZone(q) /\ (at[q] = zone[q].name + 1 \/ (at[q] = zone[q].name /\ counter[q] = 1))
    /\ pc[q] = "missing" =>
           /\ HasZone(q) /\ response[q] \in ResponseRecord /\ Referred(q)
           /\ at[q] < response[q].owner /\ response[q].owner <= qname[q]
           /\ zone[q].name < at[q] \/ (at[q] = zone[q].name /\ counter[q] = 1)
    /\ pc[q] = "responded" =>
           /\ HasZone(q) /\ response[q] \in ResponseRecord /\ Referred(q)
           /\ response[q].kind = "referral" => at[q] = response[q].owner /\ at[q] <= qname[q]
    /\ pc[q] = "answered" => HasZone(q)
    /\ pc[q] = "panic" => counter[q] = 1 /\ at[q] = zone[q].name

\* Every iteration of the loop leads to another label.
CountInv(q) ==
    /\ pc[q] = "looping" => counter[q] <= at[q]
    /\ pc[q] \in {"asking", "missing", "responded"} => counter[q] <= at[q] + 1

\* The zones whose inputs the authenticator of the query was given.
InputZones(q) == {inputs[q][i][1] : i \in DOMAIN inputs[q]}
Distinct(q) == \A i, j \in DOMAIN inputs[q] : inputs[q][i][1] = inputs[q][j][1] => i = j

\* The inputs are of zones above the one that the query has reached.
InputInv(q) ==
    /\ Distinct(q)
    /\ zone[q] = None => InputZones(q) = {}
    /\ pc[q] \notin {"answered", "failed"} => \A c \in InputZones(q) : c < zone[q].name

\* No zone of the servers is between the zone and the label it has reached.
TestedInv(q) ==
    ~soaFailed /\ pc[q] \in {"missing", "responded"} =>
        \A c \in Hosted(zone[q].name) : ~(zone[q].name < c /\ c < at[q])

\* The zones that were asked for an input, whether they gave one or not.
Asked(q) == InputZones(q) \cup unlinked[q]

\* No zone is missing, as long as there is no excuse.
ChainInv(q) ==
    Contiguous /\ do[q] = "DO" /\ q \notin skipped /\ ~soaFailed =>
        /\ zone[q] # None => \A c \in Cuts : c < zone[q].name => c \in Asked(q)
        /\ pc[q] = "answered" => zone[q].name \in Asked(q)

\* The zones of the store leave out none between them and their parents.
StoreInv ==
    /\ StoreSound
    /\ Contiguous /\ ~soaFailed => \A p \in Position \ {0} : store[p] # None =>
           \A c \in Cuts : ~(store[p].parent < c /\ c < p)

QueryInv(q) == WalkInv(q) /\ CountInv(q) /\ InputInv(q) /\ TestedInv(q) /\ ChainInv(q)

ResolverInv == TypeInv /\ StoreInv /\ \A q \in Query : QueryInv(q)

-----------------------------------------------------------------------------
(* What servers answer.                                                    *)

LEMMA Names ==
    /\ N \in Nat /\ \A n \in Position : n \in Nat /\ n \in 0..N
    /\ Cuts \subseteq Position /\ 0 \in Cuts /\ 0 \in Position
    /\ \A c \in Cuts : c \in Nat /\ c \in Position
    /\ QNames \subseteq Position /\ Flags \subseteq {"DO", "plain"}
    /\ \A life \in Lifetimes : life \in Nat
    /\ None \notin ZoneRecord
  BY ExchangeAssumption DEF Position, ZoneRecord

\* The deepest zone that servers have above a name is one of theirs, and is
\* not above the zone that is asked.
LEMMA DeepestValue ==
    ASSUME NEW z \in Cuts, NEW name \in Position, z <= name
    PROVE  /\ Deepest(z, name) \in Hosted(z)
           /\ z <= Deepest(z, name) /\ Deepest(z, name) <= name
           /\ \A c \in Hosted(z) : c <= name => c <= Deepest(z, name)
<1> DEFINE S == {c \in Hosted(z) : c <= name}
<1>1. name \in Nat /\ S \subseteq 0..name /\ z \in S
  BY Names DEF Hosted
<1>2. Max(S) \in S /\ \A m \in S : m <= Max(S)
  BY <1>1, GreatestNatural
<1> QED
  BY <1>1, <1>2 DEF Deepest

\* Servers that have two zones answer from the same one for either.
LEMMA SameServers ==
    ASSUME NEW z \in Cuts, NEW y \in Hosted(z)
    PROVE  Hosted(y) = Hosted(z) /\ \A name : Deepest(y, name) = Deepest(z, name)
<1>1. Hosted(y) = Hosted(z)
  BY DEF Hosted
<1> QED
  BY <1>1 DEF Deepest

\* A response is about the name or an ancestor of it, and a referral leads
\* to the first zone below those of the servers.
LEMMA ResponseFacts ==
    ASSUME NEW z \in Cuts, NEW name \in Position, z <= name, NEW r \in Responses(z, name)
    PROVE  /\ r \in ResponseRecord /\ r.owner <= name
           /\ r.kind = "referral" =>
                  /\ r.owner \in Cuts /\ z < r.owner /\ Deepest(z, name) < r.owner
                  /\ \A c \in Cuts : c < r.owner => c <= Deepest(z, name)
<1>1. /\ Deepest(z, name) \in Position /\ z <= Deepest(z, name) /\ Deepest(z, name) <= name
      /\ Deepest(z, name) \in Nat /\ name \in Nat /\ z \in Nat /\ 0 \in Position
  BY DeepestValue, Names DEF Hosted
<1>2. CASE Below(z, name) # {}
  <2> DEFINE b == Min(Below(z, name))
  <2>1. Below(z, name) \subseteq Nat
    BY Names DEF Below
  <2>2. b \in Below(z, name) /\ \A c \in Below(z, name) : b <= c
    BY <1>2, <2>1, LeastNatural
  <2>3. r.kind = "referral" /\ r.owner = b /\ r \in [kind : {"referral"}, owner : {b}]
    BY <1>2 DEF Responses
  <2>4. b \in Cuts /\ Deepest(z, name) < b /\ b <= name /\ b \in Position /\ b \in Nat
    BY <2>1, <2>2, Names DEF Below
  <2>5. ASSUME NEW c \in Cuts, c < b PROVE c <= Deepest(z, name)
    <3>1. c \in Nat
      BY Names
    <3>2. c \notin Below(z, name)
      BY <2>2, <2>4, <2>5, <3>1
    <3> QED
      BY <1>1, <2>4, <2>5, <3>1, <3>2 DEF Below
  <2>6. z < b
    BY <1>1, <2>4
  <2> QED
    BY <2>3, <2>4, <2>5, <2>6 DEF ResponseRecord
<1>3. CASE Below(z, name) = {}
  <2>1. r.kind \in {"positive", "negative"} /\ r.owner \in {0, Deepest(z, name), name}
        /\ r \in [kind : {"positive", "negative"}, owner : {0, Deepest(z, name), name}]
    BY <1>3 DEF Responses
  <2> QED
    BY <1>1, <2>1 DEF ResponseRecord
<1> QED
  BY <1>2, <1>3

-----------------------------------------------------------------------------
(* What an authenticator is given.                                         *)

\* An input of a new zone is added to those that were given.
LEMMA GiveAuthEffect ==
    ASSUME TypeInv, NEW q \in Query, NEW asked \in Position, NEW about \in Position,
           GiveAuth(q, asked, about), Distinct(q), asked \notin InputZones(q)
    PROVE  /\ inputs' \in [Query -> Seq(Position \X Position)]
           /\ \A p \in Query \ {q} : inputs'[p] = inputs[p]
           /\ Distinct(q)'
           /\ InputZones(q)' = IF do[q] = "DO" THEN InputZones(q) \cup {asked} ELSE InputZones(q)
<1> DEFINE s == inputs[q]
           e == <<asked, about>>
           t == Append(s, e)
<1>1. s \in Seq(Position \X Position) /\ e \in Position \X Position
  BY DEF TypeInv
<1>2. CASE do[q] # "DO"
  BY <1>2 DEF TypeInv, GiveAuth, Distinct, InputZones
<1>3. CASE do[q] = "DO"
  <2>1. inputs' = [inputs EXCEPT ![q] = t] /\ t \in Seq(Position \X Position)
    BY <1>1, <1>3 DEF GiveAuth
  <2>2. inputs'[q] = t /\ inputs' \in [Query -> Seq(Position \X Position)]
        /\ \A p \in Query \ {q} : inputs'[p] = inputs[p]
    BY <2>1 DEF TypeInv
  <2>3. /\ Len(s) \in Nat /\ DOMAIN s = 1..Len(s) /\ DOMAIN t = 1..Len(s) + 1
        /\ \A i \in 1..Len(s) : t[i] = s[i]
        /\ t[Len(s) + 1] = e
    BY <1>1
  <2> DEFINE k == Len(s) + 1
  <2>4. DOMAIN t = DOMAIN s \cup {k} /\ k \notin DOMAIN s /\ k \in DOMAIN t
    BY <2>3
  <2>5. \A i \in DOMAIN s : t[i] = s[i]
    BY <2>3
  <2>6. t[k] = e
    BY <2>3
  <2> HIDE DEF k, t, s
  <2>7. e[1] = asked
    OBVIOUS
  <2> HIDE DEF e
  <2>8. \A i \in DOMAIN s : s[i][1] # asked
    BY Zenon DEF InputZones, s
  <2>9. Distinct(q)'
    <3>1. \A i, j \in DOMAIN s : s[i][1] = s[j][1] => i = j
      BY DEF Distinct, s
    <3>2. \A i, j \in DOMAIN t : t[i][1] = t[j][1] => i = j
      BY <2>4, <2>5, <2>6, <2>7, <2>8, <3>1
    <3> QED
      BY <2>2, <3>2 DEF Distinct
  <2>10. InputZones(q)' = InputZones(q) \cup {asked}
    <3>1. {t[i][1] : i \in DOMAIN t} = {s[i][1] : i \in DOMAIN s} \cup {asked}
      BY <2>4, <2>5, <2>6, <2>7
    <3> QED
      BY Zenon, <2>2, <3>1 DEF InputZones, s
  <2> QED
    BY <1>3, <2>2, <2>9, <2>10
<1> QED
  BY <1>2, <1>3

\* A DS query that fails gives no input; either way the zone was asked.
LEMMA LinkEffect ==
    ASSUME TypeInv, NEW q \in Query, NEW asked \in Position, NEW about \in Position,
           LinkDS(q, asked, about), Distinct(q), asked \notin InputZones(q)
    PROVE  /\ inputs' \in [Query -> Seq(Position \X Position)]
           /\ unlinked' \in [Query -> SUBSET Position]
           /\ \A p \in Query \ {q} : inputs'[p] = inputs[p] /\ unlinked'[p] = unlinked[p]
           /\ Distinct(q)'
           /\ InputZones(q)' \subseteq InputZones(q) \cup {asked}
           /\ do[q] = "DO" => Asked(q)' = Asked(q) \cup {asked}
<1>1. CASE GiveAuth(q, asked, about) /\ UNCHANGED unlinked
  <2>1. /\ inputs' \in [Query -> Seq(Position \X Position)]
        /\ \A p \in Query \ {q} : inputs'[p] = inputs[p]
        /\ Distinct(q)'
        /\ InputZones(q)' = IF do[q] = "DO" THEN InputZones(q) \cup {asked} ELSE InputZones(q)
    BY <1>1, GiveAuthEffect
  <2>2. unlinked' = unlinked /\ unlinked' \in [Query -> SUBSET Position]
    BY <1>1 DEF TypeInv
  <2> QED
    BY <2>1, <2>2 DEF Asked
<1>2. CASE unlinked' = [unlinked EXCEPT ![q] = @ \cup {asked}] /\ UNCHANGED inputs
  <2>1. /\ unlinked' \in [Query -> SUBSET Position] /\ unlinked'[q] = unlinked[q] \cup {asked}
        /\ \A p \in Query \ {q} : unlinked'[p] = unlinked[p]
    BY <1>2 DEF TypeInv
  <2>2. InputZones(q)' = InputZones(q) /\ Distinct(q)'
    BY Zenon, <1>2 DEF InputZones, Distinct
  <2>3. inputs' \in [Query -> Seq(Position \X Position)] /\ inputs' = inputs
    BY Zenon, <1>2 DEF TypeInv
  <2> QED
    BY <2>1, <2>2, <2>3 DEF Asked
<1> QED
  BY Zenon, <1>1, <1>2 DEF LinkDS

-----------------------------------------------------------------------------
(* The invariant holds initially, and a step of one query leaves what it    *)
(* says of the others.                                                      *)

LEMMA ResolverInit == Init => ResolverInv
<1> SUFFICES ASSUME Init PROVE ResolverInv
  OBVIOUS
<1> USE Names
<1>1. TypeInv
  <2>1. Zone(0, 0, 0) \in ZoneRecord
    BY DEF Zone, ZoneRecord
  <2>2. store \in [Position -> ZoneRecord \cup {None}] /\ zone \in [Query -> ZoneRecord \cup {None}]
    BY <2>1 DEF Init
  <2>3. soaFailed \in BOOLEAN
    BY Zenon DEF Init
  <2> QED
    BY <2>2, <2>3 DEF Init, TypeInv
<1>2. StoreInv
  BY DEF Init, StoreInv, StoreSound
<1>3. ASSUME NEW q \in Query PROVE QueryInv(q)
  BY DEF Init, QueryInv, WalkInv, CountInv, InputInv, TestedInv, ChainInv, Distinct, InputZones
<1> QED
  BY <1>1, <1>2, <1>3 DEF ResolverInv

\* A step leaves what is recorded of a query as it is.
Same(p) ==
    /\ pc'[p] = pc[p] /\ qname'[p] = qname[p] /\ do'[p] = do[p] /\ at'[p] = at[p]
    /\ zone'[p] = zone[p] /\ counter'[p] = counter[p] /\ response'[p] = response[p]
    /\ inputs'[p] = inputs[p] /\ unlinked'[p] = unlinked[p] /\ (p \in skipped' <=> p \in skipped)

LEMMA QueryKept ==
    ASSUME NEW p \in Query, Same(p), soaFailed => soaFailed', QueryInv(p)
    PROVE  QueryInv(p)'
<1>1. WalkInv(p)'
  BY ZenonT(20) DEF Same, QueryInv, WalkInv, HasZone, Referred
<1>a. CountInv(p)'
  BY Zenon DEF Same, QueryInv, CountInv
<1>2. InputInv(p)'
  BY ZenonT(20) DEF Same, QueryInv, InputInv, Distinct, InputZones
<1>3. TestedInv(p)'
  BY ZenonT(20) DEF Same, QueryInv, TestedInv
<1>4. ChainInv(p)'
  BY DEF Same, QueryInv, ChainInv, Asked, InputZones
<1> QED
  BY <1>1, <1>a, <1>2, <1>3, <1>4 DEF QueryInv

LEMMA OneQueryMoves ==
    ASSUME ResolverInv, NEW q \in Query, TypeInv', StoreInv', QueryInv(q)',
           \A p \in Query \ {q} : Same(p), soaFailed => soaFailed'
    PROVE  ResolverInv'
<1>1. ASSUME NEW p \in Query PROVE QueryInv(p)'
  BY QueryKept DEF ResolverInv
<1> QED
  BY <1>1 DEF ResolverInv

LEMMA StoreKept ==
    ASSUME StoreInv, UNCHANGED store, soaFailed => soaFailed'
    PROVE  StoreInv'
  BY DEF StoreInv, StoreSound

\* Time passes.
LEMMA TickStep ==
    ASSUME ResolverInv, Tick
    PROVE  ResolverInv'
<1>1. TypeInv'
  BY DEF ResolverInv, TypeInv, Tick, session, history
<1>2. StoreInv'
  BY StoreKept DEF ResolverInv, Tick, history
<1>3. ASSUME NEW p \in Query PROVE QueryInv(p)'
  BY QueryKept DEF ResolverInv, Tick, session, history, Same
<1> QED
  BY <1>1, <1>2, <1>3 DEF ResolverInv

\* A new query has no zone and no inputs.
LEMMA BeginStep ==
    ASSUME ResolverInv, NEW q \in Query, NEW name \in QNames, NEW flag \in Flags,
           Begin(q, name, flag)
    PROVE  ResolverInv'
<1> USE DEF Begin, Goto
<1>1. TypeInv'
  BY Names DEF ResolverInv, TypeInv
<1>2. StoreInv'
  BY StoreKept DEF ResolverInv
<1>3. \A p \in Query \ {q} : Same(p)
  BY DEF ResolverInv, TypeInv, Same
<1>4. /\ pc'[q] = "listing" /\ at'[q] = 0 /\ zone'[q] = None /\ counter'[q] = 0
      /\ qname'[q] \in Nat /\ inputs'[q] = <<>>
  BY Names DEF ResolverInv, TypeInv
<1>5. WalkInv(q)' /\ CountInv(q)' /\ InputInv(q)' /\ TestedInv(q)' /\ ChainInv(q)'
  BY <1>4 DEF WalkInv, CountInv, InputInv, TestedInv, ChainInv, Distinct, InputZones
<1> QED
  BY <1>1, <1>2, <1>3, <1>5, OneQueryMoves DEF QueryInv

\* A query gives up, asks in vain or fails: where it was matters no longer.
LEMMA EndStep ==
    ASSUME ResolverInv, NEW q \in Query, GiveUp(q) \/ AskFails(q)
    PROVE  ResolverInv'
<1> USE DEF GiveUp, AskFails, Goto, session, history
<1>1. TypeInv'
  <2>1. counter' \in [Query -> Nat]
    <3>1. counter' = counter \/ counter' = [counter EXCEPT ![q] = @ + 1]
                             \/ counter' = [counter EXCEPT ![q] = @]
      OBVIOUS
    <3>2. counter \in [Query -> Nat]
      BY DEF ResolverInv, TypeInv
    <3>3. counter[q] + 1 \in Nat /\ counter[q] \in Nat
      BY <3>2
    <3> HIDE DEF GiveUp, AskFails
    <3> QED
      BY <3>1, <3>2, <3>3
  <2> QED
    BY Zenon, <2>1 DEF ResolverInv, TypeInv
<1>2. StoreInv'
  BY StoreKept DEF ResolverInv
<1>3. \A p \in Query \ {q} : Same(p)
  BY DEF ResolverInv, TypeInv, Same
<1>4. pc'[q] = "failed" /\ zone'[q] = zone[q] /\ inputs' = inputs /\ do' = do
      /\ unlinked' = unlinked /\ skipped' = skipped /\ soaFailed' = soaFailed
  BY Zenon DEF ResolverInv, TypeInv
<1>5. WalkInv(q)' /\ CountInv(q)' /\ InputInv(q)' /\ TestedInv(q)'
  BY <1>4 DEF ResolverInv, QueryInv, WalkInv, CountInv, InputInv, TestedInv, Distinct, InputZones
<1>6. ChainInv(q)'
  BY <1>4 DEF ResolverInv, QueryInv, ChainInv, Asked, InputZones
<1> QED
  BY <1>1, <1>2, <1>3, <1>5, <1>6, OneQueryMoves DEF QueryInv

-----------------------------------------------------------------------------
(* The loop over the labels, and the questions that it asks.               *)

\* While there are labels left, the current name is the one reached.
LEMMA CurrentName ==
    ASSUME NEW q \in Query, at[q] \in Nat, qname[q] \in Nat
    PROVE  /\ current(q) \in Nat /\ current(q) <= at[q] /\ current(q) <= qname[q]
           /\ current(q) < qname[q] => current(q) = at[q]
           /\ ~last(q) => current(q) = at[q] /\ at[q] < qname[q]
<1>1. Min({at[q], qname[q]}) \in {at[q], qname[q]}
      /\ \A m \in {at[q], qname[q]} : Min({at[q], qname[q]}) <= m
  BY LeastNatural
<1> QED
  BY <1>1 DEF current, last

\* An iteration of the loop counts.
LEMMA Counted ==
    ASSUME TypeInv, NEW q \in Query, Iterates(q)
    PROVE  counter' \in [Query -> Nat] /\ counter'[q] = counter[q] + 1
           /\ \A p \in Query \ {q} : counter'[p] = counter[p]
<1>1. counter \in [Query -> Nat] /\ counter[q] + 1 \in Nat
  BY DEF TypeInv
<1>2. counter' = [counter EXCEPT ![q] = @ + 1]
  BY DEF Iterates
<1> QED
  BY <1>1, <1>2

\* What zones.get finds is the zone of the name.
LEMMA StoreFinds ==
    ASSUME TypeInv, StoreInv, NEW n \in Position, get(n) # None
    PROVE  /\ get(n) = store[n] /\ get(n) \in ZoneRecord /\ get(n).name = n /\ n \in Cuts
           /\ n # 0 => get(n).parent \in Cuts /\ get(n).parent < n
<1>1. get(n) = store[n] /\ store[n] # None
  BY DEF get
<1>2. get(n) \in ZoneRecord
  BY <1>1 DEF TypeInv
<1>3. CASE n = 0
  BY <1>1, <1>2, <1>3, Names DEF StoreInv, StoreSound, Zone
<1>4. CASE n # 0
  BY <1>1, <1>2, <1>4 DEF StoreInv, StoreSound
<1> QED
  BY <1>3, <1>4

\* The root is always found: its pool does not expire.
LEMMA RootFound ==
    ASSUME TypeInv, StoreInv
    PROVE  get(0) # None
<1>1. store[0] = Zone(0, 0, 0) /\ store[0] \in ZoneRecord
  BY Names DEF StoreInv, StoreSound, Zone, ZoneRecord
<1>2. store[0] # None /\ ~Expired(store[0])
  BY <1>1, Names DEF Zone, Expired
<1> QED
  BY <1>2 DEF get

LEMMA ResolveLabelStep ==
    ASSUME ResolverInv, NEW q \in Query, ResolveLabel(q)
    PROVE  ResolverInv'
<1>0. TypeInv /\ QueryInv(q) /\ StoreInv /\ Iterates(q)
  BY DEF ResolverInv, ResolveLabel
<1>a. /\ pc' = [pc EXCEPT ![q] = "asking"] /\ pc[q] = "looping"
      /\ UNCHANGED <<now, store, qname, do, at, zone, response, inputs, unlinked, skipped, soaFailed>>
  BY DEF ResolveLabel, Iterates, Goto, session, history
<1>b. counter' \in [Query -> Nat] /\ counter'[q] = counter[q] + 1
      /\ \A p \in Query \ {q} : counter'[p] = counter[p]
  BY <1>0, Counted
<1>1. TypeInv'
  BY Zenon, <1>0, <1>a, <1>b DEF TypeInv
<1>2. StoreInv'
  BY <1>0, <1>a, StoreKept
<1>3. \A p \in Query \ {q} : Same(p)
  BY <1>0, <1>a, <1>b DEF TypeInv, Same
<1>4. pc'[q] = "asking" /\ counter[q] \in Nat
  BY Zenon, <1>0, <1>a DEF TypeInv
<1>5. WalkInv(q)'
  <2>1. HasZone(q) /\ (at[q] = zone[q].name + 1 \/ (at[q] = zone[q].name /\ counter[q] = 0))
    BY <1>0, <1>a DEF QueryInv, WalkInv
  <2>2. HasZone(q)'
    BY <1>a, <2>1, Zenon DEF HasZone
  <2>3. at'[q] = zone'[q].name + 1 \/ (at'[q] = zone'[q].name /\ counter'[q] = 1)
    BY <1>a, <1>b, <2>1
  <2> QED
    BY SMTT(30), <1>4, <2>2, <2>3 DEF WalkInv
<1>c. CountInv(q)'
  <2>1. counter[q] <= at[q] /\ at[q] \in Int
    BY <1>0, <1>a DEF QueryInv, CountInv, TypeInv
  <2>2. counter'[q] <= at'[q] + 1
    BY <1>4, <1>a, <1>b, <2>1
  <2> QED
    BY Zenon, <1>4, <2>2 DEF CountInv
<1>6. InputInv(q)'
  BY <1>0, <1>4, <1>a, Zenon DEF QueryInv, InputInv, Distinct, InputZones
<1>7. TestedInv(q)'
  BY <1>4 DEF TestedInv
<1>8. ChainInv(q)'
  BY <1>0, <1>4, <1>a, Zenon DEF QueryInv, ChainInv, Asked, InputZones
<1> QED
  BY <1>1, <1>2, <1>3, <1>5, <1>6, <1>7, <1>8, <1>a, <1>c, OneQueryMoves DEF QueryInv

\* A label whose zone is in the store: the walk goes on from that zone, which
\* is the one at the label.
LEMMA SkipLabelStep ==
    ASSUME ResolverInv, NEW q \in Query, SkipLabel(q)
    PROVE  ResolverInv' /\ zone'[q].name = at[q] /\ zone[q].name <= at[q]
<1> DEFINE next == get(current(q))
<1>0. TypeInv /\ QueryInv(q) /\ StoreInv /\ Iterates(q)
  BY DEF ResolverInv, SkipLabel
<1>a. /\ pc[q] = "looping" /\ next # None /\ ~last(q)
      /\ zone' = [zone EXCEPT ![q] = next]
      /\ at' = [at EXCEPT ![q] = @ + 1]
      /\ skipped' = IF next.name = zone[q].name THEN skipped ELSE skipped \cup {q}
      /\ UNCHANGED <<now, store, pc, qname, do, response, inputs, unlinked, soaFailed>>
  BY DEF SkipLabel, Iterates, session
<1>b. counter' \in [Query -> Nat] /\ counter'[q] = counter[q] + 1
      /\ \A p \in Query \ {q} : counter'[p] = counter[p]
  BY <1>0, Counted
<1>c. /\ HasZone(q) /\ zone[q].name \in Nat /\ at[q] \in Nat /\ zone[q].name <= at[q]
      /\ qname[q] \in Nat /\ qname[q] \in Position
  <2>1. HasZone(q) /\ (at[q] = zone[q].name + 1 \/ at[q] = zone[q].name)
    BY <1>0, <1>a DEF QueryInv, WalkInv
  <2>2. zone[q].name \in Nat
    BY Zenon, <2>1, Names DEF HasZone
  <2> QED
    BY SMTT(30), <1>0, <2>1, <2>2, Names DEF TypeInv
<1>d. current(q) = at[q] /\ at[q] < qname[q] /\ at[q] \in Position
  BY SMTT(30), <1>a, <1>c, CurrentName, Names DEF Position
<1>e. next = store[at[q]] /\ next \in ZoneRecord /\ next.name = at[q] /\ at[q] \in Cuts
  BY <1>0, <1>a, <1>d, StoreFinds
<1> HIDE DEF next
<1>1. TypeInv'
  <2>1. at[q] + 1 \in Int
    BY <1>c
  <2> QED
    BY Zenon, <1>0, <1>a, <1>b, <1>e, <2>1 DEF TypeInv
<1>2. StoreInv'
  BY <1>0, <1>a, StoreKept
<1>3. \A p \in Query \ {q} : Same(p)
  BY <1>0, <1>a, <1>b DEF TypeInv, Same
<1>4. pc'[q] = "looping" /\ zone'[q] = next /\ at'[q] = at[q] + 1
  BY Zenon, <1>0, <1>a DEF TypeInv
<1>5. WalkInv(q)'
  <2>1. /\ zone'[q] \in ZoneRecord /\ zone'[q].name = at[q] /\ zone'[q].name \in Cuts
        /\ qname'[q] = qname[q]
    BY Zenon, <1>4, <1>a, <1>e
  <2>2. at[q] <= qname[q]
    BY <1>c, <1>d
  <2>3. HasZone(q)'
    BY Zenon, <2>1, <2>2 DEF HasZone
  <2> QED
    BY Zenon, <1>4, <2>1, <2>3 DEF WalkInv
<1>f. CountInv(q)'
  <2>1. counter[q] <= at[q] /\ counter[q] \in Nat
    BY <1>0, <1>a DEF QueryInv, CountInv, TypeInv
  <2>2. counter'[q] <= at'[q]
    BY <1>4, <1>b, <1>c, <2>1
  <2> QED
    BY Zenon, <1>4, <2>2 DEF CountInv
<1>6. InputInv(q)'
  <2>1. Distinct(q) /\ \A c \in InputZones(q) : c < zone[q].name
    BY <1>0, <1>a DEF QueryInv, InputInv
  <2>2. \A c \in InputZones(q) : c \in Nat
    BY <1>0, Names DEF TypeInv, InputZones
  <2>3. \A c \in InputZones(q) : c < at[q]
    BY <2>1, <2>2, <1>c
  <2>4. inputs'[q] = inputs[q] /\ zone'[q].name = at[q] /\ zone'[q] # None
    BY Zenon, <1>4, <1>a, <1>e, Names
  <2> QED
    BY Zenon, <2>1, <2>3, <2>4 DEF InputInv, Distinct, InputZones
<1>7. TestedInv(q)'
  BY Zenon, <1>4 DEF TestedInv
<1>8. ChainInv(q)'
  BY <1>0, <1>4, <1>a, <1>c, Names DEF QueryInv, ChainInv, Asked, InputZones, HasZone
<1>9. soaFailed => soaFailed'
  BY <1>a
<1>10. ResolverInv'
  BY Zenon, <1>1, <1>2, <1>3, <1>5, <1>6, <1>7, <1>8, <1>9, <1>f, OneQueryMoves DEF QueryInv
<1> QED
  BY Zenon, <1>10, <1>4, <1>c, <1>e

\* The zone answers.  The labels down to the owner of what it answered, if
\* there are any, are tested for zones that were passed over.
LEMMA AskStep ==
    ASSUME ResolverInv, NEW q \in Query, Ask(q)
    PROVE  ResolverInv'
<1>0. TypeInv /\ QueryInv(q) /\ StoreInv /\ pc[q] = "asking"
  BY DEF ResolverInv, Ask
<1>a. PICK r \in Responses(zone[q].name, qname[q]) :
          /\ response' = [response EXCEPT ![q] = r]
          /\ pc' = [pc EXCEPT ![q] = IF gap(q, r.owner) = {} THEN "responded" ELSE "missing"]
  BY Zenon DEF Ask, Goto
<1>b. UNCHANGED <<now, store, qname, do, at, zone, counter, inputs, unlinked, skipped, soaFailed>>
  BY DEF Ask, session, history
<1>c. /\ HasZone(q) /\ zone[q].name \in Cuts /\ zone[q].name <= qname[q]
      /\ zone[q].name \in Nat /\ at[q] \in Nat /\ qname[q] \in Nat /\ qname[q] \in Position
      /\ at[q] = zone[q].name + 1 \/ (at[q] = zone[q].name /\ counter[q] = 1)
  <2>1. HasZone(q) /\ (at[q] = zone[q].name + 1 \/ (at[q] = zone[q].name /\ counter[q] = 1))
    BY <1>0 DEF QueryInv, WalkInv
  <2>2. zone[q].name \in Cuts /\ zone[q].name <= qname[q] /\ zone[q].name \in Nat
    BY Zenon, <2>1, Names DEF HasZone
  <2> QED
    BY SMTT(30), <1>0, <2>1, <2>2, Names DEF TypeInv
<1>d. /\ r \in ResponseRecord /\ r.owner <= qname[q] /\ r.owner \in Nat
      /\ r.kind = "referral" =>
             /\ r.owner \in Cuts /\ zone[q].name < r.owner
             /\ Deepest(zone[q].name, qname[q]) < r.owner
             /\ \A c \in Cuts : c < r.owner => c <= Deepest(zone[q].name, qname[q])
  BY Zenon, <1>c, ResponseFacts, Names DEF ResponseRecord
<1>e. gap(q, r.owner) # {} => at[q] < r.owner
  <2> SUFFICES ASSUME gap(q, r.owner) # {} PROVE at[q] < r.owner
    OBVIOUS
  <2>1. r.owner > current(q)
    BY DEF gap
  <2> QED
    BY SMTT(30), <1>c, <1>d, <2>1, CurrentName
<1>f. ASSUME gap(q, r.owner) = {}, r.kind = "referral" PROVE at[q] = r.owner
  <2>1. ~(r.owner > current(q)) \/ ~(at[q] <= r.owner - 1)
    BY <1>c, <1>d, <1>f DEF gap
  <2>2. current(q) \in Nat /\ current(q) <= at[q]
    BY Zenon, <1>c, CurrentName
  <2>3. r.owner <= at[q]
    BY <1>c, <1>d, <2>1, <2>2
  <2>4. zone[q].name < r.owner
    BY <1>d, <1>f
  <2> QED
    BY SMTT(30), <1>c, <1>d, <2>3, <2>4
<1>1. TypeInv'
  BY Zenon, <1>0, <1>a, <1>b, <1>d DEF TypeInv
<1>2. StoreInv'
  BY <1>0, <1>b, StoreKept
<1>3. \A p \in Query \ {q} : Same(p)
  BY <1>0, <1>a, <1>b DEF TypeInv, Same
<1>4. response'[q] = r /\ pc'[q] = IF gap(q, r.owner) = {} THEN "responded" ELSE "missing"
  BY Zenon, <1>0, <1>a DEF TypeInv
<1>5. Referred(q)' /\ HasZone(q)'
  BY Zenon, <1>4, <1>b, <1>c, <1>d DEF Referred, HasZone
<1>6. WalkInv(q)'
  <2>1. CASE gap(q, r.owner) = {}
    BY Zenon, <2>1, <1>4, <1>5, <1>b, <1>c, <1>d, <1>f DEF WalkInv
  <2>2. CASE gap(q, r.owner) # {}
    <3>1. pc'[q] = "missing" /\ at'[q] < response'[q].owner /\ response'[q].owner <= qname'[q]
      BY Zenon, <2>2, <1>4, <1>b, <1>d, <1>e
    <3>2. zone'[q].name < at'[q] \/ (at'[q] = zone'[q].name /\ counter'[q] = 1)
      BY SMTT(30), <1>b, <1>c
    <3> QED
      BY Zenon, <3>1, <3>2, <1>4, <1>5, <1>d DEF WalkInv
  <2> QED
    BY Zenon, <2>1, <2>2
<1>g. CountInv(q)'
  BY Zenon, <1>0, <1>4, <1>b DEF QueryInv, CountInv
<1>7. InputInv(q)'
  BY ZenonT(10), <1>0, <1>4, <1>b DEF QueryInv, InputInv, Distinct, InputZones
<1>8. TestedInv(q)'
  <2>1. ASSUME NEW c \in Cuts PROVE ~(zone[q].name < c /\ c < at[q])
    BY <1>c, Names
  <2> QED
    BY Zenon, <1>b, <2>1 DEF TestedInv, Hosted
<1>9. ChainInv(q)'
  BY Zenon, <1>0, <1>4, <1>b DEF QueryInv, ChainInv, Asked, InputZones
<1> QED
  BY Zenon, <1>1, <1>2, <1>3, <1>6, <1>7, <1>8, <1>9, <1>b, <1>g, OneQueryMoves DEF QueryInv

-----------------------------------------------------------------------------
(* checkForMissingZones.                                                   *)

\* What holds while the labels of a gap are tested.
LEMMA MissingFacts ==
    ASSUME ResolverInv, NEW q \in Query, pc[q] = "missing"
    PROVE  /\ TypeInv /\ StoreInv /\ QueryInv(q)
           /\ HasZone(q) /\ zone[q].name \in Cuts /\ zone[q].name \in Nat
           /\ zone[q].expires \in Nat
           /\ response[q] \in ResponseRecord /\ response[q].owner \in Nat /\ Referred(q)
           /\ at[q] \in Nat /\ at[q] \in Position /\ qname[q] \in Nat /\ qname[q] \in Position
           /\ at[q] < response[q].owner /\ response[q].owner <= qname[q]
           /\ zone[q].name < at[q] \/ (at[q] = zone[q].name /\ counter[q] = 1)
<1>1. TypeInv /\ StoreInv /\ QueryInv(q)
  BY Zenon DEF ResolverInv
<1>2. /\ HasZone(q) /\ response[q] \in ResponseRecord /\ Referred(q)
      /\ at[q] < response[q].owner /\ response[q].owner <= qname[q]
      /\ zone[q].name < at[q] \/ (at[q] = zone[q].name /\ counter[q] = 1)
  BY <1>1 DEF QueryInv, WalkInv
<1>3. /\ zone[q].name \in Cuts /\ zone[q].name \in Nat /\ zone[q].expires \in Nat
      /\ response[q].owner \in Nat
  BY <1>2, Names DEF HasZone, ZoneRecord, ResponseRecord
<1>4. qname[q] \in Nat /\ qname[q] \in 0..N /\ qname[q] \in Position /\ at[q] \in Int
  BY <1>1, Names DEF TypeInv
<1>5. at[q] \in Nat /\ at[q] \in 0..N
  BY <1>2, <1>3, <1>4, Names
<1> QED
  BY <1>1, <1>2, <1>3, <1>4, <1>5 DEF Position

\* The walk goes to the next label of the gap, or has come to its end.
LEMMA NextLabel ==
    ASSUME ResolverInv, NEW q \in Query, pc[q] = "missing", NextMissing(q)
    PROVE  /\ at' \in [Query -> Int] /\ at'[q] = at[q] + 1
           /\ pc' \in [Query -> {"idle", "listing", "looping", "asking", "missing", "responded",
                                 "answered", "failed", "panic"}]
           /\ pc'[q] \in {"missing", "responded"}
           /\ pc'[q] = "missing" => at[q] + 1 < response[q].owner
           /\ pc'[q] = "responded" => at[q] + 1 = response[q].owner
           /\ \A p \in Query \ {q} : at'[p] = at[p] /\ pc'[p] = pc[p]
<1>1. TypeInv /\ at[q] \in Nat /\ response[q].owner \in Nat /\ at[q] < response[q].owner
  BY Zenon, MissingFacts
<1>2. at' = [at EXCEPT ![q] = at[q] + 1] /\ at[q] + 1 \in Int
  BY <1>1 DEF NextMissing
<1>3. pc' = [pc EXCEPT ![q] = IF at[q] + 1 = response[q].owner THEN "responded" ELSE "missing"]
  BY DEF NextMissing, Goto
<1>4. at' \in [Query -> Int] /\ at'[q] = at[q] + 1 /\ \A p \in Query \ {q} : at'[p] = at[p]
  BY <1>1, <1>2 DEF TypeInv
<1>5. CASE at[q] + 1 = response[q].owner
  BY Zenon, <1>1, <1>3, <1>4, <1>5 DEF TypeInv
<1>6. CASE at[q] + 1 # response[q].owner
  <2>1. at[q] + 1 < response[q].owner
    BY <1>1, <1>6
  <2>2. pc' = [pc EXCEPT ![q] = "missing"] /\ pc'[q] = "missing"
    BY SMTT(30), <1>1, <1>3, <1>6 DEF TypeInv
  <2> QED
    BY <1>1, <1>4, <2>1, <2>2 DEF TypeInv
<1> QED
  BY Zenon, <1>5, <1>6

LEMMA NoZoneMissingStep ==
    ASSUME ResolverInv, NEW q \in Query, NoZoneMissing(q)
    PROVE  ResolverInv'
<1>0. pc[q] = "missing" /\ NextMissing(q)
  BY SMTT(30) DEF NoZoneMissing
<1>a. /\ soaFailed' = (soaFailed \/ at[q] \in Hosted(zone[q].name))
      /\ UNCHANGED <<now, store, qname, do, zone, counter, response, inputs, unlinked, skipped>>
  BY DEF NoZoneMissing, session
<1>b. /\ soaFailed => soaFailed'
      /\ ~soaFailed' => ~soaFailed /\ at[q] \notin Hosted(zone[q].name)
      /\ soaFailed' \in BOOLEAN
  BY <1>a, Zenon
<1>c. /\ TypeInv /\ StoreInv /\ QueryInv(q) /\ HasZone(q) /\ zone[q].name \in Nat
      /\ response[q] \in ResponseRecord /\ response[q].owner \in Nat /\ Referred(q)
      /\ at[q] \in Nat /\ response[q].owner <= qname[q] /\ qname[q] \in Nat
      /\ zone[q].name <= at[q]
  BY SMTT(30), <1>0, MissingFacts
<1>d. /\ at' \in [Query -> Int] /\ at'[q] = at[q] + 1
      /\ pc' \in [Query -> {"idle", "listing", "looping", "asking", "missing", "responded",
                            "answered", "failed", "panic"}]
      /\ pc'[q] \in {"missing", "responded"}
      /\ pc'[q] = "missing" => at[q] + 1 < response[q].owner
      /\ pc'[q] = "responded" => at[q] + 1 = response[q].owner
      /\ \A p \in Query \ {q} : at'[p] = at[p] /\ pc'[p] = pc[p]
  BY SMTT(30), <1>0, NextLabel
<1>1. TypeInv'
  BY <1>a, <1>b, <1>c, <1>d DEF TypeInv
<1>2. StoreInv'
  BY Zenon, <1>a, <1>b, <1>c, StoreKept
<1>3. \A p \in Query \ {q} : Same(p)
  BY Zenon, <1>a, <1>d DEF Same
<1>4. Referred(q)' /\ HasZone(q)'
  BY SMTT(30), <1>a, <1>c DEF Referred, HasZone
<1>5. WalkInv(q)'
  <2>1. zone'[q].name < at'[q]
    BY <1>a, <1>c, <1>d
  <2>2. /\ response'[q] \in ResponseRecord /\ response'[q].owner <= qname'[q]
        /\ pc'[q] = "missing" => at'[q] < response'[q].owner
        /\ pc'[q] = "responded" => at'[q] = response'[q].owner
    BY Zenon, <1>a, <1>c, <1>d
  <2> QED
    BY Zenon, <1>d, <1>4, <2>1, <2>2 DEF WalkInv
<1>e. CountInv(q)'
  <2>1. counter[q] <= at[q] + 1 /\ counter[q] \in Nat
    BY Zenon, <1>0, <1>c DEF QueryInv, CountInv, TypeInv
  <2>2. counter'[q] <= at'[q] + 1
    BY <1>a, <1>c, <1>d, <2>1
  <2> QED
    BY Zenon, <1>d, <2>2 DEF CountInv
<1>6. InputInv(q)'
  <2>1. InputInv(q)
    BY <1>c DEF QueryInv
  <2>2. inputs'[q] = inputs[q] /\ zone'[q] = zone[q]
    BY <1>a
  <2>3. pc[q] \notin {"answered", "failed"}
    BY <1>0
  <2> QED
    BY <2>1, <2>2, <2>3 DEF InputInv, Distinct, InputZones
<1>7. TestedInv(q)'
  <2>1. ASSUME ~soaFailed', NEW c \in Hosted(zone[q].name), zone[q].name < c, c < at[q] + 1
        PROVE  FALSE
    <3>1. c \in Nat
      BY Zenon, Names DEF Hosted
    <3>2. c = at[q] \/ c < at[q]
      BY SMTT(30), <1>c, <2>1, <3>1
    <3> QED
      BY Zenon, <1>0, <1>b, <1>c, <2>1, <3>2 DEF QueryInv, TestedInv
  <2> QED
    BY Zenon, <1>a, <1>d, <2>1 DEF TestedInv
<1>8. ChainInv(q)'
  BY Zenon, <1>0, <1>a, <1>b, <1>c, <1>d DEF QueryInv, ChainInv, Asked, InputZones
<1> QED
  BY SMTT(30), <1>1, <1>2, <1>3, <1>5, <1>6, <1>7, <1>8, <1>b, <1>e, OneQueryMoves DEF QueryInv

\* clone is refused where the list ended.
LEMMA InvalidCloneStep ==
    ASSUME ResolverInv, NEW q \in Query, InvalidClone(q)
    PROVE  ResolverInv'
<1>0. /\ pc[q] = "missing" /\ at[q] <= zone[q].name /\ pc' = [pc EXCEPT ![q] = "panic"]
      /\ UNCHANGED <<now, store, qname, do, at, zone, counter, response, inputs, unlinked, skipped, soaFailed>>
  BY Zenon DEF InvalidClone, Goto, session, history
<1>a. /\ TypeInv /\ StoreInv /\ QueryInv(q) /\ zone[q].name \in Nat /\ at[q] \in Nat
      /\ zone[q].name < at[q] \/ (at[q] = zone[q].name /\ counter[q] = 1)
  BY <1>0, MissingFacts
<1>1. TypeInv'
  BY Zenon, <1>0, <1>a DEF TypeInv
<1>2. StoreInv'
  BY <1>0, <1>a, StoreKept
<1>3. \A p \in Query \ {q} : Same(p)
  BY <1>0, <1>a DEF TypeInv, Same
<1>4. pc'[q] = "panic" /\ at[q] = zone[q].name /\ counter[q] = 1
  BY SMTT(30), <1>0, <1>a DEF TypeInv
<1>5. WalkInv(q)'
  BY Zenon, <1>0, <1>4 DEF WalkInv
<1>6. CountInv(q)' /\ TestedInv(q)'
  BY Zenon, <1>4 DEF CountInv, TestedInv
<1>b. InputInv(q)'
  BY Zenon, <1>0, <1>4, <1>a DEF QueryInv, InputInv, Distinct, InputZones
<1>7. ChainInv(q)'
  BY Zenon, <1>0, <1>4, <1>a DEF QueryInv, ChainInv, Asked, InputZones
<1> QED
  BY Zenon, <1>0, <1>1, <1>2, <1>3, <1>5, <1>6, <1>7, <1>b, OneQueryMoves DEF QueryInv

=============================================================================
