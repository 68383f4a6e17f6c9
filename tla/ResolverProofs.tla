--------------------------- MODULE ResolverProofs ---------------------------
(* Proofs about concurrent queries over the zone store: the steps by which  *)
(* a query finds zones, and what the inductive invariant implies.           *)
EXTENDS ResolverWalkProofs

-----------------------------------------------------------------------------
(* A new zone: a clone of the zone, or the one of a referral.              *)

\* The zone that a query puts into the store is below the one that it has
\* reached, with none in between, and the input is of the latter.
LEMMA NewZone ==
    ASSUME ResolverInv, NEW q \in Query, HasZone(q), pc[q] \in {"missing", "responded"},
           NEW new \in ZoneRecord, new.name \in Cuts, new.parent = zone[q].name,
           zone[q].name < new.name,
           Contiguous /\ ~soaFailed => \A c \in Cuts : ~(zone[q].name < c /\ c < new.name),
           LinkDS(q, zone[q].name, new.name),
           store' = [store EXCEPT ![new.name] = new],
           zone' = [zone EXCEPT ![q] = new],
           UNCHANGED <<do, skipped, soaFailed>>,
           pc'[q] \in {"missing", "responded", "looping"}
    PROVE  /\ store' \in [Position -> ZoneRecord \cup {None}]
           /\ zone' \in [Query -> ZoneRecord \cup {None}] /\ zone'[q] = new
           /\ inputs' \in [Query -> Seq(Position \X Position)]
           /\ unlinked' \in [Query -> SUBSET Position]
           /\ \A p \in Query \ {q} :
                 inputs'[p] = inputs[p] /\ unlinked'[p] = unlinked[p] /\ zone'[p] = zone[p]
           /\ StoreInv' /\ InputInv(q)' /\ ChainInv(q)'
<1>0. TypeInv /\ StoreInv /\ InputInv(q) /\ ChainInv(q)
  BY DEF ResolverInv, QueryInv
<1>a. /\ new.name \in Position /\ new.name \in Nat
      /\ zone[q] \in ZoneRecord /\ zone[q] # None /\ zone[q].name \in Cuts
      /\ zone[q].name \in Position /\ zone[q].name \in Nat
  BY Names DEF HasZone
<1>b. store' \in [Position -> ZoneRecord \cup {None}] /\ zone' \in [Query -> ZoneRecord \cup {None}]
      /\ zone'[q] = new /\ \A p \in Query \ {q} : zone'[p] = zone[p]
  BY <1>0, <1>a DEF TypeInv
<1>c. Distinct(q) /\ \A c \in InputZones(q) : c < zone[q].name /\ c \in Nat
  BY SMTT(30), <1>0, Names DEF InputInv, TypeInv, InputZones
<1>d. zone[q].name \notin InputZones(q)
  BY <1>a, <1>c
<1>e. /\ inputs' \in [Query -> Seq(Position \X Position)]
      /\ unlinked' \in [Query -> SUBSET Position]
      /\ \A p \in Query \ {q} : inputs'[p] = inputs[p] /\ unlinked'[p] = unlinked[p]
      /\ Distinct(q)'
      /\ InputZones(q)' \subseteq InputZones(q) \cup {zone[q].name}
      /\ do[q] = "DO" => Asked(q)' = Asked(q) \cup {zone[q].name}
  BY <1>0, <1>a, <1>c, <1>d, LinkEffect
<1>1. StoreInv'
  <2>1. /\ store'[new.name] = new /\ new.name # 0
        /\ \A p \in Position : p # new.name => store'[p] = store[p]
    BY <1>0, <1>a DEF TypeInv
  <2>2. StoreSound'
    <3>1. store'[0] = Zone(0, 0, 0)
      BY <1>0, <2>1, Names DEF StoreInv, StoreSound
    <3>2. ASSUME NEW p \in Position \ {0}, store'[p] # None
          PROVE  p \in Cuts /\ store'[p].name = p
                 /\ store'[p].parent \in Cuts /\ store'[p].parent < p
      <4>1. CASE p = new.name
        BY <4>1, <1>a, <2>1
      <4>2. CASE p # new.name
        BY <4>2, <1>0, <2>1, <3>2 DEF StoreInv, StoreSound
      <4> QED
        BY <4>1, <4>2
    <3> QED
      BY <3>1, <3>2 DEF StoreSound
  <2>3. ASSUME Contiguous, ~soaFailed', NEW p \in Position \ {0}, store'[p] # None, NEW c \in Cuts
        PROVE  ~(store'[p].parent < c /\ c < p)
    <3>0. ~soaFailed
      BY <2>3
    <3>1. CASE p = new.name
      BY <3>0, <3>1, <2>1, <2>3
    <3>2. CASE p # new.name
      BY <3>0, <3>2, <1>0, <2>1, <2>3 DEF StoreInv
    <3> QED
      BY <3>1, <3>2
  <2> QED
    BY <2>2, <2>3 DEF StoreInv
<1>2. InputInv(q)'
  <2>1. \A c \in InputZones(q)' : c < new.name
    BY SMTT(30), <1>a, <1>c, <1>e
  <2> QED
    BY <1>b, <1>e, <2>1, Names DEF InputInv
<1>3. ChainInv(q)'
  <2> SUFFICES ASSUME Contiguous, do'[q] = "DO", q \notin skipped', ~soaFailed',
                      NEW c \in Cuts, c < new.name
               PROVE  c \in Asked(q)'
    BY <1>b DEF ChainInv
  <2>1. do[q] = "DO" /\ q \notin skipped /\ ~soaFailed
    OBVIOUS
  <2>2. Asked(q)' = Asked(q) \cup {zone[q].name}
    BY <1>e, <2>1
  <2>3. ~(zone[q].name < c) /\ c \in Nat
    BY <2>1, Names
  <2>4. c < zone[q].name \/ c = zone[q].name
    BY SMTT(30), <1>a, <2>3
  <2> QED
    BY SMTT(30), <1>0, <1>a, <2>1, <2>2, <2>4 DEF ChainInv
<1> QED
  BY <1>1, <1>2, <1>3, <1>b, <1>e

\* A clone is filed at its own name, below the zone that it is a clone of.
LEMMA MissingZoneStep ==
    ASSUME ResolverInv, NEW q \in Query, MissingZone(q)
    PROVE  ResolverInv' /\ zone'[q].name >= zone[q].name
<1> DEFINE new == Zone(at[q], zone[q].name, zone[q].expires)
<1>0. /\ pc[q] = "missing" /\ NextMissing(q) /\ at[q] \in Hosted(zone[q].name)
      /\ at[q] > zone[q].name
      /\ UNCHANGED <<now, qname, do, counter, response, skipped, soaFailed>>
  BY DEF MissingZone, session, history
<1>a. /\ TypeInv /\ StoreInv /\ QueryInv(q) /\ HasZone(q) /\ zone[q].name \in Cuts
      /\ zone[q].name \in Nat /\ zone[q].expires \in Nat
      /\ response[q] \in ResponseRecord /\ response[q].owner \in Nat /\ Referred(q)
      /\ at[q] \in Nat /\ response[q].owner <= qname[q] /\ qname[q] \in Nat
      /\ at[q] < response[q].owner
  BY <1>0, MissingFacts
<1>b. /\ at' \in [Query -> Int] /\ at'[q] = at[q] + 1
      /\ pc' \in [Query -> {"idle", "listing", "looping", "asking", "missing", "responded",
                            "answered", "failed", "panic"}]
      /\ pc'[q] \in {"missing", "responded"}
      /\ pc'[q] = "missing" => at[q] + 1 < response[q].owner
      /\ pc'[q] = "responded" => at[q] + 1 = response[q].owner
      /\ \A p \in Query \ {q} : at'[p] = at[p] /\ pc'[p] = pc[p]
  BY <1>0, NextLabel
<1>c. /\ new \in ZoneRecord /\ new.name = at[q] /\ new.parent = zone[q].name
      /\ at[q] \in Cuts /\ at[q] \in Position
  BY <1>0, <1>a, Names DEF Zone, ZoneRecord, Hosted
<1>d. LinkDS(q, zone[q].name, new.name) /\ store' = [store EXCEPT ![new.name] = new]
      /\ zone' = [zone EXCEPT ![q] = new]
  BY DEF MissingZone
<1>e. ASSUME Contiguous, ~soaFailed, NEW c \in Cuts, zone[q].name < c, c < at[q]
      PROVE  FALSE
  <2>1. Servers[c] = Servers[zone[q].name]
    BY <1>0, <1>a, <1>e DEF Contiguous, Hosted
  <2> QED
    BY <1>0, <1>a, <1>e, <2>1 DEF QueryInv, TestedInv, Hosted
<1> HIDE DEF new
<1>f. /\ store' \in [Position -> ZoneRecord \cup {None}]
      /\ zone' \in [Query -> ZoneRecord \cup {None}] /\ zone'[q] = new
      /\ inputs' \in [Query -> Seq(Position \X Position)]
      /\ unlinked' \in [Query -> SUBSET Position]
      /\ \A p \in Query \ {q} :
            inputs'[p] = inputs[p] /\ unlinked'[p] = unlinked[p] /\ zone'[p] = zone[p]
      /\ StoreInv' /\ InputInv(q)' /\ ChainInv(q)'
  BY Zenon, <1>0, <1>a, <1>b, <1>c, <1>d, <1>e, NewZone
<1>1. TypeInv'
  BY Zenon, <1>0, <1>a, <1>b, <1>f DEF TypeInv
<1>2. \A p \in Query \ {q} : Same(p)
  BY SMTT(30), <1>0, <1>b, <1>f DEF Same
<1>3. HasZone(q)' /\ Referred(q)'
  <2>1. HasZone(q)'
    BY SMTT(30), <1>0, <1>a, <1>c, <1>f DEF HasZone
  <2>2. Deepest(at[q], qname[q]) = Deepest(zone[q].name, qname[q])
    BY SMTT(30), <1>0, <1>a, SameServers
  <2> QED
    BY SMTT(30), <1>0, <1>a, <1>c, <1>f, <2>1, <2>2 DEF Referred
<1>4. WalkInv(q)'
  <2>1. zone'[q].name < at'[q]
    BY SMTT(30), <1>a, <1>b, <1>c, <1>f
  <2>2. /\ response'[q] \in ResponseRecord /\ response'[q].owner <= qname'[q]
        /\ pc'[q] = "missing" => at'[q] < response'[q].owner
        /\ pc'[q] = "responded" => at'[q] = response'[q].owner
    BY <1>0, <1>a, <1>b
  <2> QED
    BY SMTT(30), <1>b, <1>3, <2>1, <2>2 DEF WalkInv
<1>g. CountInv(q)'
  <2>1. counter[q] <= at[q] + 1 /\ counter[q] \in Nat
    BY Zenon, <1>0, <1>a DEF QueryInv, CountInv, TypeInv
  <2>2. counter'[q] <= at'[q] + 1
    BY SMTT(30), <1>0, <1>a, <1>b, <2>1
  <2> QED
    BY Zenon, <1>b, <2>2 DEF CountInv
<1>5. TestedInv(q)'
  <2>1. ASSUME NEW c \in Cuts PROVE ~(at[q] < c /\ c < at[q] + 1)
    BY <1>a, Names
  <2> QED
    BY <1>b, <1>c, <1>f, <2>1 DEF TestedInv, Hosted
<1>6. ResolverInv'
  BY <1>0, <1>1, <1>2, <1>4, <1>5, <1>f, <1>g, OneQueryMoves DEF QueryInv
<1> QED
  BY SMTT(30), <1>0, <1>6, <1>a, <1>c, <1>f

\* What holds when there is a response and no label left to test.
LEMMA RespondedFacts ==
    ASSUME ResolverInv, NEW q \in Query, pc[q] = "responded"
    PROVE  /\ TypeInv /\ StoreInv /\ QueryInv(q) /\ HasZone(q)
           /\ zone[q] \in ZoneRecord /\ zone[q].name \in Cuts /\ zone[q].name \in Nat
           /\ zone[q].name \in Position /\ qname[q] \in Nat /\ qname[q] \in Position
           /\ response[q] \in ResponseRecord /\ response[q].owner \in Position
           /\ Referred(q)
           /\ response[q].kind = "referral" => at[q] = response[q].owner /\ at[q] <= qname[q]
<1>1. TypeInv /\ StoreInv /\ QueryInv(q)
  BY DEF ResolverInv
<1>2. /\ HasZone(q) /\ response[q] \in ResponseRecord /\ Referred(q)
      /\ response[q].kind = "referral" => at[q] = response[q].owner /\ at[q] <= qname[q]
  BY <1>1 DEF QueryInv, WalkInv
<1>3. /\ zone[q] \in ZoneRecord /\ zone[q].name \in Cuts /\ zone[q].name \in Nat
      /\ zone[q].name \in Position /\ response[q].owner \in Position
  BY <1>2, Names DEF HasZone, ResponseRecord
<1>4. qname[q] \in Nat /\ qname[q] \in Position
  BY SMTT(30), <1>1, Names DEF TypeInv
<1> QED
  BY <1>1, <1>2, <1>3, <1>4

\* A referral leads to the first zone below those of the servers, and all the
\* labels above it have been tested: no zone is in between.
LEMMA DelegationStep ==
    ASSUME ResolverInv, NEW q \in Query, NEW life \in Lifetimes, processDelegation(q, life)
    PROVE  ResolverInv' /\ zone'[q].name >= zone[q].name
<1> DEFINE new == Zone(response[q].owner, zone[q].name, now + life)
           owner == response[q].owner
<1>0. /\ pc[q] = "responded" /\ response[q].kind = "referral" /\ new.name > zone[q].name
      /\ GiveAuth(q, zone[q].name, new.name) /\ UNCHANGED unlinked
      /\ store' = [store EXCEPT ![new.name] = new]
      /\ zone' = [zone EXCEPT ![q] = new] /\ at' = [at EXCEPT ![q] = @ + 1]
      /\ pc' = [pc EXCEPT ![q] = "looping"]
      /\ UNCHANGED <<now, qname, do, counter, response, skipped, soaFailed>>
  BY DEF processDelegation, Goto, session, history
<1>a. /\ TypeInv /\ StoreInv /\ QueryInv(q) /\ HasZone(q)
      /\ zone[q] \in ZoneRecord /\ zone[q].name \in Cuts /\ zone[q].name \in Nat
      /\ zone[q].name \in Position /\ qname[q] \in Nat /\ qname[q] \in Position
      /\ owner \in Position /\ Referred(q) /\ at[q] = owner /\ at[q] <= qname[q]
  BY SMTT(30), <1>0, RespondedFacts
<1>b. /\ owner \in Cuts /\ owner \in Nat /\ zone[q].name < owner
      /\ Deepest(zone[q].name, qname[q]) < owner
      /\ \A c \in Cuts : c < owner => c <= Deepest(zone[q].name, qname[q])
  BY SMTT(30), <1>0, <1>a, Names DEF Referred
<1>c. new \in ZoneRecord /\ new.name = owner /\ new.parent = zone[q].name
  <2>1. now + life \in Nat
    BY <1>a, Names DEF TypeInv
  <2> QED
    BY <1>a, <2>1 DEF Zone, ZoneRecord
<1>d. ASSUME Contiguous, ~soaFailed, NEW c \in Cuts, zone[q].name < c, c < owner
      PROVE  FALSE
  <2> DEFINE d == Deepest(zone[q].name, qname[q])
  <2>1. zone[q].name <= qname[q]
    BY <1>a DEF HasZone
  <2>2. d \in Hosted(zone[q].name) /\ d \in Cuts /\ d \in Nat /\ c \in Nat
    BY Zenon, <1>a, <2>1, DeepestValue, Names DEF Hosted
  <2>3. c = d \/ c < d
    BY <1>b, <1>d, <2>2
  <2>4. Servers[c] = Servers[zone[q].name]
    BY Zenon, <1>a, <1>d, <2>2, <2>3 DEF Contiguous, Hosted
  <2>5. ~(zone[q].name < c /\ c < at[q])
    BY <1>0, <1>a, <1>d, <2>4 DEF QueryInv, TestedInv, Hosted
  <2> QED
    BY <1>a, <1>d, <2>5
<1>g. LinkDS(q, zone[q].name, new.name)
  BY Zenon, <1>0 DEF LinkDS
<1> HIDE DEF new
<1>e. pc'[q] = "looping" /\ at'[q] = owner + 1 /\ at' \in [Query -> Int]
      /\ \A p \in Query \ {q} : at'[p] = at[p] /\ pc'[p] = pc[p]
  <2>1. at[q] + 1 \in Int /\ at \in [Query -> Int]
    BY SMTT(30), <1>a DEF TypeInv
  <2> QED
    BY <1>0, <1>a, <2>1 DEF TypeInv
<1>f. /\ store' \in [Position -> ZoneRecord \cup {None}]
      /\ zone' \in [Query -> ZoneRecord \cup {None}] /\ zone'[q] = new
      /\ inputs' \in [Query -> Seq(Position \X Position)]
      /\ unlinked' \in [Query -> SUBSET Position]
      /\ \A p \in Query \ {q} :
            inputs'[p] = inputs[p] /\ unlinked'[p] = unlinked[p] /\ zone'[p] = zone[p]
      /\ StoreInv' /\ InputInv(q)' /\ ChainInv(q)'
  BY Zenon, <1>0, <1>a, <1>b, <1>c, <1>d, <1>e, <1>g, NewZone
<1>1. TypeInv'
  BY Zenon, <1>0, <1>a, <1>e, <1>f DEF TypeInv
<1>2. \A p \in Query \ {q} : Same(p)
  BY Zenon, <1>0, <1>e, <1>f DEF Same
<1>3. WalkInv(q)'
  BY Zenon, <1>0, <1>a, <1>b, <1>c, <1>e, <1>f DEF WalkInv, HasZone
<1>h. CountInv(q)'
  <2>1. counter[q] <= at[q] + 1
    BY Zenon, <1>0, <1>a DEF QueryInv, CountInv
  <2>2. counter'[q] <= at'[q]
    BY Zenon, <1>0, <1>a, <1>e, <2>1
  <2> QED
    BY Zenon, <1>e, <2>2 DEF CountInv
<1>4. TestedInv(q)'
  BY Zenon, <1>e DEF TestedInv
<1>5. ResolverInv'
  BY Zenon, <1>0, <1>1, <1>2, <1>3, <1>4, <1>f, <1>h, OneQueryMoves DEF QueryInv
<1> QED
  BY SMTT(30), <1>5, <1>a, <1>b, <1>c, <1>f

\* The end of a query, with an answer or because the zone of a referral
\* cannot be used: the last input is of the zone that it has reached.
LEMMA LastInputStep ==
    ASSUME ResolverInv, NEW q \in Query, DelegationFails(q) \/ Finalise(q)
    PROVE  ResolverInv' /\ zone' = zone
<1>0. /\ pc[q] = "responded" /\ (GiveAuth(q, zone[q].name, response[q].owner)
                                 \/ GiveAuth(q, zone[q].name, qname[q]))
      /\ pc' = [pc EXCEPT ![q] = "failed"] \/ pc' = [pc EXCEPT ![q] = "answered"]
      /\ UNCHANGED <<now, store, qname, do, at, zone, counter, response, unlinked, skipped, soaFailed>>
  BY DEF DelegationFails, Finalise, Goto, session, history
<1>a. /\ TypeInv /\ StoreInv /\ QueryInv(q) /\ HasZone(q)
      /\ zone[q] \in ZoneRecord /\ zone[q].name \in Nat
      /\ zone[q].name \in Position /\ qname[q] \in Position
      /\ response[q].owner \in Position
  BY Zenon, <1>0, RespondedFacts
<1>b. Distinct(q) /\ \A c \in InputZones(q) : c < zone[q].name /\ c \in Nat
  BY SMTT(30), <1>0, <1>a, Names DEF QueryInv, InputInv, TypeInv, InputZones
<1>c. zone[q].name \notin InputZones(q)
  BY <1>a, <1>b
<1>d. /\ inputs' \in [Query -> Seq(Position \X Position)]
      /\ \A p \in Query \ {q} : inputs'[p] = inputs[p]
      /\ Distinct(q)'
      /\ InputZones(q)' = IF do[q] = "DO" THEN InputZones(q) \cup {zone[q].name} ELSE InputZones(q)
  BY <1>0, <1>a, <1>b, <1>c, GiveAuthEffect
<1>e. /\ pc'[q] \in {"answered", "failed"} /\ \A p \in Query \ {q} : pc'[p] = pc[p]
      /\ pc' \in [Query -> {"idle", "listing", "looping", "asking", "missing", "responded",
                            "answered", "failed", "panic"}]
  BY Zenon, <1>0, <1>a DEF TypeInv
<1>1. TypeInv'
  BY <1>0, <1>a, <1>d, <1>e DEF TypeInv
<1>2. StoreInv'
  BY Zenon, <1>0, <1>a, StoreKept
<1>3. \A p \in Query \ {q} : Same(p)
  BY Zenon, <1>0, <1>d, <1>e DEF Same
<1>4. WalkInv(q)'
  BY SMTT(30), <1>0, <1>a, <1>e DEF WalkInv, HasZone
<1>5. InputInv(q)'
  BY Zenon, <1>0, <1>a, <1>d, <1>e, Names DEF InputInv
<1>6. TestedInv(q)'
  BY Zenon, <1>e DEF TestedInv
<1>7. ChainInv(q)'
  BY Zenon, <1>0, <1>a, <1>d, <1>e, Names DEF QueryInv, ChainInv, Asked
<1>f. CountInv(q)'
  BY Zenon, <1>e DEF CountInv
<1>8. ResolverInv'
  BY Zenon, <1>0, <1>1, <1>2, <1>3, <1>4, <1>5, <1>6, <1>7, <1>f, OneQueryMoves DEF QueryInv
<1> QED
  BY Zenon, <1>0, <1>8

-----------------------------------------------------------------------------
(* getZoneList.                                                            *)

\* The list goes on to the next label, or ends at the zone it has reached.
LEMMA Listed ==
    ASSUME TypeInv, NEW q \in Query, pc[q] = "listing", at[q] \in 0..qname[q], counter[q] = 0,
           zone'[q] \in ZoneRecord, zone'[q].name \in Cuts, zone'[q].name <= at[q],
           NextListed(q) \/ Wind(q), UNCHANGED <<qname, counter>>
    PROVE  /\ at' \in [Query -> Int]
           /\ pc' \in [Query -> {"idle", "listing", "looping", "asking", "missing", "responded",
                                 "answered", "failed", "panic"}]
           /\ \A p \in Query \ {q} : at'[p] = at[p] /\ pc'[p] = pc[p]
           /\ pc'[q] \in {"listing", "looping"} /\ WalkInv(q)' /\ CountInv(q)'
<1>0. /\ zone'[q].name \in Nat /\ zone'[q] # None /\ qname[q] \in Nat /\ at[q] \in Nat
      /\ at[q] <= qname[q] /\ zone'[q].name <= qname[q]
  BY SMTT(30), Names DEF TypeInv
<1>1. CASE Wind(q)
  <2>1. pc' = [pc EXCEPT ![q] = "looping"] /\ at' = [at EXCEPT ![q] = zone'[q].name]
    BY SMTT(30), <1>1 DEF Wind, Goto
  <2>2. /\ at' \in [Query -> Int] /\ at'[q] = zone'[q].name
        /\ \A p \in Query \ {q} : at'[p] = at[p]
    BY SMTT(30), <1>0, <2>1 DEF TypeInv
  <2>3. /\ pc' \in [Query -> {"idle", "listing", "looping", "asking", "missing", "responded",
                              "answered", "failed", "panic"}]
        /\ pc'[q] = "looping" /\ \A p \in Query \ {q} : pc'[p] = pc[p]
    BY <2>1 DEF TypeInv
  <2>4. HasZone(q)'
    BY Zenon, <1>0 DEF HasZone
  <2>5. WalkInv(q)'
    BY Zenon, <2>2, <2>3, <2>4 DEF WalkInv
  <2>6. counter'[q] <= at'[q]
    BY SMTT(30), <1>0, <2>2
  <2>7. CountInv(q)'
    BY Zenon, <2>3, <2>6 DEF CountInv
  <2> QED
    BY Zenon, <2>2, <2>3, <2>5, <2>7
<1>2. CASE ~Wind(q)
  <2>1. at[q] # qname[q] /\ at' = [at EXCEPT ![q] = at[q] + 1] /\ pc' = pc
    BY SMTT(30), <1>2 DEF NextListed
  <2>2. at[q] + 1 \in 0..qname[q] /\ at[q] + 1 \in Int /\ zone'[q].name < at[q] + 1
    BY <1>0, <2>1
  <2>3. /\ at' \in [Query -> Int] /\ at'[q] = at[q] + 1
        /\ \A p \in Query \ {q} : at'[p] = at[p]
    BY <2>1, <2>2 DEF TypeInv
  <2>4. HasZone(q)' /\ zone'[q].name < at'[q] /\ at'[q] \in 0..qname'[q]
    BY Zenon, <1>0, <2>2, <2>3 DEF HasZone
  <2>5. WalkInv(q)'
    BY <1>0, <2>1, <2>4 DEF WalkInv
  <2>6. CountInv(q)'
    BY Zenon, <2>1 DEF CountInv
  <2> QED
    BY SMTT(30), <2>1, <2>3, <2>5, <2>6 DEF TypeInv
<1> QED
  BY SMTT(30), <1>1, <1>2

\* The zone of the label joins the list if its parent is the last of the
\* list, and then no zone is between the two.
LEMMA ListZoneStep ==
    ASSUME ResolverInv, NEW q \in Query, ListZone(q)
    PROVE  ResolverInv'
<1> DEFINE z == get(at[q])
<1>0. /\ pc[q] = "listing"
      /\ UNCHANGED <<now, store, qname, do, counter, response, skipped, soaFailed>>
  BY DEF ListZone, session, history
<1>a. TypeInv /\ StoreInv /\ QueryInv(q)
  BY Zenon DEF ResolverInv
<1>b. /\ at[q] \in 0..qname[q] /\ counter[q] = 0
      /\ zone[q] = None => at[q] = 0
      /\ zone[q] # None => HasZone(q) /\ zone[q].name < at[q]
  BY Zenon, <1>0, <1>a DEF QueryInv, WalkInv
<1>c. at[q] \in Nat /\ at[q] \in Position /\ qname[q] \in Nat
  <2>1. qname[q] \in Nat /\ qname[q] \in 0..N
    BY <1>a, Names DEF TypeInv
  <2> QED
    BY <1>b, <2>1, Names DEF Position
<1>d. zone[q] = None => z # None
  BY <1>a, <1>b, RootFound
<1>e. \/ z = None /\ UNCHANGED <<zone, inputs, unlinked>> /\ NextListed(q)
      \/ z # None /\ ~Joins(q, z) /\ UNCHANGED <<zone, inputs, unlinked>> /\ Wind(q)
      \/ /\ z # None /\ Joins(q, z) /\ zone' = [zone EXCEPT ![q] = z]
         /\ IF zone[q] = None THEN UNCHANGED <<inputs, unlinked>>
            ELSE LinkDS(q, zone[q].name, z.name)
         /\ NextListed(q)
  BY Zenon DEF ListZone
<1>f. z # None =>
          /\ z = store[at[q]] /\ z \in ZoneRecord /\ z.name = at[q] /\ at[q] \in Cuts
          /\ at[q] # 0 => z.parent \in Cuts /\ z.parent < at[q]
  BY Zenon, <1>a, <1>c, StoreFinds
<1> HIDE DEF z
<1>1. CASE UNCHANGED <<zone, inputs, unlinked>> /\ (NextListed(q) \/ Wind(q)) /\ zone[q] # None
  <2>1. /\ zone'[q] \in ZoneRecord /\ zone'[q].name \in Cuts /\ zone'[q].name <= at[q]
    BY SMTT(30), <1>1, <1>b, <1>c, Names DEF HasZone
  <2>2. /\ at' \in [Query -> Int]
        /\ pc' \in [Query -> {"idle", "listing", "looping", "asking", "missing", "responded",
                              "answered", "failed", "panic"}]
        /\ \A p \in Query \ {q} : at'[p] = at[p] /\ pc'[p] = pc[p]
        /\ pc'[q] \in {"listing", "looping"} /\ WalkInv(q)' /\ CountInv(q)'
    BY SMTT(30), <1>0, <1>1, <1>a, <1>b, <2>1, Listed
  <2>3. TypeInv'
    BY <1>0, <1>1, <1>a, <2>2 DEF TypeInv
  <2>4. StoreInv'
    BY <1>0, <1>a, StoreKept
  <2>5. \A p \in Query \ {q} : Same(p)
    BY Zenon, <1>0, <1>1, <2>2 DEF Same
  <2>6. InputInv(q)' /\ TestedInv(q)'
    BY SMTT(30), <1>0, <1>1, <1>a, <2>2
       DEF QueryInv, InputInv, TestedInv, Distinct, InputZones
  <2>7. ChainInv(q)'
    BY Zenon, <1>0, <1>1, <1>a, <2>2 DEF QueryInv, ChainInv, Asked, InputZones
  <2> QED
    BY Zenon, <1>0, <2>2, <2>3, <2>4, <2>5, <2>6, <2>7, OneQueryMoves DEF QueryInv
<1>2. CASE /\ z # None /\ Joins(q, z) /\ zone' = [zone EXCEPT ![q] = z]
           /\ IF zone[q] = None THEN UNCHANGED <<inputs, unlinked>>
              ELSE LinkDS(q, zone[q].name, z.name)
           /\ NextListed(q)
  <2>0. zone' \in [Query -> ZoneRecord \cup {None}] /\ zone'[q] = z
        /\ \A p \in Query \ {q} : zone'[p] = zone[p]
    BY <1>2, <1>a, <1>f DEF TypeInv
  <2>1. zone'[q] \in ZoneRecord /\ zone'[q].name \in Cuts /\ zone'[q].name <= at[q]
    BY SMTT(30), <1>2, <1>c, <1>f, <2>0
  <2>2. /\ at' \in [Query -> Int]
        /\ pc' \in [Query -> {"idle", "listing", "looping", "asking", "missing", "responded",
                              "answered", "failed", "panic"}]
        /\ \A p \in Query \ {q} : at'[p] = at[p] /\ pc'[p] = pc[p]
        /\ pc'[q] \in {"listing", "looping"} /\ WalkInv(q)' /\ CountInv(q)'
    BY Zenon, <1>0, <1>2, <1>a, <1>b, <2>1, Listed
  <2>3. Distinct(q) /\ \A c \in InputZones(q) : c \in Nat /\ c < zone[q].name
    BY <1>0, <1>a, Names DEF QueryInv, InputInv, TypeInv, InputZones
  <2>4. /\ inputs' \in [Query -> Seq(Position \X Position)]
        /\ unlinked' \in [Query -> SUBSET Position]
        /\ \A p \in Query \ {q} : inputs'[p] = inputs[p] /\ unlinked'[p] = unlinked[p]
        /\ Distinct(q)'
        /\ \A c \in InputZones(q)' : c < at[q]
        /\ ChainInv(q)'
    <3>1. CASE zone[q] = None
      <4>1. inputs' = inputs /\ unlinked' = unlinked /\ InputZones(q) = {} /\ at[q] = 0
        BY SMTT(30), <1>2, <1>a, <1>b, <3>1 DEF QueryInv, InputInv
      <4>2. InputZones(q)' = {} /\ Distinct(q)'
        BY Zenon, <2>3, <4>1 DEF InputZones, Distinct
      <4>3. \A c \in Cuts : ~(c < 0)
        BY Names
      <4> QED
        BY Zenon, <1>2, <1>a, <1>f, <2>0, <2>2, <4>1, <4>2, <4>3 DEF ChainInv, TypeInv
    <3>2. CASE zone[q] # None
      <4>1. /\ LinkDS(q, zone[q].name, z.name) /\ z.parent = zone[q].name
            /\ zone[q].name \in Nat /\ zone[q].name \in Position /\ zone[q].name < at[q]
            /\ at[q] # 0 /\ store[at[q]] # None /\ z = store[at[q]]
        BY SMTT(30), <1>2, <1>b, <1>c, <1>f, <3>2, Names DEF Joins, HasZone
      <4>2. zone[q].name \notin InputZones(q)
        BY SMTT(30), <2>3, <4>1
      <4>3. /\ inputs' \in [Query -> Seq(Position \X Position)]
            /\ unlinked' \in [Query -> SUBSET Position]
            /\ \A p \in Query \ {q} : inputs'[p] = inputs[p] /\ unlinked'[p] = unlinked[p]
            /\ Distinct(q)'
            /\ InputZones(q)' \subseteq InputZones(q) \cup {zone[q].name}
            /\ do[q] = "DO" => Asked(q)' = Asked(q) \cup {zone[q].name}
        BY Zenon, <1>2, <1>a, <1>c, <1>f, <2>3, <4>1, <4>2, LinkEffect
      <4>4. \A c \in InputZones(q)' : c < at[q]
        BY <1>c, <2>3, <4>1, <4>3
      <4>5. ChainInv(q)'
        <5> SUFFICES ASSUME Contiguous, do'[q] = "DO", q \notin skipped', ~soaFailed',
                            NEW c \in Cuts, c < at[q]
                     PROVE  c \in Asked(q)'
          BY <1>2, <1>f, <2>0, <2>2 DEF ChainInv
        <5>1. do[q] = "DO" /\ q \notin skipped /\ ~soaFailed
          BY Zenon, <1>0
        <5>2. Asked(q)' = Asked(q) \cup {zone[q].name}
          BY <4>3, <5>1
        <5>3. ~(zone[q].name < c) /\ c \in Nat
          BY Zenon, <1>a, <1>c, <4>1, <5>1, Names DEF StoreInv
        <5>4. c < zone[q].name \/ c = zone[q].name
          BY <4>1, <5>3
        <5> QED
          BY Zenon, <1>a, <3>2, <5>1, <5>2, <5>4 DEF QueryInv, ChainInv
      <4> QED
        BY Zenon, <4>3, <4>4, <4>5
    <3> QED
      BY <3>1, <3>2
  <2>5. TypeInv'
    BY SMTT(30), <1>0, <1>a, <2>0, <2>2, <2>4 DEF TypeInv
  <2>6. StoreInv'
    BY <1>0, <1>a, StoreKept
  <2>7. \A p \in Query \ {q} : Same(p)
    BY Zenon, <1>0, <2>0, <2>2, <2>4 DEF Same
  <2>8. InputInv(q)' /\ TestedInv(q)'
    BY <1>2, <1>f, <2>0, <2>2, <2>4, Names DEF InputInv, TestedInv
  <2> QED
    BY Zenon, <1>0, <2>2, <2>4, <2>5, <2>6, <2>7, <2>8, OneQueryMoves DEF QueryInv
<1>3. zone[q] = None /\ z # None => Joins(q, z)
  BY DEF Joins
<1> QED
  BY <1>1, <1>2, <1>3, <1>d, <1>e

-----------------------------------------------------------------------------
(* The theorems.                                                           *)

\* Every step of every query, and of the clock, preserves the invariant.
LEMMA ResolverStep == ResolverInv /\ [Next]_vars => ResolverInv'
<1> SUFFICES ASSUME ResolverInv, [Next]_vars PROVE ResolverInv'
  OBVIOUS
<1>1. CASE Tick
  BY <1>1, TickStep
<1>2. ASSUME NEW q \in Query, Step(q) PROVE ResolverInv'
  <2>1. CASE ListZone(q)
    BY <2>1, ListZoneStep
  <2>2. CASE GiveUp(q) \/ AskFails(q)
    BY <2>2, EndStep
  <2>3. CASE SkipLabel(q)
    BY <2>3, SkipLabelStep
  <2>4. CASE ResolveLabel(q)
    BY <2>4, ResolveLabelStep
  <2>5. CASE Ask(q)
    BY <2>5, AskStep
  <2>6. CASE NoZoneMissing(q)
    BY <2>6, NoZoneMissingStep
  <2>7. CASE MissingZone(q)
    BY <2>7, MissingZoneStep
  <2>8. CASE InvalidClone(q)
    BY <2>8, InvalidCloneStep
  <2>9. CASE \E life \in Lifetimes : processDelegation(q, life)
    BY <2>9, DelegationStep
  <2>10. CASE DelegationFails(q) \/ Finalise(q)
    BY <2>10, LastInputStep
  <2> QED
    BY SMTT(30), <1>2, <2>1, <2>2, <2>3, <2>4, <2>5, <2>6, <2>7, <2>8, <2>9, <2>10 DEF Step
<1>3. ASSUME NEW q \in Query, NEW name \in QNames, NEW flag \in Flags, Begin(q, name, flag)
      PROVE  ResolverInv'
  BY <1>3, BeginStep
<1>4. CASE UNCHANGED vars
  <2>1. TypeInv'
    BY <1>4 DEF ResolverInv, TypeInv, vars, session, history
  <2>2. StoreInv'
    BY Zenon, <1>4, StoreKept DEF ResolverInv, vars, history
  <2>3. ASSUME NEW p \in Query PROVE QueryInv(p)'
    BY <1>4, QueryKept DEF ResolverInv, vars, session, history, Same
  <2> QED
    BY <2>1, <2>2, <2>3 DEF ResolverInv
<1> QED
  BY <1>1, <1>2, <1>3, <1>4 DEF Next

LEMMA ResolverHolds == Spec => []ResolverInv
  BY ResolverInit, ResolverStep, PTL DEF Spec

\* However the queries interleave, the store that they share has each zone
\* under its name and below its parent, and the root's never expires: what
\* zones.get, zones.add and zoneList rely on.
THEOREM ZoneStoreSound == Spec => []StoreSound
<1>1. ResolverInv => StoreSound
  BY DEF ResolverInv, StoreInv
<1> QED
  BY <1>1, ResolverHolds, PTL

\* No query gives its authenticator two inputs of one zone, so the error
\* "more than one response for any given zone" never comes from exchange.
THEOREM AuthenticatorInputsDistinct == Spec => []OneInputPerZone
<1>1. ResolverInv => OneInputPerZone
  BY Zenon DEF ResolverInv, QueryInv, InputInv, Distinct, OneInputPerZone
<1> QED
  BY <1>1, ResolverHolds, PTL

\* The panic of clone is confined to the first iteration of the loop, at the
\* zone where the list of known zones ended.
THEOREM PanicConfined == Spec => []PanicOnlyAtFirstLabel
<1>1. ResolverInv => PanicOnlyAtFirstLabel
  BY Zenon DEF ResolverInv, QueryInv, WalkInv, PanicOnlyAtFirstLabel
<1> QED
  BY <1>1, ResolverHolds, PTL

\* A walk never comes to the end of the labels, and never takes more
\* iterations of the loop than labels: exchange does not return
\* ErrUnableToResolveAnswer, and spends of its budget what its name is long.
THEOREM LabelsNeverRunOut == Spec => []LabelsSuffice
<1>1. ResolverInv => LabelsSuffice
  <2> SUFFICES ASSUME ResolverInv, NEW q \in Query, pc[q] = "looping"
               PROVE  more(q) /\ counter[q] <= at[q]
    BY Zenon DEF LabelsSuffice
  <2>1. HasZone(q) /\ (at[q] = zone[q].name + 1 \/ at[q] = zone[q].name)
        /\ counter[q] <= at[q] /\ qname[q] \in Position
    BY Zenon DEF ResolverInv, QueryInv, WalkInv, CountInv, TypeInv
  <2>2. zone[q].name \in Nat /\ zone[q].name <= qname[q] /\ qname[q] \in Nat
    BY Zenon, <2>1, Names DEF HasZone
  <2> QED
    BY <2>1, <2>2 DEF more
<1> QED
  BY <1>1, ResolverHolds, PTL

\* The inputs of an answered query cover every zone down to the one that
\* answered, but for the zones whose DS query failed, unless one of the other
\* four excuses applies.
THEOREM ChainComplete == Spec => []GapExcused
<1>1. ResolverInv => GapExcused
  <2> SUFFICES ASSUME ResolverInv, NEW q \in Query, Contiguous, pc[q] = "answered",
                      do[q] = "DO", q \notin skipped, ~soaFailed,
                      NEW z \in Cuts, z <= zone[q].name, z \notin unlinked[q]
               PROVE  \E i \in DOMAIN inputs[q] : inputs[q][i][1] = z
    BY Zenon DEF GapExcused, Covered
  <2>1. HasZone(q) /\ ChainInv(q)
    BY DEF ResolverInv, QueryInv, WalkInv
  <2>2. zone[q] # None /\ zone[q].name \in Nat /\ z \in Nat
    BY <2>1, Names DEF HasZone
  <2>3. z < zone[q].name \/ z = zone[q].name
    BY <2>2
  <2>4. z \in InputZones(q)
    BY Zenon, <2>1, <2>2, <2>3 DEF ChainInv, Asked
  <2> QED
    BY <2>4 DEF InputZones
<1> QED
  BY <1>1, ResolverHolds, PTL

\* A step of a query leads it down or leaves it where it is.
Descends ==
    \A q \in Query : pc[q] \in {"looping", "missing", "responded"} => zone'[q].name >= zone[q].name

LEMMA DescendsStep == ResolverInv /\ [Next]_vars => Descends
<1> SUFFICES ASSUME ResolverInv, [Next]_vars, NEW q \in Query,
                    pc[q] \in {"looping", "missing", "responded"}
             PROVE  zone'[q].name >= zone[q].name
  BY Zenon DEF Descends
<1>0. zone[q].name \in Nat /\ zone \in [Query -> ZoneRecord \cup {None}]
  <2>1. HasZone(q) /\ TypeInv
    BY Zenon DEF ResolverInv, QueryInv, WalkInv
  <2> QED
    BY Zenon, <2>1, Names DEF HasZone, TypeInv
<1>1. CASE zone'[q] = zone[q]
  BY SMTT(30), <1>0, <1>1
<1>2. CASE SkipLabel(q)
  <2>1. zone'[q].name = at[q] /\ zone[q].name <= at[q] /\ at[q] \in Int
    BY <1>2, SkipLabelStep DEF ResolverInv, TypeInv
  <2> QED
    BY SMTT(30), <1>0, <2>1
<1>3. CASE MissingZone(q)
  BY <1>3, MissingZoneStep
<1>4. CASE \E life \in Lifetimes : processDelegation(q, life)
  BY Zenon, <1>4, DelegationStep
<1>5. ASSUME NEW p \in Query, Step(p), ~SkipLabel(q), ~MissingZone(q),
             ~ \E life \in Lifetimes : processDelegation(q, life)
      PROVE  zone'[q] = zone[q]
  <2>1. CASE p # q
    BY Zenon, <1>0, <1>5, <2>1
       DEF Step, ListZone, GiveUp, SkipLabel, ResolveLabel, AskFails, Ask, NoZoneMissing,
           MissingZone, InvalidClone, processDelegation, DelegationFails, Finalise
  <2>2. CASE p = q
    BY Zenon, <1>0, <1>5, <2>2
       DEF Step, ListZone, GiveUp, ResolveLabel, AskFails, Ask, NoZoneMissing,
           InvalidClone, DelegationFails, Finalise
  <2> QED
    BY SMTT(30), <2>1, <2>2
<1>6. ASSUME NEW p \in Query, NEW name \in QNames, NEW flag \in Flags, Begin(p, name, flag)
      PROVE  zone'[q] = zone[q]
  BY Zenon, <1>0, <1>6 DEF Begin
<1>7. CASE Tick \/ UNCHANGED vars
  BY <1>1, <1>7 DEF Tick, vars
<1> QED
  BY <1>1, <1>2, <1>3, <1>4, <1>5, <1>6, <1>7 DEF Next

\* Where the walk is, as an invariant: at the label of its zone or the next.
WalkPlaces ==
    \A q \in Query : pc[q] \in {"looping", "asking"} =>
        zone[q].name <= at[q] /\ zone[q].name <= qname[q]

\* The walk of a query goes down the ancestors of its name, whatever other
\* queries put into the store or time takes from it.
THEOREM WalkGoesDown == Spec => WalkDescends
<1>1. ResolverInv => WalkPlaces
  <2> SUFFICES ASSUME ResolverInv, NEW q \in Query, pc[q] \in {"looping", "asking"}
               PROVE  zone[q].name <= at[q] /\ zone[q].name <= qname[q]
    BY Zenon DEF WalkPlaces
  <2>1. HasZone(q) /\ (at[q] = zone[q].name + 1 \/ at[q] = zone[q].name)
    BY DEF ResolverInv, QueryInv, WalkInv
  <2> QED
    BY <2>1, Names DEF HasZone
<1>2. ResolverInv /\ [Next]_vars => [Descends]_vars
  BY DescendsStep
<1>3. Spec => []WalkPlaces
  BY <1>1, ResolverHolds, PTL
<1>4. Spec => [][Descends]_vars
  BY <1>2, ResolverHolds, PTL DEF Spec
<1> QED
  BY <1>3, <1>4, PTL DEF WalkDescends, WalkPlaces, Descends

=============================================================================
