------------------------ MODULE NameserverPoolProofs ------------------------
(* Proofs about the nameserver pool of a zone, for any number of goroutines *)
(* that use it, any delegation and any answers to the lookups of enrichment.*)
EXTENDS NameserverPool, FiniteSetTheorems, WellFoundedInduction, TLAPS

\* A set of natural numbers that is not empty has a least member: the smallest
\* TTL of the records of a pool is that of one of them.
LEMMA LeastNatural ==
    ASSUME NEW S, S \subseteq Nat, S # {}
    PROVE  Min(S) \in S /\ \A m \in S : Min(S) <= m
<1>1. PICK x \in S : \A y \in S : <<y, x>> \notin OpToRel(<, Nat)
  BY NatLessThanWellFounded, WFMin, Zenon
<1>2. ASSUME NEW y \in S PROVE x <= y
  <2>1. x \in Nat /\ y \in Nat
    OBVIOUS
  <2>2. ~ (y < x)
    BY <1>1, <2>1, Zenon DEF OpToRel
  <2> QED
    BY <2>1, <2>2
<1> QED
  BY Zenon, <1>2 DEF Min

(***************************************************************************)
(* The numbers that enrichment computes.                                   *)
(***************************************************************************)

\* The records of a delegation or of an answer that the pool uses are a
\* finite set of address records, so their number is a natural number.
LEMMA RecordsCount ==
    ASSUME NEW recs \in Glues \cup Answers, NEW names, NEW f
    PROVE  /\ AddressesFor(names, recs) \subseteq AddressRecord
           /\ Cardinality(OfFamily(f, AddressesFor(names, recs))) \in Nat
<1>1. recs \subseteq AddressRecord /\ IsFiniteSet(recs)
  BY PoolAssumption
<1>2. OfFamily(f, AddressesFor(names, recs)) \subseteq recs
  BY DEF OfFamily, AddressesFor
<1> QED
  BY <1>1, <1>2, FS_Subset, FS_CardinalityType DEF AddressesFor

\* The lifetime given to a pool is bounded by MaxAllowedTTL.
LEMMA LeastTTLBounded ==
    ASSUME NEW recs, recs \subseteq AddressRecord, NEW bound \in Nat
    PROVE  LeastTTL(recs, bound) \in Nat /\ LeastTTL(recs, bound) <= bound
<1> DEFINE S == {r.ttl : r \in recs} \cup {bound}
<1>1. S \subseteq Nat /\ S # {} /\ bound \in S
  BY DEF AddressRecord
<1>2. Min(S) \in S /\ \A m \in S : Min(S) <= m
  BY Zenon, <1>1, LeastNatural
<1> QED
  BY <1>1, <1>2 DEF LeastTTL

(***************************************************************************)
(* The inductive invariant.  The counters are monotone once the zone is    *)
(* returned and trail the slices; what a reader has learnt of them stays   *)
(* true; the zone is returned only with a counter above zero.              *)
(***************************************************************************)

CountsTrail ==
    /\ \A f \in Family : count[f] <= servers[f]
    /\ ~Locked => count = servers
    /\ enricher.pc = "count6" => count["ipv4"] = servers["ipv4"]

CreationOrder ==
    /\ waiter.pc = "off" => enricher.pc = "off"
    /\ waiter.pc \in {"waiting", "received"} /\ waiter.caller = "createZone" => zone = "none"
    /\ zone # "returned" => \A r \in Reader : rpc[r] = "idle" /\ \A f \in Family : ~has[r][f]
    /\ zone = "returned" => count["ipv4"] > 0 \/ count["ipv6"] > 0

ReaderKnows(r) ==
    /\ rpc[r] \notin {"panic", "nopool"}
    /\ \A f \in Family : has[r][f] => count[f] > 0
    /\ rpc[r] = "has6" => has[r]["ipv4"] \/ count["ipv6"] > 0
    /\ rpc[r] \notin {"idle", "has6"} => has[r]["ipv4"] \/ has[r]["ipv6"]
    /\ attempt[r] = 2 => count[family[r]] > 0
    /\ rpc[r] \in {"load", "mod"} => count[family[r]] > 0
    /\ rpc[r] \in {"store", "fetch"} => idx[r] < count[family[r]]
    /\ attempt[r] = 2 /\ rpc[r] = "answered" => response[r] # None
    /\ rpc[r] \in {"idle", "has6", "choose"} => attempt[r] = 1

PoolInv ==
    /\ TypeOK
    /\ ExpiryBounded
    /\ CountsTrail
    /\ CreationOrder
    /\ \A r \in Reader : ReaderKnows(r)

\* The pool starts empty and unshared.
LEMMA PoolInit == Init => PoolInv
<1> SUFFICES ASSUME Init PROVE PoolInv
  OBVIOUS
<1> USE DEF Init, Family
<1>1. TypeOK
  <2>1. PoolOK
    BY DEF PoolOK
  <2>2. CreationOK
    BY DEF CreationOK
  <2>3. ReadersOK
    BY DEF ReadersOK
  <2> QED
    BY Zenon, <2>1, <2>2, <2>3 DEF TypeOK
<1>2. ExpiryBounded
  BY PoolAssumption DEF ExpiryBounded
<1>3. CountsTrail /\ CreationOrder
  BY DEF CountsTrail, CreationOrder, Locked
<1>4. \A r \in Reader : ReaderKnows(r)
  BY SMTT(30) DEF ReaderKnows
<1> QED
  BY <1>1, <1>2, <1>3, <1>4 DEF PoolInv

(***************************************************************************)
(* Steps of the readers: the pool itself stays as it is.                   *)
(***************************************************************************)

\* A step of one reader changes the locals of that reader only, with values
\* of the right types.
LEMMA ReaderTypes ==
    ASSUME TypeOK, NEW r \in Reader, Exchange(r), ReaderKnows(r)
    PROVE  /\ ReadersOK'
           /\ next' \in [Family -> Nat]
           /\ UNCHANGED <<now, ipv6Available, pool, creation>>
           /\ \A q \in Reader \ {r} :
                 /\ rpc'[q] = rpc[q] /\ has'[q] = has[q] /\ family'[q] = family[q]
                 /\ attempt'[q] = attempt[q] /\ idx'[q] = idx[q] /\ response'[q] = response[q]
<1> USE DEF TypeOK, PoolOK, ReadersOK, Family, pool, creation
<1>1. CASE HasIPv4(r)
  BY <1>1 DEF HasIPv4, Step
<1>2. CASE HasIPv6(r)
  BY <1>2 DEF HasIPv6, Step
<1>3. CASE ChooseFamily(r)
  BY <1>3 DEF ChooseFamily, Step
<1>4. CASE GetServer(r)
  BY <1>4 DEF GetServer, Step
<1>5. CASE LoadNext(r)
  BY <1>5 DEF LoadNext, Step
<1>6. CASE Modulo(r)
  <2>1. count[family[r]] > 0
    BY <1>6 DEF Modulo, Step, ReaderKnows
  <2>2. loaded[r] % count[family[r]] \in Nat
    BY <2>1
  <2> QED
    BY <1>6, <2>2 DEF Modulo, Step
<1>7. CASE StoreNext(r)
  BY <1>7 DEF StoreNext, Step
<1>8. CASE FetchServer(r)
  BY <1>8 DEF FetchServer, Step
<1>9. CASE Ask(r)
  BY <1>9 DEF Ask, Step, NameserverExchange, Outcome
<1>10. CASE Retry(r)
  BY <1>10 DEF Retry, Step
<1>11. CASE Finish(r)
  BY SMTT(30), <1>11 DEF Finish, Step
<1> QED
  BY Zenon, <1>1, <1>2, <1>3, <1>4, <1>5, <1>6, <1>7, <1>8, <1>9, <1>10, <1>11 DEF Exchange

\* What the stepping reader knows of the pool is true after its step.
LEMMA ReaderKnowledge ==
    ASSUME PoolInv, NEW r \in Reader, Exchange(r)
    PROVE  ReaderKnows(r)'
<1>1. /\ rpc \in [Reader -> {"idle", "has6", "choose", "get", "load", "mod", "store", "fetch",
                             "ask", "answered", "nopool", "panic"}]
      /\ has \in [Reader -> [Family -> BOOLEAN]]
      /\ family \in [Reader -> Family]
      /\ attempt \in [Reader -> 1..2]
      /\ loaded \in [Reader -> Nat]
      /\ idx \in [Reader -> Nat]
      /\ response \in [Reader -> Outcome \cup {None}]
      /\ count \in [Family -> Nat] /\ servers \in [Family -> Nat]
  BY DEF PoolInv, TypeOK, PoolOK, ReadersOK
<1>2. TypeOK /\ ReaderKnows(r)
  BY DEF PoolInv
<1>3. count' = count
  <2>1. UNCHANGED pool
    BY <1>2, ReaderTypes
  <2> QED
    BY <2>1 DEF pool
<1> USE <1>1, <1>2, <1>3 DEF ReaderKnows, Family, Step
<1>4. CASE HasIPv4(r)
  <2>1. count["ipv4"] > 0 \/ count["ipv6"] > 0
    BY <1>4 DEF HasIPv4, PoolInv, CreationOrder
  <2> QED
    BY Zenon, <1>4, <2>1 DEF HasIPv4
<1>5. CASE HasIPv6(r)
  BY Zenon, <1>5 DEF HasIPv6
<1>6. CASE ChooseFamily(r)
  BY <1>6 DEF ChooseFamily
<1>7. CASE GetServer(r)
  BY <1>7 DEF GetServer
<1>8. CASE LoadNext(r)
  BY <1>8 DEF LoadNext
<1>9. CASE Modulo(r)
  <2>1. count[family[r]] > 0
    BY <1>9 DEF Modulo
  <2>2. loaded[r] % count[family[r]] < count[family[r]]
    BY <2>1
  <2> QED
    BY <1>9, <2>1, <2>2 DEF Modulo
<1>10. CASE StoreNext(r)
  BY <1>10 DEF StoreNext
<1>11. CASE FetchServer(r)
  <2>1. idx[r] < servers[family[r]]
    BY <1>11 DEF FetchServer, PoolInv, CountsTrail
  <2> QED
    BY <1>11, <2>1 DEF FetchServer
<1>12. CASE Ask(r)
  BY <1>12, PoolAssumption DEF Ask, NameserverExchange, Outcome
<1>13. CASE Retry(r)
  BY <1>13 DEF Retry
<1>14. CASE Finish(r)
  BY <1>14, PoolAssumption DEF Finish
<1> QED
  BY Zenon, <1>4, <1>5, <1>6, <1>7, <1>8, <1>9, <1>10, <1>11, <1>12, <1>13, <1>14 DEF Exchange

\* Every step of a reader preserves the inductive invariant.
LEMMA ReaderStep ==
    ASSUME PoolInv, NEW r \in Reader, Exchange(r)
    PROVE  PoolInv'
<1>1. /\ ReadersOK'
      /\ next' \in [Family -> Nat]
      /\ UNCHANGED <<now, ipv6Available, pool, creation>>
      /\ \A q \in Reader \ {r} :
            /\ rpc'[q] = rpc[q] /\ has'[q] = has[q] /\ family'[q] = family[q]
            /\ attempt'[q] = attempt[q] /\ idx'[q] = idx[q] /\ response'[q] = response[q]
  BY ReaderTypes DEF PoolInv
<1>2. TypeOK'
  BY <1>1 DEF PoolInv, TypeOK, PoolOK, CreationOK, pool, creation
<1>3. ExpiryBounded' /\ CountsTrail'
  BY <1>1 DEF PoolInv, ExpiryBounded, CountsTrail, Locked, pool, creation
<1>4. zone = "returned"
  <2>1. CASE HasIPv4(r)
    BY <2>1 DEF HasIPv4
  <2>2. CASE ~HasIPv4(r)
    <3>1. rpc[r] # "idle"
      BY Zenon, <2>2 DEF Exchange, HasIPv6, ChooseFamily, GetServer, LoadNext, Modulo, StoreNext,
                  FetchServer, Ask, Retry, Finish, Step
    <3> QED
      BY <3>1 DEF PoolInv, CreationOrder
  <2> QED
    BY <2>1, <2>2
<1>5. CreationOrder'
  BY <1>1, <1>4 DEF PoolInv, CreationOrder, pool, creation
<1>6. ASSUME NEW q \in Reader \ {r}
      PROVE  ReaderKnows(q)'
  <2>1. ReaderKnows(q)
    BY <1>6 DEF PoolInv
  <2>2. /\ rpc'[q] = rpc[q] /\ has'[q] = has[q] /\ family'[q] = family[q]
        /\ attempt'[q] = attempt[q] /\ idx'[q] = idx[q] /\ response'[q] = response[q]
    BY <1>1, <1>6
  <2>3. count' = count
    BY <1>1 DEF pool
  <2> QED
    BY <2>1, <2>2, <2>3 DEF ReaderKnows
<1>7. \A q \in Reader : ReaderKnows(q)'
  BY <1>6, ReaderKnowledge
<1> QED
  BY <1>2, <1>3, <1>5, <1>7 DEF PoolInv

(***************************************************************************)
(* Steps of the creation and of the enrichment: the readers stay where     *)
(* they are, and the counters do not fall under them.                      *)
(***************************************************************************)

\* Readers are not disturbed by counters that grow.
LEMMA ReadersStay ==
    ASSUME PoolInv, UNCHANGED readers, count' \in [Family -> Nat],
           \A f \in Family : count'[f] >= count[f]
    PROVE  \A r \in Reader : ReaderKnows(r)'
<1>1. /\ count \in [Family -> Nat]
      /\ family \in [Reader -> Family]
      /\ idx \in [Reader -> Nat]
  BY DEF PoolInv, TypeOK, PoolOK, ReadersOK
<1> QED
  BY <1>1 DEF PoolInv, ReaderKnows, readers, Family

\* createZone: the pool is made while nobody reads it.
LEMMA CreateStep ==
    ASSUME PoolInv, NEW names \in NameserverSets, NEW ttl \in TTLs, NEW extra \in Glues,
           CreateZone(names, ttl, extra)
    PROVE  PoolInv'
<1> DEFINE glue    == AddressesFor(names, extra)
           missing == {h \in names : AddressesFor({h}, extra) = {}}
           life    == LeastTTL(glue, Min({ttl, MaxAllowedTTL}))
           len     == [f \in Family |-> Cardinality(OfFamily(f, glue))]
           status  == Status(len, missing, ipv6Available)
<1>1. len \in [Family -> Nat] /\ glue \subseteq AddressRecord
  BY RecordsCount
<1>2. life \in Nat /\ life <= MaxAllowedTTL
  <2>1. /\ Min({ttl, MaxAllowedTTL}) \in Nat /\ Min({ttl, MaxAllowedTTL}) <= MaxAllowedTTL
        /\ MaxAllowedTTL \in Nat
    <3>1. {ttl, MaxAllowedTTL} \subseteq Nat
      BY PoolAssumption
    <3>2. /\ Min({ttl, MaxAllowedTTL}) \in {ttl, MaxAllowedTTL}
          /\ \A m \in {ttl, MaxAllowedTTL} : Min({ttl, MaxAllowedTTL}) <= m
      BY <3>1, LeastNatural
    <3> QED
      BY <3>1, <3>2
  <2>2. life \in Nat /\ life <= Min({ttl, MaxAllowedTTL})
    BY <1>1, <2>1, LeastTTLBounded
  <2> HIDE DEF life
  <2> QED
    BY <2>1, <2>2
<1>3. missing \subseteq Host
  BY PoolAssumption
<1>4. /\ servers' = len /\ count' = len /\ hosts' = missing
      /\ expires' = now + life
      /\ UNCHANGED <<now, ipv6Available, next, readers>>
      /\ zone = "none" /\ waiter.pc = "off"
  BY DEF CreateZone
<1>5. \/ /\ status \in Usable
         /\ zone' = "returned"
         /\ StartEnrichment(missing, "goroutine") \/ UNCHANGED <<waiter, enricher>>
      \/ zone' = zone /\ StartEnrichment(missing, "createZone")
      \/ zone' = "failed" /\ UNCHANGED <<waiter, enricher>>
  BY DEF CreateZone, Usable
<1>6. ASSUME status \in Usable
      PROVE  len["ipv4"] > 0 \/ len["ipv6"] > 0
  <2> HIDE DEF len, missing
  <2> QED
    BY <1>1, <1>6 DEF Status, Usable, Family
<1> HIDE DEF glue, missing, life, len, status
<1> DEFINE Started == enricher' \in [pc : {"lookup"}, asking : Family, types : SUBSET Family,
                                     chosen : SUBSET Host, todo : SUBSET Host,
                                     doneCalled : BOOLEAN]
<1>7. /\ StartEnrichment(missing, "goroutine") =>
             waiter' = [pc |-> "waiting", caller |-> "goroutine"] /\ Started
      /\ StartEnrichment(missing, "createZone") =>
             waiter' = [pc |-> "waiting", caller |-> "createZone"] /\ Started
  <2> SUFFICES ASSUME NEW c, StartEnrichment(missing, c)
               PROVE  waiter' = [pc |-> "waiting", caller |-> c] /\ Started
    BY Zenon
  <2>1. PICK chosen \in SUBSET missing :
            /\ waiter' = [pc |-> "waiting", caller |-> c]
            /\ enricher' = [pc |-> "lookup", asking |-> "ipv4", chosen |-> chosen,
                            todo |-> chosen, types |-> IF ipv6Available THEN {"ipv6"} ELSE {},
                            doneCalled |-> FALSE]
    BY Zenon DEF StartEnrichment
  <2> QED
    BY <1>3, <2>1 DEF Family
<1>8. TypeOK
  BY DEF PoolInv
<1>9. /\ waiter \in [pc : {"off", "waiting", "received", "done", "timeout"},
                     caller : {"createZone", "goroutine"}]
      /\ enricher.pc = "off"
  BY <1>4, <1>8 DEF TypeOK, CreationOK, PoolInv, CreationOrder
<1>10. CreationOK'
  BY <1>4, <1>5, <1>7, <1>8 DEF TypeOK, CreationOK
<1>11. TypeOK'
  <2>1. PoolOK'
    BY <1>1, <1>2, <1>3, <1>4, <1>8 DEF TypeOK, PoolOK
  <2>2. ReadersOK'
    BY <1>4, <1>8 DEF TypeOK, ReadersOK, readers
  <2> QED
    BY <1>4, <1>8, <1>10, <2>1, <2>2 DEF TypeOK
<1>12. ExpiryBounded'
  BY <1>2, <1>4, <1>8, PoolAssumption DEF ExpiryBounded, TypeOK
<1>13. enricher'.pc \in {"off", "lookup"} /\ (waiter'.pc = "off" => enricher'.pc = "off")
  BY <1>4, <1>5, <1>7, <1>9
<1>14. CountsTrail'
  BY SMTT(30), <1>1, <1>4, <1>13 DEF CountsTrail, Locked
<1>15. \A r \in Reader : rpc[r] = "idle" /\ \A f \in Family : ~has[r][f]
  BY <1>4 DEF PoolInv, CreationOrder
<1>16. CreationOrder'
  <2>1. zone' = "returned" => count'["ipv4"] > 0 \/ count'["ipv6"] > 0
    BY <1>4, <1>5, <1>6
  <2>2. waiter'.pc \in {"waiting", "received"} /\ waiter'.caller = "createZone" => zone' = "none"
    BY <1>4, <1>5, <1>7
  <2> QED
    BY <1>4, <1>13, <1>15, <2>1, <2>2 DEF CreationOrder, readers
<1>17. \A r \in Reader : ReaderKnows(r)'
  BY <1>4, <1>15 DEF PoolInv, ReaderKnows, readers
<1> QED
  BY <1>11, <1>12, <1>14, <1>16, <1>17 DEF PoolInv

\* The goroutine that looks up the next host is well typed and unlocked.
LEMMA NextLookupType ==
    ASSUME NEW e \in [pc : {"off", "lookup", "count4", "count6", "send", "finished"},
                      asking : Family, types : SUBSET Family, chosen : SUBSET Host,
                      todo : SUBSET Host, doneCalled : BOOLEAN]
    PROVE  NextLookup(e) \in [pc : {"lookup", "finished"},
                      asking : Family, types : SUBSET Family, chosen : SUBSET Host,
                      todo : SUBSET Host, doneCalled : BOOLEAN]
BY Zenon DEF NextLookup, Family

\* Every step of the goroutine of enrichPool preserves the inductive invariant.
LEMMA EnrichmentStep ==
    ASSUME PoolInv, Enrichment
    PROVE  PoolInv'
<1> DEFINE EType == [pc : {"off", "lookup", "count4", "count6", "send", "finished"},
                     asking : Family, types : SUBSET Family, chosen : SUBSET Host,
                     todo : SUBSET Host, doneCalled : BOOLEAN]
           Kept == UNCHANGED <<now, ipv6Available, next, zone, readers>>
<1>1. TypeOK /\ CountsTrail /\ CreationOrder /\ ExpiryBounded
  BY DEF PoolInv
<1>2. enricher \in EType /\ count \in [Family -> Nat] /\ servers \in [Family -> Nat]
  BY <1>1 DEF TypeOK, CreationOK, PoolOK
<1>3. SUFFICES
        /\ Kept
        /\ PoolOK' /\ CountsTrail' /\ ExpiryBounded'
        /\ enricher' \in EType
        /\ waiter.pc # "off"
        /\ waiter' = waiter \/ waiter' = [waiter EXCEPT !.pc = "received"]
        /\ waiter' = waiter \/ waiter.pc = "waiting"
        /\ \A f \in Family : count'[f] >= count[f]
  <2> HIDE DEF EType
  <2>1. CreationOK'
    BY <1>1, <1>3 DEF TypeOK, CreationOK, EType
  <2>2. TypeOK'
    BY <1>1, <1>3, <2>1 DEF TypeOK, ReadersOK, readers
  <2>3. CreationOrder'
    <3>1. /\ waiter'.pc # "off" /\ waiter'.caller = waiter.caller
          /\ waiter'.pc \in {"waiting", "received"} => waiter.pc \in {"waiting", "received"}
      BY <1>1, <1>3 DEF TypeOK, CreationOK
    <3>2. count' \in [Family -> Nat]
      BY <1>3 DEF PoolOK
    <3> QED
      BY <1>1, <1>2, <1>3, <3>1, <3>2 DEF CreationOrder, readers, Family
  <2>4. \A r \in Reader : ReaderKnows(r)'
    BY <1>3, ReadersStay DEF PoolOK
  <2> QED
    BY <1>3, <2>2, <2>3, <2>4 DEF PoolInv
<1>4. enricher.pc # "off" => waiter.pc # "off"
  BY <1>1 DEF CreationOrder
<1>5. ASSUME NEW h \in Host, LookupFails(h)
      PROVE  /\ Kept /\ UNCHANGED <<pool, waiter>>
             /\ enricher.pc = "lookup" /\ enricher' \in EType
             /\ enricher'.pc \in {"lookup", "finished"}
  <2>1. [enricher EXCEPT !.todo = @ \ {h}] \in EType
    BY <1>2
  <2>2. enricher' = NextLookup([enricher EXCEPT !.todo = @ \ {h}])
    BY <1>5 DEF LookupFails
  <2> QED
    BY <1>5, <2>1, <2>2, NextLookupType DEF LookupFails
<1>6. ASSUME SendDone
      PROVE  /\ Kept /\ UNCHANGED pool
             /\ waiter.pc = "waiting" /\ waiter' = [waiter EXCEPT !.pc = "received"]
             /\ enricher.pc = "send" /\ enricher' \in EType
             /\ enricher'.pc \in {"lookup", "finished"}
  <2>1. [enricher EXCEPT !.doneCalled = TRUE] \in EType
    BY Zenon, <1>2
  <2>2. enricher' = NextLookup([enricher EXCEPT !.doneCalled = TRUE])
    BY <1>6 DEF SendDone
  <2> QED
    BY Zenon, <1>6, <2>1, <2>2, NextLookupType DEF SendDone
<1>7. CASE \E h \in Host : LookupFails(h)
  <2>1. UNCHANGED pool /\ UNCHANGED <<now, next>>
    BY <1>5, <1>7
  <2>2. PoolOK' /\ ExpiryBounded'
    BY <1>1, <2>1 DEF TypeOK, PoolOK, ExpiryBounded, pool
  <2>3. CountsTrail'
    BY <1>1, <1>5, <1>7 DEF CountsTrail, Locked, pool
  <2> QED
    BY <1>2, <1>4, <1>5, <1>7, <2>2, <2>3 DEF pool
<1>8. CASE SendDone
  <2>1. UNCHANGED pool /\ UNCHANGED <<now, next>>
    BY <1>6, <1>8
  <2>2. PoolOK' /\ ExpiryBounded'
    BY <1>1, <2>1 DEF TypeOK, PoolOK, ExpiryBounded, pool
  <2>3. CountsTrail'
    BY <1>1, <1>6, <1>8 DEF CountsTrail, Locked, pool
  <2> QED
    BY <1>2, <1>6, <1>8, <2>2, <2>3 DEF pool
<1>9. ASSUME NEW h \in Host, NEW records \in Answers, Enrich(h, records)
      PROVE  /\ Kept
             /\ PoolOK' /\ CountsTrail' /\ ExpiryBounded'
             /\ enricher' \in EType
             /\ waiter.pc # "off" /\ waiter' = waiter
             /\ count' = count
  <2> DEFINE found == AddressesFor(hosts, records)
             ttl == LeastTTL(found, MaxAllowedTTL)
  <2>1. /\ found \subseteq AddressRecord
        /\ \A f \in Family : Cardinality(OfFamily(f, found)) \in Nat
    BY RecordsCount
  <2>2. ttl \in Nat /\ ttl <= MaxAllowedTTL /\ MaxAllowedTTL \in Nat
    BY <2>1, PoolAssumption, LeastTTLBounded
  <2>3. /\ servers' = [f \in Family |-> servers[f] + Cardinality(OfFamily(f, found))]
        /\ hosts' \subseteq hosts
        /\ expires' = IF expires > 0 THEN now + ttl ELSE expires
        /\ enricher.pc = "lookup"
        /\ enricher' = [enricher EXCEPT !.pc = "count4", !.todo = @ \ {h}]
        /\ count' = count /\ waiter' = waiter
        /\ Kept
    BY <1>9 DEF Enrich
  <2> HIDE DEF found, ttl
  <2>4. now \in Nat /\ expires \in Nat /\ hosts \subseteq Host
    BY <1>1 DEF TypeOK, PoolOK
  <2>5. expires' \in Nat /\ ExpiryBounded'
    BY <1>1, <2>2, <2>3, <2>4 DEF ExpiryBounded
  <2>6. servers' \in [Family -> Nat] /\ \A f \in Family : count[f] <= servers'[f]
    BY <1>1, <1>2, <2>1, <2>3 DEF CountsTrail
  <2>7. PoolOK'
    BY <1>1, <2>3, <2>4, <2>5, <2>6 DEF TypeOK, PoolOK
  <2>8. enricher' \in EType /\ enricher'.pc = "count4"
    BY Zenon, <1>2, <2>3
  <2>9. CountsTrail'
    BY <2>3, <2>6, <2>8 DEF CountsTrail, Locked
  <2> QED
    BY <1>4, <2>3, <2>5, <2>7, <2>8, <2>9
<1>10. CASE \E h \in Host, records \in Answers : Enrich(h, records)
  BY <1>2, <1>9, <1>10
<1>11. CASE UpdateIPv4Count
  <2>1. /\ Kept /\ waiter' = waiter /\ UNCHANGED <<servers, hosts, expires>>
        /\ enricher.pc = "count4"
        /\ enricher' = [enricher EXCEPT !.pc = "count6"]
        /\ count' = [count EXCEPT !["ipv4"] = servers["ipv4"]]
    BY <1>11 DEF UpdateIPv4Count
  <2>2. enricher' \in EType /\ enricher'.pc = "count6"
    BY <1>2, <2>1
  <2>3. \A f \in Family : count'[f] >= count[f] /\ count'[f] <= servers[f]
    BY <1>1, <1>2, <2>1 DEF CountsTrail, Family
  <2>4. PoolOK' /\ ExpiryBounded'
    BY <1>1, <1>2, <2>1 DEF TypeOK, PoolOK, ExpiryBounded, Family
  <2>5. CountsTrail'
    BY <1>2, <2>1, <2>2, <2>3 DEF CountsTrail, Locked, Family
  <2> QED
    BY <1>4, <2>1, <2>2, <2>3, <2>4, <2>5
<1>12. CASE UpdateIPv6Count
  <2>1. /\ Kept /\ waiter' = waiter /\ UNCHANGED <<servers, hosts, expires>>
        /\ enricher.pc = "count6"
        /\ enricher' = NextLookup(enricher) \/ enricher' = [enricher EXCEPT !.pc = "send"]
        /\ count' = [count EXCEPT !["ipv6"] = servers["ipv6"]]
    BY <1>12 DEF UpdateIPv6Count
  <2>2. enricher' \in EType /\ enricher'.pc \notin {"count4", "count6"}
    BY <1>2, <2>1, NextLookupType
  <2>3. \A f \in Family : count'[f] >= count[f] /\ count'[f] = servers[f]
    BY <1>1, <1>2, <2>1 DEF CountsTrail, Family
  <2>4. PoolOK' /\ ExpiryBounded'
    BY <1>1, <1>2, <2>1 DEF TypeOK, PoolOK, ExpiryBounded, Family
  <2>5. count' = servers
    BY <1>2, <2>1, <2>3
  <2>6. CountsTrail'
    BY <1>2, <2>1, <2>2, <2>5 DEF CountsTrail
  <2> QED
    BY <1>4, <2>1, <2>2, <2>3, <2>4, <2>6
<1> QED
  BY <1>7, <1>8, <1>10, <1>11, <1>12 DEF Enrichment

\* The select of enrichPool preserves the inductive invariant: under the read
\* lock the counters equal the lengths that status saw.
LEMMA WaiterStep ==
    ASSUME PoolInv, CheckStatus \/ EnrichmentTimeout
    PROVE  PoolInv'
<1>1. TypeOK /\ CountsTrail /\ CreationOrder /\ ExpiryBounded
  BY DEF PoolInv
<1>2. /\ UNCHANGED <<now, ipv6Available, pool, next, enricher, readers>>
      /\ \/ waiter.pc = "received" /\ waiter' = [waiter EXCEPT !.pc = "done"]
         \/ waiter.pc = "waiting" /\ waiter' = [waiter EXCEPT !.pc = "timeout"]
  BY Zenon DEF CheckStatus, EnrichmentTimeout
<1>3. \/ zone' = zone
      \/ waiter.caller # "goroutine" /\ zone' = "failed"
      \/ waiter.caller # "goroutine" /\ zone' = "returned"
         /\ ~Locked /\ Status(servers, hosts, ipv6Available) \in Usable
  BY DEF CheckStatus, EnrichmentTimeout, ZoneAfter
<1>4. /\ waiter \in [pc : {"off", "waiting", "received", "done", "timeout"},
                     caller : {"createZone", "goroutine"}]
      /\ count \in [Family -> Nat] /\ servers \in [Family -> Nat]
  BY <1>1 DEF TypeOK, CreationOK, PoolOK
<1>5. waiter'.pc \in {"done", "timeout"} /\ waiter.pc \in {"waiting", "received"}
  BY <1>2, <1>4
<1>6. zone' # zone => zone = "none"
  BY <1>1, <1>3, <1>4, <1>5 DEF CreationOrder
<1>7. zone' = "returned" => count["ipv4"] > 0 \/ count["ipv6"] > 0
  <2>1. CASE zone' = zone
    BY <1>1, <2>1 DEF CreationOrder
  <2>2. CASE ~Locked /\ Status(servers, hosts, ipv6Available) \in Usable
    <3>1. servers["ipv4"] > 0 \/ servers["ipv6"] > 0
      BY <1>4, <2>2 DEF Status, Usable, Family
    <3> QED
      BY <1>1, <2>2, <3>1 DEF CountsTrail
  <2> QED
    BY <1>3, <2>1, <2>2
<1>8. TypeOK'
  <2>1. CreationOK'
    BY <1>1, <1>2, <1>3, <1>4 DEF TypeOK, CreationOK
  <2> QED
    BY <1>1, <1>2, <2>1 DEF TypeOK, PoolOK, ReadersOK, pool, readers
<1>9. ExpiryBounded' /\ CountsTrail'
  BY <1>1, <1>2 DEF ExpiryBounded, CountsTrail, Locked, pool
<1>10. CreationOrder'
  BY <1>1, <1>2, <1>3, <1>5, <1>6, <1>7 DEF CreationOrder, pool, readers
<1>11. \A r \in Reader : ReaderKnows(r)'
  BY <1>2, <1>4, ReadersStay DEF pool
<1> QED
  BY <1>8, <1>9, <1>10, <1>11 DEF PoolInv

\* Every step of the system preserves the inductive invariant.
LEMMA PoolStep == PoolInv /\ [Next]_vars => PoolInv'
<1> SUFFICES ASSUME PoolInv, [Next]_vars PROVE PoolInv'
  OBVIOUS
<1>1. CASE Tick \/ UpdateIPv6Availability \/ UNCHANGED vars
  <2>1. /\ UNCHANGED <<pool, next, creation, readers>>
        /\ now' \in Nat /\ now' >= now
    BY <1>1 DEF Tick, UpdateIPv6Availability, vars, PoolInv, TypeOK
  <2>2. TypeOK'
    <3>1. ipv6Available' = ipv6Available \/ ipv6Available' = TRUE
      BY <1>1 DEF Tick, UpdateIPv6Availability, vars
    <3>2. ipv6Available' \in BOOLEAN
      BY <3>1, Zenon DEF PoolInv, TypeOK
    <3>3. PoolOK'
      BY <2>1 DEF PoolInv, TypeOK, PoolOK, pool
    <3>4. CreationOK'
      BY <2>1 DEF PoolInv, TypeOK, CreationOK, creation
    <3>5. ReadersOK'
      BY <2>1 DEF PoolInv, TypeOK, ReadersOK, readers
    <3> QED
      BY <2>1, <3>2, <3>3, <3>4, <3>5 DEF TypeOK
  <2>3. ExpiryBounded'
    <3>1. expires' = expires /\ expires <= now + MaxAllowedTTL
      BY <2>1 DEF PoolInv, ExpiryBounded, pool
    <3>2. expires \in Nat /\ now \in Nat /\ MaxAllowedTTL \in Nat
      BY PoolAssumption DEF PoolInv, TypeOK, PoolOK
    <3>3. \A e, n, m, x \in Nat : e <= n + x /\ m >= n => e <= m + x
      OBVIOUS
    <3> QED
      BY Zenon, <2>1, <3>1, <3>2, <3>3 DEF ExpiryBounded
  <2>4. CountsTrail' /\ CreationOrder'
    BY <2>1 DEF PoolInv, CountsTrail, CreationOrder, Locked, pool, creation, readers
  <2>5. \A r \in Reader : ReaderKnows(r)'
    BY <2>1 DEF PoolInv, ReaderKnows, pool, readers
  <2> QED
    BY <2>2, <2>3, <2>4, <2>5 DEF PoolInv
<1> QED
  BY <1>1, CreateStep, EnrichmentStep, WaiterStep, ReaderStep DEF Next

\* The state of the pool, of its creation and of its readers is well typed.
THEOREM PoolTypeCorrect == Spec => []TypeOK
<1>1. PoolInv => TypeOK
  BY SMTT(30) DEF PoolInv
<1> QED
  BY <1>1, PoolInit, PoolStep, PTL DEF Spec

\* exchange never divides by zero in getIPv4 or getIPv6 and never
\* dereferences a nil response, for any number of concurrent readers.
THEOREM ExchangeSafe == Spec => []ExchangeNeverPanics
<1>1. PoolInv => ExchangeNeverPanics
  BY SMTT(30) DEF PoolInv, ReaderKnows, ExchangeNeverPanics
<1> QED
  BY <1>1, PoolInit, PoolStep, PTL DEF Spec

\* A zone that createZone returned always has a nameserver to ask.
THEOREM ReturnedZoneUsable == Spec => []ReturnedZoneHasServers
<1>1. PoolInv => ReturnedZoneHasServers
  BY DEF PoolInv, ReaderKnows, ReturnedZoneHasServers
<1> QED
  BY <1>1, PoolInit, PoolStep, PTL DEF Spec

\* No pool outlives MaxAllowedTTL, counted from now.
THEOREM PoolExpiryBounded == Spec => []ExpiryBounded
<1>1. PoolInv => ExpiryBounded
  BY DEF PoolInv
<1> QED
  BY <1>1, PoolInit, PoolStep, PTL DEF Spec

=============================================================================
