--------------------------- MODULE NameserverPool ---------------------------
(***************************************************************************)
(* A zone's nameserver pool: its creation and enrichment (zone_factory.go, *)
(* pool.go) and the exchanges that use it (pool_exchange.go).              *)
(*                                                                         *)
(* createZone makes the pool from a delegation.  A goroutine of enrichPool *)
(* then looks up addresses that the delegation did not give, and adds them *)
(* while other goroutines already send queries through the pool.  Those    *)
(* read the atomic counters and take the lock only to fetch a server.      *)
(*                                                                         *)
(* A nameserver is its position in the pool's ipv4 or ipv6 slice, so a     *)
(* slice is abstracted to its length.  The order of the hostnames of an NS *)
(* RRset is arbitrary and is left open.  Time is in seconds, from 1.       *)
(***************************************************************************)
EXTENDS Integers, FiniteSets, FiniteSetsExt

CONSTANTS
    Reader,          \* goroutines that call pool.exchange
    Host,            \* hostnames that NS records may name
    NameserverSets,  \* the NS RRsets of delegations: sets of hostnames
    Glues,           \* the glue of delegations: sets of address records
    Answers,         \* the answers to address lookups: sets of address records
    TTLs,            \* the TTLs of NS records
    MaxAllowedTTL,
    DesireNumberOfNameserversPerZone,
    LazyEnrichment,
    MaxTime,         \* bound on the clock
    None             \* no response; the owner of a record that is no nameserver

Family == {"ipv4", "ipv6"}
AddressRecord == [host : Host \cup {None}, family : Family, ttl : Nat]

ASSUME PoolAssumption ==
    /\ IsFiniteSet(Host)
    /\ NameserverSets \subseteq (SUBSET Host) \ {{}}
    /\ Glues \subseteq SUBSET AddressRecord
    /\ Answers \subseteq (SUBSET AddressRecord) \ {{}}
    /\ \A recs \in Glues \cup Answers : IsFiniteSet(recs)
    /\ TTLs \subseteq Nat
    /\ MaxAllowedTTL \in Nat
    /\ DesireNumberOfNameserversPerZone \in Nat \ {0}
    /\ LazyEnrichment \in BOOLEAN
    /\ MaxTime \in Nat
    /\ None \notin Host /\ None \notin {"good", "truncated", "error"}

VARIABLES
    now,
    ipv6Available,   \* what IPv6Available() returns
    zone,            \* createZone: "none", then "returned" or "failed"
    servers,         \* len(pool.ipv4) and len(pool.ipv6)
    count,           \* pool.ipv4Count and pool.ipv6Count
    next,            \* pool.ipv4Next and pool.ipv6Next
    hosts,           \* pool.hostsWithoutAddresses
    expires,         \* pool.expires
    waiter,          \* the select of enrichPool, and who called enrichPool
    enricher,        \* the goroutine of enrichPool
    rpc, has, family, attempt, loaded, idx, response
                     \* the locals of exchange, getIPv4 and getIPv6, per reader

pool == <<servers, count, hosts, expires>>
creation == <<zone, waiter, enricher>>
readers == <<rpc, has, family, attempt, loaded, idx, response>>
vars == <<now, ipv6Available, pool, next, creation, readers>>

-----------------------------------------------------------------------------
(* Data.                                                                   *)

\* findAddressesForHostname, for all hostnames of a set at once.
AddressesFor(names, records) == {r \in records : r.host \in names}
OfFamily(f, records) == {r \in records : r.family = f}

\* Mutant: the bound only counts when there are no records.
LeastTTL_Unbounded(records, bound) ==
    IF records = {} THEN bound
    ELSE Min({r.ttl : r \in records})

\* The smallest TTL of some records and of a given bound.
LeastTTL(records, bound) == Min({r.ttl : r \in records} \cup {bound})

Status(len, missing, v6) ==
    LET empty == len["ipv4"] = 0 /\ len["ipv6"] = 0 /\ missing = {}
        total == len["ipv4"] + (IF v6 THEN len["ipv6"] ELSE 0) IN
    CASE empty -> "PoolEmpty"
      [] ~empty /\ total = 0 -> "PoolHasHostnamesButNoIpAddresses"
      [] total > 0 /\ total < DesireNumberOfNameserversPerZone /\ missing # {} ->
             "PrimedButNeedsEnhancing"
      [] OTHER -> "PoolPrimed"

Usable == {"PoolPrimed", "PrimedButNeedsEnhancing"}

Locked == enricher.pc \in {"count4", "count6"}

-----------------------------------------------------------------------------
Init ==
    /\ now = 1
    /\ ipv6Available = FALSE
    /\ zone = "none"
    /\ servers = [f \in Family |-> 0]
    /\ count = [f \in Family |-> 0]
    /\ next = [f \in Family |-> 0]
    /\ hosts = {}
    /\ expires = 0
    /\ waiter = [pc |-> "off", caller |-> "createZone"]
    /\ enricher = [pc |-> "off", asking |-> "ipv4", types |-> {}, chosen |-> {},
                   todo |-> {}, doneCalled |-> FALSE]
    /\ rpc = [r \in Reader |-> "idle"]
    /\ has = [r \in Reader |-> [f \in Family |-> FALSE]]
    /\ family = [r \in Reader |-> "ipv4"]
    /\ attempt = [r \in Reader |-> 1]
    /\ loaded = [r \in Reader |-> 0]
    /\ idx = [r \in Reader |-> 0]
    /\ response = [r \in Reader |-> None]

Tick ==
    /\ now < MaxTime
    /\ now' = now + 1
    /\ UNCHANGED <<ipv6Available, pool, next, creation, readers>>

\* UpdateIPv6Availability gets an answer over IPv6, some time after the start.
UpdateIPv6Availability ==
    /\ ~ipv6Available
    /\ ipv6Available' = TRUE
    /\ UNCHANGED <<now, pool, next, creation, readers>>

-----------------------------------------------------------------------------
(* createZone and newNameserverPool.  The pool is not shared yet.          *)

\* enrichPool up to its select: which hosts and types the goroutine asks for.
StartEnrichment(missing, caller) ==
    \E chosen \in SUBSET missing :
        /\ Cardinality(chosen) = Min({Cardinality(missing), DesireNumberOfNameserversPerZone})
        /\ waiter' = [pc |-> "waiting", caller |-> caller]
        /\ enricher' = [pc |-> "lookup", asking |-> "ipv4", chosen |-> chosen, todo |-> chosen,
                        types |-> IF ipv6Available THEN {"ipv6"} ELSE {},
                        doneCalled |-> FALSE]

CreateZone(names, nsTTL, extra) ==
    LET glue    == AddressesFor(names, extra)
        missing == {h \in names : AddressesFor({h}, extra) = {}}
        ttl     == LeastTTL(glue, Min({nsTTL, MaxAllowedTTL}))
        len     == [f \in Family |-> Cardinality(OfFamily(f, glue))]
        status  == Status(len, missing, ipv6Available) IN
    /\ zone = "none"
    /\ waiter.pc = "off"
    /\ servers' = len
    /\ count' = len
    /\ hosts' = missing
    /\ expires' = now + ttl
    /\ \/ /\ status = "PrimedButNeedsEnhancing" /\ ~LazyEnrichment
          /\ zone' = "returned"
          /\ StartEnrichment(missing, "goroutine")
       \/ /\ status \in (IF LazyEnrichment THEN Usable ELSE {"PoolPrimed"})
          /\ zone' = "returned"
          /\ UNCHANGED <<waiter, enricher>>
       \/ /\ status = "PoolHasHostnamesButNoIpAddresses" /\ missing # {}
          /\ StartEnrichment(missing, "createZone")
          /\ UNCHANGED zone
       \/ /\ status = "PoolHasHostnamesButNoIpAddresses" /\ missing = {}
          /\ zone' = "failed"
          /\ UNCHANGED <<waiter, enricher>>
    /\ UNCHANGED <<now, ipv6Available, next, readers>>

-----------------------------------------------------------------------------
(* The goroutine of enrichPool.                                            *)

\* The next lookup: of the hosts that are left for this type, or of the next type.
NextLookup(e) ==
    IF e.todo # {} THEN [e EXCEPT !.pc = "lookup"]
    ELSE IF e.types # {}
         THEN [e EXCEPT !.pc = "lookup", !.asking = "ipv6", !.types = {}, !.todo = e.chosen]
         ELSE [e EXCEPT !.pc = "finished"]

\* A lookup that fails, or has no answer records.
LookupFails(h) ==
    /\ enricher.pc = "lookup" /\ h \in enricher.todo
    /\ enricher' = NextLookup([enricher EXCEPT !.todo = @ \ {h}])
    /\ UNCHANGED <<now, ipv6Available, pool, next, zone, waiter, readers>>

\* A lookup that is answered: enrich takes the lock, appends the addresses
\* and stores the new expiry.  The counters follow in steps of their own,
\* since exchange reads them without the lock.
Enrich(h, records) ==
    LET found == AddressesFor(hosts, records)
        ttl   == LeastTTL(found, MaxAllowedTTL) IN
    /\ enricher.pc = "lookup" /\ h \in enricher.todo
    /\ servers' = [f \in Family |-> servers[f] + Cardinality(OfFamily(f, found))]
    /\ hosts' = {n \in hosts : AddressesFor({n}, records) = {}}
    /\ expires' = IF expires > 0 THEN now + ttl ELSE expires
    /\ enricher' = [enricher EXCEPT !.pc = "count4", !.todo = @ \ {h}]
    /\ UNCHANGED <<now, ipv6Available, count, next, zone, waiter, readers>>

\* Mutant: the addresses are added to the counter a second time.
UpdateIPv4Count_Adds ==
    /\ enricher.pc = "count4"
    /\ count' = [count EXCEPT !["ipv4"] = @ + servers["ipv4"]]
    /\ enricher' = [enricher EXCEPT !.pc = "count6"]
    /\ UNCHANGED <<now, ipv6Available, servers, hosts, expires, next, zone, waiter, readers>>

UpdateIPv4Count ==
    /\ enricher.pc = "count4"
    /\ count' = [count EXCEPT !["ipv4"] = servers["ipv4"]]
    /\ enricher' = [enricher EXCEPT !.pc = "count6"]
    /\ UNCHANGED <<now, ipv6Available, servers, hosts, expires, next, zone, waiter, readers>>

\* The second counter, the unlock, and on to done <- true or to the next lookup.
UpdateIPv6Count ==
    /\ enricher.pc = "count6"
    /\ count' = [count EXCEPT !["ipv6"] = servers["ipv6"]]
    /\ enricher' = IF enricher.doneCalled THEN NextLookup(enricher)
                   ELSE [enricher EXCEPT !.pc = "send"]
    /\ UNCHANGED <<now, ipv6Available, servers, hosts, expires, next, zone, waiter, readers>>

\* Mutant: doneCalled is never set.
SendDone_Again ==
    /\ enricher.pc = "send" /\ waiter.pc = "waiting"
    /\ waiter' = [waiter EXCEPT !.pc = "received"]
    /\ enricher' = NextLookup(enricher)
    /\ UNCHANGED <<now, ipv6Available, pool, next, zone, readers>>

\* done is unbuffered: the send happens only when the select receives it.
SendDone ==
    /\ enricher.pc = "send" /\ waiter.pc = "waiting"
    /\ waiter' = [waiter EXCEPT !.pc = "received"]
    /\ enricher' = NextLookup([enricher EXCEPT !.doneCalled = TRUE])
    /\ UNCHANGED <<now, ipv6Available, pool, next, zone, readers>>

-----------------------------------------------------------------------------
(* The select of enrichPool and the end of createZone.                     *)

ZoneAfter(ok) == IF waiter.caller = "goroutine" THEN zone ELSE IF ok THEN "returned" ELSE "failed"

\* Mutant: status reads the slices without taking the read lock.
CheckStatus_Unlocked ==
    /\ waiter.pc = "received"
    /\ waiter' = [waiter EXCEPT !.pc = "done"]
    /\ zone' = ZoneAfter(Status(servers, hosts, ipv6Available) \in Usable)
    /\ UNCHANGED <<now, ipv6Available, pool, next, enricher, readers>>

\* pool.status() takes the read lock.
CheckStatus ==
    /\ waiter.pc = "received"
    /\ ~Locked
    /\ waiter' = [waiter EXCEPT !.pc = "done"]
    /\ zone' = ZoneAfter(Status(servers, hosts, ipv6Available) \in Usable)
    /\ UNCHANGED <<now, ipv6Available, pool, next, enricher, readers>>

EnrichmentTimeout ==
    /\ waiter.pc = "waiting"
    /\ waiter' = [waiter EXCEPT !.pc = "timeout"]
    /\ zone' = ZoneAfter(FALSE)
    /\ UNCHANGED <<now, ipv6Available, pool, next, enricher, readers>>

-----------------------------------------------------------------------------
(* exchange: two tries at most, each through getIPv4 or getIPv6.           *)

Step(r, from, to) == rpc[r] = from /\ rpc' = [rpc EXCEPT ![r] = to]

HasIPv4(r) ==
    /\ zone = "returned"
    /\ Step(r, "idle", "has6")
    /\ has' = [has EXCEPT ![r]["ipv4"] = count["ipv4"] > 0]
    /\ UNCHANGED <<now, ipv6Available, pool, next, creation,
                   family, attempt, loaded, idx, response>>

\* Without any address, exchange returns ErrNoPoolConfiguredForZone.
HasIPv6(r) ==
    /\ Step(r, "has6", IF has[r]["ipv4"] \/ count["ipv6"] > 0 THEN "choose" ELSE "nopool")
    /\ has' = [has EXCEPT ![r]["ipv6"] = count["ipv6"] > 0]
    /\ UNCHANGED <<now, ipv6Available, pool, next, creation,
                   family, attempt, loaded, idx, response>>

ChooseFamily(r) ==
    /\ Step(r, "choose", "get")
    /\ family' = [family EXCEPT
           ![r] = IF has[r]["ipv6"] /\ ipv6Available THEN "ipv6" ELSE "ipv4"]
    /\ UNCHANGED <<now, ipv6Available, pool, next, creation,
                   has, attempt, loaded, idx, response>>

\* getIPv4 and getIPv6: without an address of the family there is no server.
GetServer(r) ==
    /\ Step(r, "get", IF count[family[r]] > 0 THEN "load" ELSE "answered")
    /\ UNCHANGED <<now, ipv6Available, pool, next, creation,
                   has, family, attempt, loaded, idx, response>>

LoadNext(r) ==
    /\ Step(r, "load", "mod")
    /\ loaded' = [loaded EXCEPT ![r] = next[family[r]]]
    /\ UNCHANGED <<now, ipv6Available, pool, next, creation,
                   has, family, attempt, idx, response>>

\* The counter is loaded again for the modulus.
Modulo(r) ==
    LET n == count[family[r]] IN
    /\ Step(r, "mod", "store")
    /\ idx' = [idx EXCEPT ![r] = loaded[r] % n]
    /\ loaded' = [loaded EXCEPT ![r] = n]
    /\ UNCHANGED <<now, ipv6Available, pool, next, creation,
                   has, family, attempt, response>>

StoreNext(r) ==
    /\ Step(r, "store", "fetch")
    /\ next' = [next EXCEPT ![family[r]] = idx[r] + 1]
    /\ UNCHANGED <<now, ipv6Available, pool, creation,
                   has, family, attempt, loaded, idx, response>>

\* Under the read lock; an index past the slice gives no server.
FetchServer(r) ==
    /\ ~Locked
    /\ Step(r, "fetch", IF idx[r] < servers[family[r]] THEN "ask" ELSE "answered")
    /\ UNCHANGED <<now, ipv6Available, pool, next, creation,
                   has, family, attempt, loaded, idx, response>>

Outcome == {"good", "truncated", "error"}

\* nameserver.exchange: over UDP and, when that fails or is truncated, over TCP.
NameserverExchange(udp, tcp) == IF udp = "good" THEN udp ELSE tcp

Ask(r) ==
    /\ Step(r, "ask", "answered")
    /\ \E udp, tcp \in Outcome :
          response' = [response EXCEPT ![r] = NameserverExchange(udp, tcp)]
    /\ UNCHANGED <<now, ipv6Available, pool, next, creation,
                   has, family, attempt, loaded, idx>>

Retry(r) ==
    /\ attempt[r] = 1 /\ response[r] # "good"
    /\ Step(r, "answered", "get")
    /\ attempt' = [attempt EXCEPT ![r] = 2]
    /\ family' = [family EXCEPT ![r] = IF has[r]["ipv4"] THEN "ipv4" ELSE "ipv6"]
    /\ UNCHANGED <<now, ipv6Available, pool, next, creation,
                   has, loaded, idx, response>>

\* The final check writes to response.Err when the response is empty or an
\* error: with no response at all, that is a nil pointer dereference.
Finish(r) ==
    /\ attempt[r] = 2 \/ response[r] = "good"
    /\ Step(r, "answered", IF response[r] = None THEN "panic" ELSE "idle")
    /\ attempt' = [attempt EXCEPT ![r] = 1]
    /\ response' = [response EXCEPT ![r] = None]
    /\ UNCHANGED <<now, ipv6Available, pool, next, creation, has, family, loaded, idx>>

-----------------------------------------------------------------------------
Enrichment ==
    \/ \E h \in Host : LookupFails(h) \/ \E records \in Answers : Enrich(h, records)
    \/ UpdateIPv4Count \/ UpdateIPv6Count \/ SendDone

Exchange(r) ==
    \/ HasIPv4(r) \/ HasIPv6(r) \/ ChooseFamily(r)
    \/ GetServer(r) \/ LoadNext(r) \/ Modulo(r) \/ StoreNext(r) \/ FetchServer(r)
    \/ Ask(r) \/ Retry(r) \/ Finish(r)

Next ==
    \/ Tick \/ UpdateIPv6Availability
    \/ \E names \in NameserverSets, ttl \in TTLs, extra \in Glues : CreateZone(names, ttl, extra)
    \/ Enrichment \/ CheckStatus \/ EnrichmentTimeout
    \/ \E r \in Reader : Exchange(r)

Spec == Init /\ [][Next]_vars

\* A goroutine that can run does; the timer of time.After fires.
Fairness == WF_vars(Enrichment) /\ WF_vars(CheckStatus) /\ WF_vars(EnrichmentTimeout)

FairSpec == Spec /\ Fairness

-----------------------------------------------------------------------------
(* Properties.                                                             *)

PoolOK ==
    /\ servers \in [Family -> Nat]
    /\ count \in [Family -> Nat]
    /\ next \in [Family -> Nat]
    /\ hosts \subseteq Host
    /\ expires \in Nat

CreationOK ==
    /\ zone \in {"none", "returned", "failed"}
    /\ waiter \in [pc : {"off", "waiting", "received", "done", "timeout"},
                   caller : {"createZone", "goroutine"}]
    /\ enricher \in [pc : {"off", "lookup", "count4", "count6", "send", "finished"},
                     asking : Family, types : SUBSET Family, chosen : SUBSET Host,
                     todo : SUBSET Host, doneCalled : BOOLEAN]

ReadersOK ==
    /\ rpc \in [Reader -> {"idle", "has6", "choose", "get", "load", "mod", "store", "fetch",
                           "ask", "answered", "nopool", "panic"}]
    /\ has \in [Reader -> [Family -> BOOLEAN]]
    /\ family \in [Reader -> Family]
    /\ attempt \in [Reader -> 1..2]
    /\ loaded \in [Reader -> Nat]
    /\ idx \in [Reader -> Nat]
    /\ response \in [Reader -> Outcome \cup {None}]

\* The type invariant of the pool, of its creation and of its readers.
TypeOK == now \in Nat /\ ipv6Available \in BOOLEAN /\ PoolOK /\ CreationOK /\ ReadersOK

\* exchange never divides by a counter that is zero, and never comes to its
\* end without a response from a server: the counters only grow and never
\* run ahead of the slices, however enrichment and other readers interleave
\* (otherwise getIPv4 or response.Err would panic).
ExchangeNeverPanics ==
    \A r \in Reader :
        /\ rpc[r] # "panic"
        /\ rpc[r] = "mod" => count[family[r]] > 0

\* A zone that createZone returned can always be queried: its exchanges do
\* not end in ErrNoPoolConfiguredForZone, even when the zone is returned
\* while the goroutine of enrichPool is still adding addresses.
ReturnedZoneHasServers == \A r \in Reader : rpc[r] # "nopool"

\* A pool is never kept beyond MaxAllowedTTL from now, whatever the TTLs of
\* the records and however often enrich moves the expiry.
ExpiryBounded == expires <= now + MaxAllowedTTL

\* The goroutine of enrichPool gets through all its lookups, unless the
\* select has given up before the first answer.
EnrichmentFinishes ==
    enricher.pc # "off" ~> (enricher.pc = "finished" \/ waiter.pc = "timeout")

=============================================================================
