---------------------------- MODULE ServerProofs ----------------------------
(***************************************************************************)
(* Proofs about the DNS server, and about the resolver and the pool of the *)
(* optimised server, for any number of requests, workers and servers.      *)
(*                                                                         *)
(* Each theorem is about one of the three, whose state the others do not   *)
(* see, so they share the names of their parameters.                       *)
(***************************************************************************)
EXTENDS Server, Functions, FiniteSetTheorems, TLAPS

-----------------------------------------------------------------------------
(* Channels.                                                               *)

\* A value that is not in a channel is put at its end.
LEMMA ChannelPut ==
    ASSUME NEW T, NEW s \in Seq(T), NEW r \in T,
           IsInjective(s), r \notin Range(s)
    PROVE  /\ Append(s, r) \in Seq(T) /\ IsInjective(Append(s, r))
           /\ Range(Append(s, r)) = Range(s) \cup {r}
<1> DEFINE t == Append(s, r)
           k == Len(s) + 1
<1>1. /\ t \in Seq(T) /\ DOMAIN t = DOMAIN s \cup {k} /\ k \notin DOMAIN s
      /\ t[k] = r /\ \A n \in DOMAIN s : t[n] = s[n]
  OBVIOUS
<1> HIDE DEF t, k
<1>2. \A n \in DOMAIN s : s[n] # r
  BY DEF Range
<1>3. IsInjective(t)
  BY <1>1, <1>2 DEF IsInjective
<1>4. Range(t) = Range(s) \cup {r}
  BY <1>1 DEF Range
<1> QED
  BY <1>1, <1>3, <1>4 DEF t

\* The value at the front of a channel is taken.
LEMMA ChannelTake ==
    ASSUME NEW T, NEW s \in Seq(T), s # <<>>, IsInjective(s)
    PROVE  /\ Head(s) \in Range(s) /\ Tail(s) \in Seq(T) /\ IsInjective(Tail(s))
           /\ Range(Tail(s)) = Range(s) \ {Head(s)}
<1> DEFINE t == Tail(s)
<1>1. /\ Len(s) \in Nat \ {0} /\ DOMAIN s = 1..Len(s) /\ Head(s) = s[1]
      /\ t \in Seq(T) /\ DOMAIN t = 1..Len(s) - 1
      /\ \A n \in DOMAIN t : t[n] = s[n + 1]
  OBVIOUS
<1> HIDE DEF t
<1>2. \A n \in DOMAIN t : n + 1 \in DOMAIN s /\ n + 1 # 1 /\ n \in Int
  BY <1>1
<1>3. IsInjective(t)
  <2> SUFFICES ASSUME NEW m \in DOMAIN t, NEW n \in DOMAIN t, t[m] = t[n] PROVE m = n
    BY DEF IsInjective
  <2>1. m + 1 = n + 1
    BY <1>1, <1>2 DEF IsInjective
  <2> QED
    BY <1>2, <2>1
<1>4. ASSUME NEW n \in DOMAIN t PROVE t[n] \in Range(s) \ {Head(s)}
  <2>1. 1 \in DOMAIN s
    BY <1>1
  <2>2. s[n + 1] # s[1]
    BY <1>2, <2>1 DEF IsInjective
  <2> QED
    BY <1>1, <1>2, <2>2 DEF Range
<1>5. ASSUME NEW n \in DOMAIN s, s[n] # Head(s) PROVE s[n] \in Range(t)
  <2>1. n - 1 \in DOMAIN t /\ (n - 1) + 1 = n
    BY <1>1, <1>5
  <2>2. t[n - 1] = s[n]
    BY <1>1, <2>1
  <2> QED
    BY <2>1, <2>2 DEF Range
<1>6. Head(s) \in Range(s)
  BY <1>1 DEF Range
<1>7. Range(t) = Range(s) \ {Head(s)}
  BY <1>4, <1>5 DEF Range
<1> QED
  BY <1>1, <1>3, <1>6, <1>7 DEF t

-----------------------------------------------------------------------------
(* The server: requests, the channel and the workers.                      *)

Replies == Message \cup {Failure("error")}
Queued == Range(queries)

RequestTypes ==
    /\ queries \in Seq(Request) /\ sent \subseteq Request
    /\ pc \in [Worker -> {"idle", "get", "record", "exchange"}]
    /\ job \in [Worker -> Request \cup {None}]
    /\ reply \in [Request -> Replies \cup {None}]
    /\ cache \in [Question -> Message \cup {None}]

\* A request without a reply is once on the channel, or with one worker.
OnceInv ==
    /\ \A w \in Worker : pc[w] = "idle" <=> job[w] = None
    /\ IsInjective(queries)
    /\ \A v, w \in Worker : job[v] = job[w] /\ job[v] # None => v = w
    /\ \A w \in Worker : job[w] # None =>
           job[w] \notin Queued /\ job[w] \in sent /\ reply[job[w]] = None
    /\ \A r \in Queued : r \in sent /\ reply[r] = None
    /\ \A r \in Request \ sent : reply[r] = None
    /\ \A r \in sent : reply[r] = None => r \in Queued \/ \E w \in Worker : job[w] = r

RequestInv == RequestTypes /\ OnceInv

\* What an exchange brings is a message, as is what the server makes of it.
LEMMA ReplyTypes ==
    ASSUME NEW kind \in Kinds("DO") \cup Kinds("plain")
    PROVE  /\ Resolved(kind) \in Message /\ Failure(kind) \in Message
           /\ [Resolved(kind) EXCEPT !.ad = Validator] \in Message
  BY ServerAssumption DEF ConstantsOK, Resolved, Failure, Message

LEMMA NoReply ==
    None \notin Replies /\ None \notin Request
  BY ServerAssumption DEF ConstantsOK, Replies

LEMMA CacheSetType ==
    ASSUME cache \in [Question -> Message \cup {None}], NEW q \in Question,
           NEW m \in Message, CacheSet(q, m)
    PROVE  cache' \in [Question -> Message \cup {None}]
  BY DEF CacheSet

\* A new server has no requests.
LEMMA RequestInit ==
    ASSUME Init
    PROVE  RequestInv
<1>1. RequestTypes
  BY DEF Init, RequestTypes
<1>2. /\ Queued = {} /\ sent = {} /\ IsInjective(queries)
      /\ \A r \in Request : reply[r] = None
      /\ \A w \in Worker : pc[w] = "idle" /\ job[w] = None
  BY DEF Init, Queued, Range, IsInjective
<1> QED
  BY <1>1, <1>2 DEF RequestInv, OnceInv

\* The steps of prefetches, of the cache and of the clock touch no request.
LEMMA RequestsStay ==
    ASSUME RequestInv, UNCHANGED <<queries, sent, reply, pc, job>>,
           cache' \in [Question -> Message \cup {None}]
    PROVE  RequestInv'
<1>1. RequestTypes'
  BY DEF RequestInv, RequestTypes
<1>2. OnceInv'
  BY DEF RequestInv, OnceInv, Queued
<1> QED
  BY <1>1, <1>2 DEF RequestInv

\* A worker goes on with its request.
LEMMA WorkerGoesOn ==
    ASSUME RequestInv, NEW w \in Worker, NEW next \in {"record", "exchange"},
           pc[w] # "idle", pc' = [pc EXCEPT ![w] = next], UNCHANGED <<queries, sent, reply, job>>,
           cache' \in [Question -> Message \cup {None}]
    PROVE  RequestInv'
<1>1. RequestTypes'
  BY DEF RequestInv, RequestTypes
<1>2. \A v \in Worker : pc'[v] = "idle" <=> pc[v] = "idle"
  BY DEF RequestInv, RequestTypes
<1>3. Queued' = Queued
  BY DEF Queued
<1>4. OnceInv'
  BY SMTT(30), <1>2, <1>3 DEF RequestInv, OnceInv
<1> QED
  BY <1>1, <1>4 DEF RequestInv

\* handleDNS puts a request on the channel that was nowhere before.
LEMMA HandlerStep ==
    ASSUME RequestInv, NEW r \in Request, handleDNS(r)
    PROVE  RequestInv'
<1>0. RequestTypes /\ OnceInv
  BY DEF RequestInv
<1>1. /\ r \notin sent /\ queries' = Append(queries, r) /\ sent' = sent \cup {r}
      /\ UNCHANGED <<reply, pc, job, cache>>
  BY SMTT(30) DEF handleDNS, store
<1>2. r \notin Queued /\ \A w \in Worker : job[w] # None => job[w] # r
  BY <1>0, <1>1 DEF OnceInv
<1>3. queries \in Seq(Request) /\ IsInjective(queries)
  BY <1>0 DEF RequestTypes, OnceInv
<1>4. queries' \in Seq(Request) /\ IsInjective(queries)' /\ Queued' = Queued \cup {r}
  BY <1>1, <1>2, <1>3, ChannelPut DEF Queued
<1>5. RequestTypes'
  BY SMTT(30), <1>0, <1>1, <1>4 DEF RequestTypes
<1>6. reply[r] = None
  BY <1>0, <1>1 DEF OnceInv
<1> QED
  BY <1>0, <1>1, <1>2, <1>4, <1>5, <1>6 DEF RequestInv, OnceInv

\* A worker takes the request at the front of the channel, which from then
\* on only that worker has.
LEMMA ReceiveStep ==
    ASSUME RequestInv, NEW w \in Worker, Receive(w)
    PROVE  RequestInv'
<1> DEFINE r == Head(queries)
<1>0. RequestTypes /\ OnceInv
  BY DEF RequestInv
<1>1. /\ pc[w] = "idle" /\ queries # <<>> /\ queries' = Tail(queries)
      /\ job' = [job EXCEPT ![w] = r] /\ pc' = [pc EXCEPT ![w] = "get"]
      /\ UNCHANGED <<sent, reply, cache>>
  BY DEF Receive, store
<1>2. r \in Queued /\ queries' \in Seq(Request) /\ IsInjective(queries)' /\ Queued' = Queued \ {r}
  <2>1. queries \in Seq(Request) /\ IsInjective(queries)
    BY <1>0 DEF RequestTypes, OnceInv
  <2> QED
    BY <1>1, <2>1, ChannelTake DEF Queued
<1>3. r \in Request /\ r \in sent /\ reply[r] = None /\ r # None
  BY <1>0, <1>2, NoReply DEF RequestTypes, OnceInv
<1> HIDE DEF r
<1>4. /\ job'[w] = r /\ pc'[w] = "get" /\ job[w] = None
      /\ \A v \in Worker \ {w} : job'[v] = job[v] /\ pc'[v] = pc[v]
  BY <1>0, <1>1 DEF RequestTypes, OnceInv
<1>5. RequestTypes'
  BY <1>0, <1>1, <1>2, <1>3 DEF RequestTypes
<1>6. \A v \in Worker : job[v] # r
  BY SMTT(30), <1>0, <1>2, <1>3 DEF OnceInv
<1>7. OnceInv'
  <2>1. ASSUME NEW x \in sent, reply[x] = None
        PROVE  x \in Queued' \/ \E v \in Worker : job'[v] = x
    <3>1. CASE x \in Queued
      BY <1>2, <1>4, <3>1
    <3>2. ASSUME NEW v \in Worker, job[v] = x
          PROVE  \E u \in Worker : job'[u] = x
      <4>1. v # w
        BY SMTT(30), <1>0, <1>4, <3>2, NoReply DEF RequestTypes
      <4> QED
        BY SMTT(30), <1>4, <3>2, <4>1
    <3> QED
      BY <1>0, <2>1, <3>1, <3>2 DEF OnceInv
  <2>2. \A v \in Worker : pc'[v] = "idle" <=> job'[v] = None
    BY <1>0, <1>3, <1>4 DEF OnceInv
  <2>3. \A u, v \in Worker : job'[u] = job'[v] /\ job'[u] # None => u = v
    BY <1>0, <1>4, <1>6 DEF OnceInv
  <2>4. \A v \in Worker : job'[v] # None =>
            job'[v] \notin Queued' /\ job'[v] \in sent /\ reply[job'[v]] = None
    BY <1>0, <1>2, <1>3, <1>4 DEF OnceInv
  <2> QED
    BY SMTT(30), <1>0, <1>1, <1>2, <2>1, <2>2, <2>3, <2>4 DEF OnceInv
<1> QED
  BY <1>5, <1>7 DEF RequestInv

\* A worker writes its reply and has no request any more.
LEMMA WriteStep ==
    ASSUME RequestInv, NEW w \in Worker, NEW m \in Replies, pc[w] # "idle",
           WriteMsg(w, m), cache' \in [Question -> Message \cup {None}]
    PROVE  RequestInv'
<1> DEFINE r == job[w]
<1>0. RequestTypes /\ OnceInv
  BY DEF RequestInv
<1>1. /\ reply' = [reply EXCEPT ![r] = m] /\ job' = [job EXCEPT ![w] = None]
      /\ pc' = [pc EXCEPT ![w] = "idle"] /\ UNCHANGED <<queries, sent>>
  BY DEF WriteMsg
<1>2. r # None /\ r \in Request /\ r \in sent /\ r \notin Queued
  BY SMTT(30), <1>0 DEF RequestTypes, OnceInv
<1>3. \A v \in Worker \ {w} : job[v] # r
  BY <1>0, <1>2 DEF OnceInv
<1>4. Queued' = Queued
  BY <1>1 DEF Queued
<1> HIDE DEF r
<1>5. /\ job'[w] = None /\ pc'[w] = "idle" /\ reply'[r] # None
      /\ \A v \in Worker \ {w} : job'[v] = job[v] /\ pc'[v] = pc[v]
      /\ \A x \in Request \ {r} : reply'[x] = reply[x]
  BY <1>0, <1>1, <1>2, NoReply DEF RequestTypes
<1>6. RequestTypes'
  BY <1>0, <1>1, <1>2 DEF RequestTypes
<1>7. Queued \subseteq Request
  BY <1>0 DEF RequestTypes, OnceInv
<1>8. OnceInv'
  BY <1>0, <1>1, <1>2, <1>3, <1>4, <1>5, <1>7 DEF OnceInv, RequestTypes, r
<1> QED
  BY <1>6, <1>8 DEF RequestInv

\* Every step of a worker.
LEMMA WorkerStep ==
    ASSUME RequestInv, NEW w \in Worker, worker(w)
    PROVE  RequestInv'
<1> DEFINE q == QuestionOf[job[w]]
<1>0. RequestTypes /\ OnceInv
  BY DEF RequestInv
<1>1. pc[w] # "idle" => job[w] \in Request /\ q \in Question
  BY <1>0, ServerAssumption DEF RequestTypes, OnceInv, ConstantsOK
<1>2. cache \in [Question -> Message \cup {None}]
  BY <1>0 DEF RequestTypes
<1> HIDE DEF q
<1>3. CASE Hit(w)
  <2>1. pc[w] # "idle" /\ q \in Question /\ cache[q] \in Message /\ UNCHANGED cache
    BY <1>1, <1>2, <1>3 DEF Hit, Held, store, q
  <2>2. [cache[q] EXCEPT !.ad = TRUE] \in Message
    BY Zenon, <2>1 DEF Message
  <2>3. \E m \in Replies : WriteMsg(w, m)
    BY <1>3, <2>1, <2>2 DEF Hit, q, Replies
  <2> QED
    BY <1>2, <2>1, <2>3, WriteStep
<1>4. CASE Miss(w)
  <2>1. pc[w] # "idle" /\ pc' = [pc EXCEPT ![w] = "record"] /\ UNCHANGED <<queries, sent, reply, job>>
    BY <1>4 DEF Miss, clients
  <2>2. cache' \in [Question -> Message \cup {None}]
    BY Zenon, <1>2, <1>4 DEF Miss
  <2> QED
    BY Zenon, <2>1, <2>2, WorkerGoesOn
<1>5. CASE recordAccess(w)
  <2>1. /\ pc[w] # "idle" /\ pc' = [pc EXCEPT ![w] = "exchange"]
        /\ UNCHANGED <<queries, sent, reply, job, cache>>
    BY <1>5 DEF recordAccess, clients, store
  <2> QED
    BY Zenon, <1>2, <2>1, WorkerGoesOn
<1>6. CASE ExchangeFails(w)
  <2>1. pc[w] # "idle" /\ WriteMsg(w, Failure("error")) /\ UNCHANGED cache
    BY <1>6 DEF ExchangeFails, SetNegative
  <2> QED
    BY <1>2, <2>1, WriteStep DEF Replies
<1>7. ASSUME NEW kind \in Kinds("DO") \cup Kinds("plain"), ExchangeRefused(w, kind)
      PROVE  RequestInv'
  <2>1. pc[w] # "idle" /\ WriteMsg(w, Failure(kind)) /\ UNCHANGED cache
    BY <1>7 DEF ExchangeRefused, store
  <2>2. Failure(kind) \in Replies
    BY Zenon, ReplyTypes DEF Replies
  <2> QED
    BY SMTT(30), <1>2, <2>1, <2>2, WriteStep
<1>8. ASSUME NEW kind \in Kinds("DO") \cup Kinds("plain"), ExchangeAnswers(w, kind)
      PROVE  RequestInv'
  <2>1. PICK m : /\ m \in {Resolved(kind), [Resolved(kind) EXCEPT !.ad = Validator]}
                 /\ pc[w] # "idle" /\ CacheSet(q, m) /\ WriteMsg(w, m)
    BY <1>8 DEF ExchangeAnswers, q
  <2>2. m \in Message
    BY Zenon, <2>1, ReplyTypes
  <2>3. cache' \in [Question -> Message \cup {None}]
    BY <1>1, <1>2, <2>1, <2>2, CacheSetType
  <2> QED
    BY <2>1, <2>2, <2>3, WriteStep DEF Replies
<1> QED
  BY SMTT(30), <1>3, <1>4, <1>5, <1>6, <1>7, <1>8, ReceiveStep DEF worker, ExchangeReturns

\* RequestInv is inductive.
LEMMA RequestStep ==
    ASSUME RequestInv, [Next]_vars
    PROVE  RequestInv'
<1> USE DEF clients
<1>0. cache \in [Question -> Message \cup {None}]
  BY DEF RequestInv, RequestTypes
<1>1. CASE Tick \/ prefetchAllDomains \/ UNCHANGED vars
  <2>1. UNCHANGED <<queries, sent, reply, pc, job, cache>>
    BY SMTT(30), <1>1 DEF Tick, prefetchAllDomains, RoundStarts, getAllDomains, RoundEnds,
                vars, store
  <2> QED
    BY SMTT(30), <1>0, <2>1, RequestsStay
<1>2. ASSUME NEW q \in Question, prefetchRecord(q) \/ Evict(q) PROVE RequestInv'
  <2>1. UNCHANGED <<queries, sent, reply, pc, job>>
    BY <1>2 DEF prefetchRecord, PrefetchSkips, PrefetchAsks, PrefetchFails,
                PrefetchSets, Evict
  <2>2. CASE UNCHANGED cache \/ cache' = [cache EXCEPT ![q] = None]
    BY <1>0, <2>1, <2>2, RequestsStay
  <2>3. ASSUME NEW kind \in Kinds("DO"), CacheSet(q, Resolved(kind)) PROVE RequestInv'
    BY Zenon, <1>0, <2>1, <2>3, ReplyTypes, CacheSetType, RequestsStay
  <2> QED
    BY SMTT(30), <1>2, <2>2, <2>3 DEF prefetchRecord, PrefetchSkips, PrefetchAsks, PrefetchFails,
                            PrefetchSets, Evict, store
<1>3. ASSUME NEW q \in Question, NEW kind \in Kinds("DO") \cup Kinds("plain"),
             CacheTarget(q, kind)
      PROVE  RequestInv'
  <2>1. UNCHANGED <<queries, sent, reply, pc, job>> /\ CacheSet(q, Resolved(kind))
    BY <1>3 DEF CacheTarget
  <2> QED
    BY Zenon, <1>0, <2>1, ReplyTypes, CacheSetType, RequestsStay
<1> QED
  BY <1>1, <1>2, <1>3, HandlerStep, WorkerStep DEF Next

\* A request that processQuery has to answer is in one place, so that it is
\* answered exactly once, for any number of requests and workers.
THEOREM AnsweredOnce ==
    Spec => []EachRequestOnce
<1>1. Init => RequestInv
  BY RequestInit
<1>2. RequestInv /\ [Next]_vars => RequestInv'
  BY RequestStep
<1>3. RequestInv => EachRequestOnce
  <2> SUFFICES ASSUME RequestInv, NEW r \in Request
               PROVE  Cardinality(Places(r)) = IF r \in sent /\ reply[r] = None THEN 1 ELSE 0
    BY Zenon DEF EachRequestOnce, Cardinality, Cardinality
  <2>0. OnceInv /\ DOMAIN queries = 1..Len(queries) /\ r # None
    BY NoReply DEF RequestInv, RequestTypes
  <2>1. CASE r \in Queued
    <3>1. PICK i \in DOMAIN queries : queries[i] = r
      BY <2>1 DEF Queued, Range
    <3>2. \A j \in 1..Len(queries) : queries[j] = r => j = i
      BY <2>0, <3>1 DEF OnceInv, IsInjective
    <3>3. \A w \in Worker : job[w] # r
      BY <2>0, <2>1 DEF OnceInv
    <3>4. Places(r) = {<<"channel", i>>}
      BY <2>0, <3>1, <3>2, <3>3 DEF Places
    <3> QED
      BY Zenon, <2>0, <2>1, <3>4, FS_Singleton DEF OnceInv
  <2>2. ASSUME NEW w \in Worker, job[w] = r
        PROVE  Cardinality(Places(r)) = IF r \in sent /\ reply[r] = None THEN 1 ELSE 0
    <3>1. r \notin Queued /\ r \in sent /\ reply[r] = None
      BY <2>0, <2>2 DEF OnceInv
    <3>2. \A j \in 1..Len(queries) : queries[j] # r
      BY <2>0, <3>1 DEF Queued, Range
    <3>3. \A v \in Worker : job[v] = r => v = w
      BY <2>0, <2>2 DEF OnceInv
    <3>4. Places(r) = {<<"worker", w>>}
      BY <2>2, <3>2, <3>3 DEF Places
    <3> QED
      BY Zenon, <3>1, <3>4, FS_Singleton
  <2>3. CASE r \notin Queued /\ \A w \in Worker : job[w] # r
    <3>1. ~(r \in sent /\ reply[r] = None)
      BY <2>0, <2>3 DEF OnceInv
    <3>2. \A j \in 1..Len(queries) : queries[j] # r
      BY <2>0, <2>3 DEF Queued, Range
    <3>3. Places(r) = {}
      BY <2>3, <3>2 DEF Places
    <3> QED
      BY SMTT(30), <3>1, <3>3, FS_EmptySet
  <2> QED
    BY <2>1, <2>2, <2>3
<1> QED
  BY <1>1, <1>2, <1>3, PTL DEF Spec

-----------------------------------------------------------------------------
(* The server: prefetches of popular questions.                            *)

AccessInv ==
    /\ popular \in [Question -> Nat] /\ accesses \in [Question -> Nat]
    /\ started \in [Question -> Nat]
    /\ PrefetchesBounded

\* recordAccess counts one access; the prefetch that it may start uses up
\* the accesses counted so far.
LEMMA AccessCounted ==
    ASSUME RequestInv, AccessInv, NEW w \in Worker, recordAccess(w)
    PROVE  AccessInv'
<1> DEFINE q == QuestionOf[job[w]]
           popularNow == popular[q] + 1 >= Threshold
<1>1. q \in Question
  BY SMTT(30), ServerAssumption DEF recordAccess, RequestInv, RequestTypes, OnceInv, ConstantsOK
<1>2. /\ popular' = [popular EXCEPT ![q] = IF popularNow THEN 0 ELSE popular[q] + 1]
      /\ accesses' = [accesses EXCEPT ![q] = accesses[q] + 1]
      /\ started' = [started EXCEPT ![q] = IF popularNow THEN started[q] + 1 ELSE started[q]]
  BY DEF recordAccess
<1> HIDE DEF q
<1>3. /\ popular[q] \in Nat /\ accesses[q] \in Nat /\ started[q] \in Nat /\ Threshold \in Nat
      /\ started[q] * Threshold + popular[q] <= accesses[q]
  BY <1>1, ServerAssumption DEF AccessInv, PrefetchesBounded, ConstantsOK
<1>4. /\ popular' \in [Question -> Nat] /\ accesses' \in [Question -> Nat]
      /\ started' \in [Question -> Nat]
  BY <1>1, <1>2, <1>3 DEF AccessInv
<1>5. \A p \in Question \ {q} :
          popular'[p] = popular[p] /\ accesses'[p] = accesses[p] /\ started'[p] = started[p]
  BY <1>2 DEF AccessInv
<1>6. /\ popular'[q] = IF popularNow THEN 0 ELSE popular[q] + 1
      /\ accesses'[q] = accesses[q] + 1
      /\ started'[q] = IF popularNow THEN started[q] + 1 ELSE started[q]
  BY <1>1, <1>2 DEF AccessInv
<1>7. \A n, t \in Nat : n * t \in Nat /\ (n + 1) * t = n * t + t
  OBVIOUS
<1>8. started[q] * Threshold \in Nat
      /\ (started[q] + 1) * Threshold = started[q] * Threshold + Threshold
  BY <1>3, <1>7
<1>9. started'[q] * Threshold + popular'[q] <= accesses'[q]
  <2>1. CASE popularNow
    BY SMTT(30), <1>3, <1>6, <1>8, <2>1
  <2>2. CASE ~popularNow
    BY SMTT(30), <1>3, <1>6, <1>8, <2>2
  <2> QED
    BY <2>1, <2>2
<1>10. PrefetchesBounded'
  BY <1>5, <1>9 DEF AccessInv, PrefetchesBounded
<1> QED
  BY Zenon, <1>4, <1>10 DEF AccessInv

\* The end of a round of prefetchAllDomains forgets the accesses counted.
LEMMA CountersCleared ==
    ASSUME AccessInv, RoundEnds
    PROVE  AccessInv'
<1>1. popular' = Question0 /\ UNCHANGED <<accesses, started>>
  BY DEF RoundEnds, history
<1>2. ASSUME NEW q \in Question PROVE started[q] * Threshold + 0 <= accesses[q]
  <2>1. /\ popular[q] \in Nat /\ accesses[q] \in Nat /\ started[q] \in Nat /\ Threshold \in Nat
        /\ started[q] * Threshold + popular[q] <= accesses[q]
    BY ServerAssumption DEF AccessInv, PrefetchesBounded, ConstantsOK
  <2>2. \A n, t \in Nat : n * t \in Nat
    OBVIOUS
  <2>3. started[q] * Threshold \in Nat
    BY <2>1, <2>2
  <2> QED
    BY <2>1, <2>3
<1>3. popular' \in [Question -> Nat] /\ \A q \in Question : popular'[q] = 0
  BY <1>1 DEF Question0
<1>4. PrefetchesBounded'
  BY <1>1, <1>2, <1>3, Zenon DEF PrefetchesBounded
<1> QED
  BY <1>1, <1>3, <1>4 DEF AccessInv

\* AccessInv is inductive, with RequestInv.
LEMMA AccessStep ==
    ASSUME RequestInv, AccessInv, [Next]_vars
    PROVE  AccessInv'
<1>1. CASE UNCHANGED <<popular, accesses, started>>
  BY <1>1 DEF AccessInv, PrefetchesBounded
<1> USE DEF prefetch, history
<1>2. ASSUME NEW w \in Worker, worker(w) PROVE AccessInv'
  BY Zenon, <1>1, <1>2, AccessCounted
     DEF worker, Receive, Hit, Miss, ExchangeReturns, ExchangeFails,
         ExchangeRefused, ExchangeAnswers
<1>3. CASE prefetchAllDomains
  BY <1>1, <1>3, CountersCleared DEF prefetchAllDomains, RoundStarts, getAllDomains
<1>4. ASSUME NEW q \in Question, prefetchRecord(q) \/ Evict(q) PROVE AccessInv'
  BY <1>1, <1>4 DEF prefetchRecord, PrefetchSkips, PrefetchAsks, PrefetchFails,
                    PrefetchSets, Evict
<1>5. ASSUME NEW q \in Question, NEW kind, CacheTarget(q, kind) PROVE AccessInv'
  BY Zenon, <1>1, <1>5 DEF CacheTarget
<1>6. CASE Tick \/ UNCHANGED vars
  BY <1>1, <1>6 DEF Tick, vars
<1>7. ASSUME NEW r \in Request, handleDNS(r) PROVE AccessInv'
  BY <1>1, <1>7 DEF handleDNS
<1> QED
  BY <1>2, <1>3, <1>4, <1>5, <1>6, <1>7 DEF Next

\* recordAccess starts at most one prefetch for every Threshold accesses to a
\* question that were not in the cache, for any number of workers.
THEOREM PrefetchesRationed ==
    Spec => []PrefetchesBounded
<1>1. Init => RequestInv /\ AccessInv
  <2>1. 0 * Threshold + 0 <= 0
    BY ServerAssumption DEF ConstantsOK
  <2>2. Init => AccessInv
    BY <2>1 DEF Init, AccessInv, PrefetchesBounded, Question0
  <2> QED
    BY <2>2, RequestInit
<1>2. RequestInv /\ AccessInv /\ [Next]_vars => (RequestInv /\ AccessInv)'
  BY RequestStep, AccessStep
<1>3. AccessInv => PrefetchesBounded
  BY DEF AccessInv
<1> QED
  BY <1>1, <1>2, <1>3, PTL DEF Spec

-----------------------------------------------------------------------------
(* The fast resolver.                                                      *)

CONSTANTS Client, Server, Name, Popular, Type, Asked
VARIABLES prefetchCh, question, outcome, resultChan, received, done

R == INSTANCE FastResolver WITH i <- received

Outcomes == [Server -> {"asked", "success", "failure"}]

\* The servers whose results the loop of concurrentResolve has read.
Read(out, chan) == {s \in Server : out[s] # "asked"} \ Range(chan)

\* No result is twice in the channel, and the received ones are failures.
Sound(out, chan, got) ==
    /\ IsInjective(chan)
    /\ \A s \in Range(chan) : out[s] # "asked"
    /\ \A s \in Read(out, chan) : out[s] = "failure"
    /\ got = Cardinality(Read(out, chan))

CallOK(place, out, chan, got) ==
    /\ place \in {"idle", "get", "wait"} => Sound(out, chan, got)
    /\ place = "no nameservers" => \A s \in Server : out[s] = "failure"

CallInv(p) == CallOK(pc[p], outcome[p], resultChan[p], received[p])

ResolverTypes ==
    /\ pc \in [R!Process -> {"idle", "get", "wait", "update", "prefetch"} \cup R!Results]
    /\ outcome \in [R!Process -> Outcomes]
    /\ resultChan \in [R!Process -> Seq(Server)]
    /\ received \in [R!Process -> Nat]

CallsInv == ResolverTypes /\ \A p \in R!Process : CallInv(p)

\* A call that has not asked its servers yet.
LEMMA FreshCall ==
    ASSUME NEW out, \A s \in Server : out[s] = "asked"
    PROVE  Sound(out, <<>>, 0)
<1>1. Range(<<>>) = {} /\ Read(out, <<>>) = {} /\ IsInjective(<<>>)
  BY DEF Range, Read, IsInjective
<1> QED
  BY <1>1, FS_EmptySet DEF Sound

\* The result of a server goes to the channel, so it is not yet read.
LEMMA ResultSent ==
    ASSUME NEW out \in Outcomes, NEW chan \in Seq(Server), NEW n, Sound(out, chan, n),
           NEW s \in Server, out[s] = "asked", NEW o \in {"success", "failure"}
    PROVE  Sound([out EXCEPT ![s] = o], Append(chan, s), n)
<1> DEFINE new == [out EXCEPT ![s] = o]
           longer == Append(chan, s)
<1>1. s \notin Range(chan) /\ IsInjective(chan)
  BY DEF Sound
<1>3. IsInjective(longer) /\ Range(longer) = Range(chan) \cup {s}
  BY <1>1, ChannelPut
<1>4. new[s] = o /\ \A t \in Server \ {s} : new[t] = out[t]
  BY DEF Outcomes
<1> HIDE DEF new, longer
<1>5. Range(chan) \subseteq Server
  BY SMTT(30) DEF Range
<1>6. Read(new, longer) = Read(out, chan) /\ s \notin Read(out, chan)
  BY <1>1, <1>3, <1>4 DEF Read
<1>7. Read(out, chan) \subseteq Server
  BY DEF Read
<1>8. Sound(new, longer, n)
  BY <1>3, <1>4, <1>5, <1>6, <1>7 DEF Sound
<1> QED
  BY <1>8 DEF new, longer

\* The loop reads a failure; when it has read as many results as there are
\* servers, all of them have failed.
LEMMA FailureRead ==
    ASSUME IsFiniteSet(Server), NEW out \in Outcomes, NEW chan \in Seq(Server), chan # <<>>,
           NEW n \in Nat, Sound(out, chan, n), out[Head(chan)] # "success"
    PROVE  /\ Sound(out, Tail(chan), n + 1)
           /\ n + 1 >= Cardinality(Server) => \A s \in Server : out[s] = "failure"
<1> DEFINE h == Head(chan)
           rest == Tail(chan)
<1>1. IsInjective(chan)
  BY DEF Sound
<1>2. IsInjective(rest) /\ h \in Range(chan) /\ Range(rest) = Range(chan) \ {h}
  BY <1>1, ChannelTake
<1>3. Range(chan) \subseteq Server
  BY DEF Range
<1>4. h \in Server /\ out[h] = "failure"
  BY <1>2, <1>3 DEF Sound, Outcomes
<1> HIDE DEF h, rest
<1>5. Read(out, rest) = Read(out, chan) \cup {h} /\ h \notin Read(out, chan)
  BY <1>2, <1>4 DEF Read
<1>6. Read(out, rest) \subseteq Server /\ Read(out, chan) \subseteq Server
  BY DEF Read
<1>7. IsFiniteSet(Read(out, chan)) /\ IsFiniteSet(Read(out, rest))
  BY SMTT(30), <1>6, FS_Subset
<1>8. Cardinality(Read(out, rest)) = n + 1
  BY <1>5, <1>7, FS_AddElement DEF Sound
<1>9. \A s \in Read(out, rest) : out[s] = "failure"
  BY <1>4, <1>5 DEF Sound
<1>10. Sound(out, rest, n + 1)
  BY <1>2, <1>8, <1>9 DEF Sound
<1>11. n + 1 >= Cardinality(Server) => Read(out, rest) = Server
  BY <1>6, <1>7, <1>8, FS_Subset, FS_CardinalityType
<1> QED
  BY <1>9, <1>10, <1>11 DEF rest

\* A step of one call, or of its goroutines, leaves the other calls alone.
LEMMA OneCallMoves ==
    ASSUME CallsInv, NEW p \in R!Process, NEW place, NEW out, NEW chan, NEW n,
           place \in {"idle", "get", "wait", "update", "prefetch"} \cup R!Results,
           out \in Outcomes, chan \in Seq(Server), n \in Nat, CallOK(place, out, chan, n),
           pc' = [pc EXCEPT ![p] = place], outcome' = [outcome EXCEPT ![p] = out],
           resultChan' = [resultChan EXCEPT ![p] = chan], received' = [received EXCEPT ![p] = n]
    PROVE  CallsInv'
<1>0. ResolverTypes
  BY DEF CallsInv
<1>1. ResolverTypes'
  BY <1>0 DEF ResolverTypes
<1>2. ASSUME NEW x \in R!Process PROVE CallInv(x)'
  <2>1. CASE x = p
    BY <1>0, <2>1 DEF ResolverTypes, CallInv
  <2>2. CASE x # p
    BY <1>0, <2>2 DEF CallsInv, ResolverTypes, CallInv
  <2> QED
    BY <2>1, <2>2
<1> QED
  BY <1>1, <1>2 DEF CallsInv

LEMMA CallsInit == R!Init => CallsInv
<1> SUFFICES ASSUME R!Init PROVE CallsInv
  OBVIOUS
<1>1. ResolverTypes
  BY DEF R!Init, ResolverTypes, Outcomes
<1>2. ASSUME NEW p \in R!Process PROVE CallInv(p)
  <2>1. /\ pc[p] = "idle" /\ resultChan[p] = <<>> /\ received[p] = 0
        /\ \A s \in Server : outcome[p][s] = "asked"
    BY DEF R!Init
  <2> QED
    BY <2>1, FreshCall DEF CallInv, CallOK
<1> QED
  BY <1>1, <1>2 DEF CallsInv

\* Steps of a call that concern neither its servers nor their results.
LEMMA PlaceStep ==
    ASSUME CallsInv, NEW p \in R!Process, NEW place,
           \/ pc[p] = "idle" /\ place = "get"
           \/ pc[p] = "get" /\ place = "wait"
           \/ place \in {"message", "ctx.Err", "prefetch"},
           pc' = [pc EXCEPT ![p] = place], UNCHANGED <<outcome, resultChan, received>>
    PROVE  CallsInv'
<1>0. ResolverTypes /\ CallInv(p)
  BY DEF CallsInv
<1>1. /\ outcome[p] \in Outcomes /\ resultChan[p] \in Seq(Server) /\ received[p] \in Nat
      /\ place \in {"idle", "get", "wait", "update", "prefetch"} \cup R!Results
  BY <1>0 DEF ResolverTypes, R!Results
<1>2. CallOK(place, outcome[p], resultChan[p], received[p])
  BY <1>0 DEF CallInv, CallOK
<1>3. /\ outcome' = [outcome EXCEPT ![p] = outcome[p]]
      /\ resultChan' = [resultChan EXCEPT ![p] = resultChan[p]]
      /\ received' = [received EXCEPT ![p] = received[p]]
  BY <1>0 DEF ResolverTypes
<1> QED
  BY Zenon, <1>1, <1>2, <1>3, OneCallMoves

LEMMA AnswerStep ==
    ASSUME CallsInv, NEW p \in R!Process, NEW s \in Server, R!exchangeWithFastTimeout(p, s)
    PROVE  CallsInv'
<1>0. ResolverTypes /\ CallInv(p)
  BY DEF CallsInv
<1>1. PICK o \in {"success", "failure"} : outcome' = [outcome EXCEPT ![p][s] = o]
  BY DEF R!exchangeWithFastTimeout
<1>2. /\ pc[p] = "wait" /\ outcome[p][s] = "asked" /\ UNCHANGED <<pc, received>>
      /\ resultChan' = [resultChan EXCEPT ![p] = Append(resultChan[p], s)]
  BY DEF R!exchangeWithFastTimeout
<1>3. outcome[p] \in Outcomes /\ resultChan[p] \in Seq(Server) /\ received[p] \in Nat
  BY SMTT(30), <1>0 DEF ResolverTypes
<1> DEFINE out == [outcome[p] EXCEPT ![s] = o]
           chan == Append(resultChan[p], s)
<1>4. Sound(out, chan, received[p])
  BY Zenon, <1>0, <1>2, <1>3, ResultSent DEF CallInv, CallOK
<1>5. out \in Outcomes /\ chan \in Seq(Server)
  <2>1. out \in Outcomes
    BY <1>3 DEF Outcomes
  <2>2. chan \in Seq(Server)
    BY <1>3
  <2> QED
    BY <2>1, <2>2
<1>6. outcome' = [outcome EXCEPT ![p] = out] /\ resultChan' = [resultChan EXCEPT ![p] = chan]
  BY <1>0, <1>1, <1>2 DEF ResolverTypes
<1> HIDE DEF out, chan
<1>7. pc' = [pc EXCEPT ![p] = "wait"] /\ received' = [received EXCEPT ![p] = received[p]]
  BY <1>0, <1>2 DEF ResolverTypes
<1>8. CallOK("wait", out, chan, received[p])
  BY <1>4 DEF CallOK
<1> QED
  BY Zenon, <1>3, <1>5, <1>6, <1>7, <1>8, OneCallMoves

LEMMA ReadStep ==
    ASSUME R!ConstantsOK, CallsInv, NEW p \in R!Process, R!Receive(p)
    PROVE  CallsInv'
<1> DEFINE out == outcome[p]
           chan == Tail(resultChan[p])
           n == received[p] + 1
           place == IF out[Head(resultChan[p])] = "success" THEN "update"
                    ELSE IF n >= Cardinality(Server) THEN "no nameservers" ELSE "wait"
<1>0. ResolverTypes /\ CallInv(p)
  BY DEF CallsInv
<1>1. /\ pc[p] = "wait" /\ resultChan[p] # <<>> /\ UNCHANGED outcome
      /\ resultChan' = [resultChan EXCEPT ![p] = chan] /\ received' = [received EXCEPT ![p] = n]
  BY DEF R!Receive
<1>2. pc' = [pc EXCEPT ![p] = place]
  BY Zenon DEF R!Receive, R!Goto, R!Last, R!Cardinality, Cardinality
<1>3. out \in Outcomes /\ resultChan[p] \in Seq(Server) /\ received[p] \in Nat
  BY <1>0 DEF ResolverTypes
<1>4. chan \in Seq(Server) /\ n \in Nat
  BY <1>1, <1>3
<1>5. outcome' = [outcome EXCEPT ![p] = out]
  BY <1>0, <1>1 DEF ResolverTypes
<1>6. IsFiniteSet(Server)
  BY Zenon DEF R!ConstantsOK, R!IsFiniteSet, IsFiniteSet
<1>7. Sound(out, resultChan[p], received[p])
  BY Zenon, <1>0, <1>1 DEF CallInv, CallOK
<1>8. out[Head(resultChan[p])] # "success" =>
          /\ Sound(out, chan, n)
          /\ n >= Cardinality(Server) => \A s \in Server : out[s] = "failure"
  BY Zenon, <1>1, <1>3, <1>6, <1>7, FailureRead
<1>9. CallOK(place, out, chan, n)
  BY <1>8 DEF CallOK
<1>10. place \in {"idle", "get", "wait", "update", "prefetch"} \cup R!Results
  BY DEF R!Results
<1> HIDE DEF out, chan, n, place
<1> QED
  BY Zenon, <1>1, <1>2, <1>3, <1>4, <1>5, <1>9, <1>10, OneCallMoves

LEMMA ReturnStep ==
    ASSUME CallsInv, NEW p \in R!Process, R!Return(p)
    PROVE  CallsInv'
<1> DEFINE out == [s \in Server |-> "asked"]
<1>1. /\ pc' = [pc EXCEPT ![p] = "idle"] /\ outcome' = [outcome EXCEPT ![p] = out]
      /\ resultChan' = [resultChan EXCEPT ![p] = <<>>] /\ received' = [received EXCEPT ![p] = 0]
  BY DEF R!Return, R!Goto
<1>2. CallOK("idle", out, <<>>, 0)
  BY FreshCall DEF CallOK
<1>3. out \in Outcomes /\ <<>> \in Seq(Server)
  BY DEF Outcomes
<1> HIDE DEF out
<1> QED
  BY Zenon, <1>1, <1>2, <1>3, OneCallMoves

\* CallsInv is inductive.
LEMMA CallsStep ==
    ASSUME R!ConstantsOK, CallsInv, [R!Next]_R!vars
    PROVE  CallsInv'
<1> USE DEF R!call
<1>1. CASE UNCHANGED <<pc, outcome, resultChan, received>>
  BY <1>1 DEF CallsInv, ResolverTypes, CallInv
<1>2. ASSUME NEW c \in Client, NEW q \in Asked, R!handleDNSRequest(c, q) PROVE CallsInv'
  BY Zenon, <1>2, PlaceStep DEF R!handleDNSRequest, R!Begin, R!Process
<1>3. CASE R!prefetchWorker
  BY Zenon, <1>3, PlaceStep DEF R!prefetchWorker, R!Begin, R!Process
<1>4. ASSUME NEW p \in R!Process, R!Hit(p) \/ R!Miss(p) \/ R!ReceiveDone(p) PROVE CallsInv'
  BY Zenon, <1>4, PlaceStep DEF R!Hit, R!Miss, R!ReceiveDone, R!Goto
<1>5. ASSUME NEW p \in R!Process, R!Update(p) \/ R!Trigger(p) PROVE CallsInv'
  BY Zenon, <1>5, PlaceStep DEF R!Update, R!Trigger, R!Goto
<1>6. ASSUME NEW p \in R!Process, R!ContextDone(p) PROVE CallsInv'
  BY <1>1, <1>6 DEF R!ContextDone
<1>7. (\E q \in cache : R!Lose(q)) \/ UNCHANGED R!vars =>
          UNCHANGED <<pc, outcome, resultChan, received>>
  BY DEF R!Lose, R!vars
<1> QED
  BY Zenon, <1>1, <1>2, <1>3, <1>4, <1>5, <1>6, <1>7, AnswerStep, ReadStep, ReturnStep
     DEF R!Next, R!ExchangeWithOptimization

\* concurrentResolve gives up only when every server has failed, for any
\* number of calls and servers: no success is left unread in the channel.
THEOREM GivesUpLast ==
    ASSUME R!ConstantsOK
    PROVE  R!Spec => []R!FailureMeansAllFailed
<1>1. CallsInv /\ [R!Next]_R!vars => CallsInv'
  BY CallsStep
<1>2. CallsInv => R!FailureMeansAllFailed
  BY DEF CallsInv, CallInv, CallOK, R!FailureMeansAllFailed
<1> QED
  BY <1>1, <1>2, CallsInit, PTL DEF R!Spec

-----------------------------------------------------------------------------
(* The fast pool.                                                          *)

CONSTANTS ServerLists, MaxBest
VARIABLES servers, main, query, wg, closer, errorChan, fastDone, returned, latency, best

F == INSTANCE FastPool

(***************************************************************************)
(* The inductive invariant.  The wait group counts the goroutines that     *)
(* still run, so the channels are closed after the last of them; and only  *)
(* a closed channel yields neither a message nor an error.                 *)
(***************************************************************************)

Running == {s \in Server : ~F!Ended(s)}

Channels ==
    /\ resultChan \in [buffer : Seq(Server), closed : BOOLEAN]
    /\ errorChan \in [buffer : Seq(Server), closed : BOOLEAN]

Counted ==
    /\ query \in [Server -> {"none", "asking", "result", "error", "measuring", "done"}]
    /\ IsFiniteSet(Running)
    /\ wg = Cardinality(Running)

ClosedLast ==
    /\ closer \in {"none", "waiting", "closing", "ended"}
    /\ main = "idle" => closer = "none"
    /\ closer \in {"none", "waiting"} => ~resultChan.closed /\ ~errorChan.closed
    /\ closer \in {"closing", "ended"} => Running = {}

SilentLast == main = "fast" /\ returned.err = None /\ ~F!Answered => Running = {}

PoolInv == Channels /\ Counted /\ ClosedLast /\ SilentLast

\* The goroutines launched for a list of distinct servers are as many as
\* wg.Add was called for (fast_pool.go, the loops over servers).
LEMMA ListCount ==
    ASSUME F!ConstantsOK, NEW list \in ServerLists
    PROVE  IsFiniteSet(Range(list)) /\ Cardinality(Range(list)) = Len(list)
<1>1. list \in Seq(Server) /\ IsInjective(list)
  BY Zenon DEF F!ConstantsOK, F!IsInjective, IsInjective
<1>2. Len(list) \in Nat /\ DOMAIN list = 1..Len(list)
  BY <1>1
<1>3. list \in [1..Len(list) -> Range(list)]
  BY <1>1, <1>2 DEF Range
<1>4. \A t \in Range(list) : \E n \in 1..Len(list) : list[n] = t
  BY <1>2 DEF Range
<1>5. list \in Bijection(1..Len(list), Range(list))
  BY <1>1, <1>3, <1>4 DEF Bijection, Injection, Surjection
<1>6. ExistsBijection(1..Len(list), Range(list))
  BY <1>5 DEF ExistsBijection
<1>7. IsFiniteSet(1..Len(list))
  BY <1>2, FS_Interval, 1 \in Int, Len(list) \in Int
<1> QED
  BY <1>2, <1>6, <1>7, FS_Bijection, FS_CountingElements

\* A call starts without goroutines.
LEMMA PoolInit == F!Init => PoolInv
<1> SUFFICES ASSUME F!Init PROVE PoolInv
  OBVIOUS
<1>1. Running = {}
  BY DEF F!Init, Running, F!Ended
<1>2. Channels
  BY DEF F!Init, Channels, F!Empty
<1>3. Counted
  BY <1>1, FS_EmptySet DEF F!Init, Counted
<1>4. ClosedLast /\ SilentLast
  BY DEF F!Init, ClosedLast, SilentLast, F!Empty
<1> QED
  BY <1>2, <1>3, <1>4 DEF PoolInv

\* A goroutine that ends leaves the others running, one fewer.
LEMMA DoneCount ==
    ASSUME Counted, NEW s \in Server, ~F!Ended(s), F!Done(s)
    PROVE  Counted' /\ Running' = Running \ {s}
<1>1. Running' = Running \ {s}
  BY DEF Counted, F!Done, Running, F!Ended
<1>2. s \in Running
  BY DEF Running
<1> QED
  BY Zenon, <1>1, <1>2, FS_RemoveElement, FS_CardinalityType DEF Counted, F!Done

\* The goroutines of a list of servers are launched when none runs.
LEMMA LaunchCount ==
    ASSUME F!ConstantsOK, NEW list \in ServerLists, NEW kind \in {"asking", "measuring"},
           F!Launch(list, kind)
    PROVE  Counted'
<1>0. F!Range(list) = Range(list)
  BY Zenon DEF F!Range, Range
<1>1. Range(list) \subseteq Server
  BY DEF F!ConstantsOK, Range
<1>2. Running' = Range(list)
  BY Zenon, <1>0, <1>1 DEF F!Launch, Running, F!Ended
<1> QED
  BY <1>0, <1>1, <1>2, ListCount DEF F!Launch, Counted

\* A step of the call itself that starts or ends no goroutine.
LEMMA Unlaunched ==
    ASSUME PoolInv, UNCHANGED <<query, wg, closer, F!channels>>, main' # "idle", SilentLast'
    PROVE  PoolInv'
BY DEF PoolInv, F!channels, Channels, Counted, ClosedLast, Running, F!Ended

\* What a closed channel yields is nil, and anything else is not.
LEMMA ReceivedNil ==
    ASSUME F!ConstantsOK, PoolInv, NEW chan \in {resultChan, errorChan}, None \in F!Received(chan)
    PROVE  Running = {}
<1>1. chan.buffer \in Seq(Server)
  BY DEF PoolInv, Channels
<1>2. chan.buffer # <<>> => Head(chan.buffer) \in Server
  BY <1>1
<1>3. chan.closed
  BY <1>2 DEF F!ConstantsOK, F!Received
<1> QED
  BY <1>3 DEF PoolInv, ClosedLast

\* A send leaves a channel open or closed.
LEMMA Sent ==
    ASSUME NEW s \in Server, NEW chan \in [buffer : Seq(Server), closed : BOOLEAN]
    PROVE  /\ F!Put(chan, s) \in [buffer : Seq(Server), closed : BOOLEAN]
           /\ F!Put(chan, s).closed = chan.closed
<1>1. Append(chan.buffer, s) \in Seq(Server)
  OBVIOUS
<1> QED
  BY <1>1 DEF F!Put

\* PoolInv is inductive.
LEMMA PoolStep ==
    ASSUME F!ConstantsOK, PoolInv, [F!Next]_F!vars
    PROVE  PoolInv'
<1>1. CASE UNCHANGED F!vars
  BY <1>1 DEF PoolInv, Channels, Counted, ClosedLast, SilentLast, Running, F!Ended, F!Answered,
     F!vars, F!channels
<1>2. CASE F!NoServers
  BY Zenon, <1>2, Unlaunched DEF F!NoServers, SilentLast
<1>3. ASSUME NEW list \in ServerLists, F!concurrentExchange(list) \/ F!measureLatency(list)
      PROVE  PoolInv'
  <2>1. Counted'
    BY <1>3, LaunchCount DEF F!concurrentExchange, F!measureLatency
  <2> QED
    BY <1>3, <2>1 DEF F!concurrentExchange, F!measureLatency, PoolInv, F!channels, Channels,
       ClosedLast, SilentLast
<1>4. CASE F!Deadline
  BY Zenon, <1>4, Unlaunched DEF F!Deadline, SilentLast
<1>5. ASSUME NEW s \in Server, F!quickQuery(s) PROVE PoolInv'
  <2>1. Running' = Running
    BY Zenon, <1>5 DEF F!quickQuery, PoolInv, Counted, Running, F!Ended
  <2> QED
    BY Zenon, <1>5, <2>1 DEF F!quickQuery, PoolInv, F!channels, Channels, Counted, ClosedLast,
       SilentLast, F!Answered
<1>6. ASSUME NEW s \in Server, F!SendResult(s) \/ F!SendError(s) \/ F!GiveUp(s) \/ F!Measure(s)
      PROVE  PoolInv'
  <2>1. ~F!Ended(s) /\ F!Done(s)
    BY <1>6 DEF F!SendResult, F!SendError, F!GiveUp, F!Measure, F!Ended
  <2>2. Counted' /\ Running' = Running \ {s}
    BY <2>1, DoneCount DEF PoolInv
  <2>3. \A chan \in [buffer : Seq(Server), closed : BOOLEAN] :
            /\ F!Put(chan, s) \in [buffer : Seq(Server), closed : BOOLEAN]
            /\ F!Put(chan, s).closed = chan.closed
    BY Zenon, Sent
  <2>4. /\ UNCHANGED <<main, closer, returned>>
        /\ resultChan'.closed = resultChan.closed /\ errorChan'.closed = errorChan.closed
        /\ Channels'
    BY Zenon, <1>6, <2>3
       DEF F!SendResult, F!SendError, F!GiveUp, F!Measure, F!channels, PoolInv, Channels
  <2> QED
    BY Zenon, <2>2, <2>4 DEF PoolInv, ClosedLast, SilentLast, F!Answered
<1>7. CASE F!CloseResults \/ F!CloseErrors
  <2>1. Running' = Running /\ Counted'
    BY <1>7 DEF F!CloseResults, F!CloseErrors, PoolInv, Counted, Running, F!Ended
  <2>2. Running = {}
    BY Zenon, <1>7, FS_EmptySet DEF F!CloseResults, F!CloseErrors, PoolInv, Counted, ClosedLast
  <2> QED
    BY Zenon, <1>7, <2>1, <2>2
       DEF F!CloseResults, F!CloseErrors, PoolInv, Channels, ClosedLast, SilentLast
<1>8. ASSUME NEW msg, NEW err, F!ReturnFast(msg, err), msg # None \/ err # None \/ Running = {}
      PROVE  PoolInv'
  <2>1. Running' = Running
    BY <1>8 DEF F!ReturnFast, Running, F!Ended
  <2>2. SilentLast'
    BY <1>8, <2>1 DEF F!ReturnFast, SilentLast, F!Answered
  <2> QED
    BY Zenon, <1>8, <2>2, Unlaunched DEF F!ReturnFast
<1>9. CASE F!ReceiveResult
  BY <1>8, <1>9, ReceivedNil DEF F!ReceiveResult
<1>10. CASE F!ReceiveError
  BY Zenon, <1>8, <1>10, ReceivedNil DEF F!ReceiveError
<1>11. CASE F!ReceiveDone
  BY <1>8, <1>11 DEF F!ConstantsOK, F!ReceiveDone
<1>12. CASE F!exchangeWithFallback
  BY Zenon, <1>12, Unlaunched DEF F!exchangeWithFallback, SilentLast
<1>13. CASE F!Fallback
  BY Zenon, <1>13, Unlaunched DEF F!Fallback, SilentLast
<1>14. CASE F!selectBestServers
  BY Zenon, <1>14, Unlaunched DEF F!selectBestServers, SilentLast
<1> QED
  BY Zenon, <1>1, <1>2, <1>3, <1>4, <1>5, <1>6, <1>7, <1>9, <1>10, <1>11, <1>12, <1>13, <1>14
     DEF F!Next, F!QueryStep, F!CloserStep, F!MainStep

\* The channels of concurrentExchange are closed, and it returns neither a
\* message nor an error, only after the goroutines of all servers, however
\* many: none ever sends on a closed channel.
THEOREM NoSendOnClosed ==
    ASSUME F!ConstantsOK
    PROVE  F!Spec => []F!SilentOnlyAtEnd
<1>0. PoolInv /\ [F!Next]_F!vars => PoolInv'
  BY PoolStep
<1>1. PoolInv => F!SilentOnlyAtEnd
  BY DEF PoolInv, ClosedLast, SilentLast, F!SilentOnlyAtEnd, Running
<1> QED
  BY <1>0, <1>1, PoolInit, PTL DEF F!Spec

=============================================================================
