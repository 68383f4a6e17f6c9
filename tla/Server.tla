------------------------------- MODULE Server -------------------------------
(***************************************************************************)
(* The DNS server (server.go): the handler, the queue of queries, the      *)
(* pool of workers, processQuery, and the prefetch manager.                *)
(*                                                                         *)
(* Every worker and every prefetch uses the one cache, which here is a     *)
(* map of messages with their expiry (module DnsCache has its lists and    *)
(* locks).  A message is abstracted to what the resolver knows of it: its  *)
(* kind is "plain" if the query had no DO bit, else the result of the      *)
(* authentication; its Rcode; and its AD bit.                              *)
(***************************************************************************)
EXTENDS Integers, Sequences, FiniteSets

CONSTANTS
    Request,      \* the requests that clients send
    Question,     \* what they can ask
    QuestionOf,   \* the question of each request
    FlagOf,       \* "DO" if the request has the DO bit, else "plain"
    Root,         \* the question for the root name, if there is one
    Hyphened,     \* questions with a "-" in the name
    Worker,
    QueueSize,    \* the capacity of the channel queries
    Threshold,    \* accesses that make a question popular
    Results,      \* the authentication results of queries with the DO bit
    Validator,    \* whether the configuration has EnableDNSSEC
    Lifetimes,    \* lifetimes that set may give to an entry
    NegativeTTL,  \* the lifetime of a negative entry
    MaxTime,      \* bound: the last time
    MaxRounds,    \* bound: the rounds of prefetchAllDomains
    None

\* What an exchange can bring, by the DO bit of its query.
Kinds(flag) == IF flag = "DO" THEN Results ELSE {"plain"}
Message == [kind : Kinds("DO") \cup Kinds("plain"), rcode : {"normal", "SERVFAIL"}, ad : BOOLEAN]

\* The reply that processQuery makes itself; its kind is that of the
\* response it does not use, or "error".
Failure(kind) == [kind |-> kind, rcode |-> "SERVFAIL", ad |-> FALSE]

ConstantsOK ==
    /\ IsFiniteSet(Request) /\ IsFiniteSet(Question)
    /\ QuestionOf \in [Request -> Question]
    /\ FlagOf \in [Request -> {"plain", "DO"}]
    /\ Hyphened \subseteq Question
    /\ QueueSize \in Nat \ {0} /\ Threshold \in Nat \ {0}
    /\ Results \subseteq {"secure", "insecure", "bogus"}
    /\ Validator \in BOOLEAN
    /\ Lifetimes \subseteq Nat \ {0} /\ NegativeTTL \in Nat
    /\ MaxTime \in Nat /\ MaxRounds \in Nat
    /\ None \notin Request /\ None \notin Message /\ None # Failure("error")

ASSUME ServerAssumption == ConstantsOK

VARIABLES
    now,
    queries,      \* the channel
    sent,         \* the requests whose handler has put them on the channel
    pc,           \* where each worker is: "idle", "get", "record" or "exchange"
    job,          \* its request
    reply,        \* the message written to the client of each request, or None
    cache,        \* the message that the cache has for a question, or None
    expires,      \* and until when
    negative,     \* until when it has a negative entry; 0: never had one
    popular,      \* the accesses counted for a question
    checking,     \* goroutines of prefetchRecord about to look in the cache
    asking,       \* and the ones in their exchange
    unlisted,     \* a round of prefetchAllDomains: questions not yet looked at, or None
    domains,      \* and the ones it has listed
    rounds,       \* rounds so far
    validated,    \* the validator of the server has had an input
    accesses,     \* history: calls of recordAccess for a question
    started       \* history: prefetches they started

clients == <<queries, sent, reply>>
store == <<cache, expires, negative>>
round == <<unlisted, domains, rounds>>
prefetch == <<popular, checking, asking>>
history == <<accesses, started>>
vars == <<now, clients, pc, job, store, prefetch, round, validated, history>>

Question0 == [q \in Question |-> 0]
Held(q) == cache[q] /= None /\ now < expires[q]

Init ==
    /\ now = 0
    /\ queries = <<>> /\ sent = {}
    /\ pc = [w \in Worker |-> "idle"] /\ job = [w \in Worker |-> None]
    /\ reply = [r \in Request |-> None]
    /\ cache = [q \in Question |-> None] /\ expires = Question0 /\ negative = Question0
    /\ popular = Question0 /\ checking = Question0 /\ asking = Question0
    /\ unlisted = None /\ domains = {} /\ rounds = 0
    /\ validated = FALSE
    /\ accesses = Question0 /\ started = Question0

Tick ==
    /\ now < MaxTime
    /\ now' = now + 1
    /\ UNCHANGED <<clients, pc, job, store, prefetch, round, validated, history>>

-----------------------------------------------------------------------------
(* The cache, as the server uses it. *)

\* DNSCache.set of a message with some lifetime.
CacheSet(q, m) ==
    \E life \in Lifetimes :
        /\ cache' = [cache EXCEPT ![q] = m]
        /\ expires' = [expires EXCEPT ![q] = now + life]
        /\ UNCHANGED negative

\* DNSCache.setNegative: an entry under a key of its own.
SetNegative(q) ==
    /\ negative' = [negative EXCEPT ![q] = now + NegativeTTL]
    /\ UNCHANGED <<cache, expires>>

\* An entry makes room for another one, or the cleaner removes it.
Evict(q) ==
    /\ cache[q] /= None
    /\ cache' = [cache EXCEPT ![q] = None]
    /\ UNCHANGED <<now, clients, pc, job, expires, negative, prefetch, round, validated, history>>

\* The message of a successful exchange as the resolver returns it.
Resolved(kind) ==
    [kind |-> kind, rcode |-> IF kind = "bogus" THEN "SERVFAIL" ELSE "normal", ad |-> kind = "secure"]

\* An exchange that follows a CNAME record caches what it got for the target.
CacheTarget(q, kind) ==
    /\ \/ \E w \in Worker :
            pc[w] = "exchange" /\ q /= QuestionOf[job[w]] /\ kind \in Kinds(FlagOf[job[w]])
       \/ \E p \in Question \ {q} : asking[p] > 0 /\ kind \in Kinds("DO")
    /\ CacheSet(q, Resolved(kind))
    /\ UNCHANGED <<now, clients, pc, job, prefetch, round, validated, history>>

-----------------------------------------------------------------------------
(* Handler and workers. *)

\* The handler of a request blocks until the channel has room.
handleDNS(r) ==
    /\ r \notin sent
    /\ Len(queries) < QueueSize
    /\ queries' = Append(queries, r)
    /\ sent' = sent \cup {r}
    /\ UNCHANGED <<now, pc, job, reply, store, prefetch, round, validated, history>>

Receive(w) ==
    /\ pc[w] = "idle"
    /\ queries /= <<>>
    /\ job' = [job EXCEPT ![w] = Head(queries)]
    /\ queries' = Tail(queries)
    /\ pc' = [pc EXCEPT ![w] = "get"]
    /\ UNCHANGED <<now, sent, reply, store, prefetch, round, validated, history>>

\* WriteMsg, and back to the channel.
WriteMsg(w, m) ==
    /\ reply' = [reply EXCEPT ![job[w]] = m]
    /\ job' = [job EXCEPT ![w] = None]
    /\ pc' = [pc EXCEPT ![w] = "idle"]
    /\ UNCHANGED <<queries, sent>>

\* Mutant: no return after the reply from the cache.
Hit_NoReturn(w) ==
    LET q == QuestionOf[job[w]] IN
    /\ pc[w] = "get"
    /\ Held(q)
    /\ reply' = [reply EXCEPT ![job[w]] =
                    IF FlagOf[job[w]] = "DO" THEN [cache[q] EXCEPT !.ad = TRUE] ELSE cache[q]]
    /\ pc' = [pc EXCEPT ![w] = "record"]
    /\ UNCHANGED <<now, queries, sent, job, store, prefetch, round, validated, history>>

\* A cached message is the reply; the DO bit sets its AD bit.
Hit(w) ==
    LET q == QuestionOf[job[w]] IN
    /\ pc[w] = "get"
    /\ Held(q)
    /\ WriteMsg(w, IF FlagOf[job[w]] = "DO" THEN [cache[q] EXCEPT !.ad = TRUE] ELSE cache[q])
    /\ UNCHANGED <<now, store, prefetch, round, validated, history>>

\* Looking for an entry that has expired removes it.
Miss(w) ==
    LET q == QuestionOf[job[w]] IN
    /\ pc[w] = "get"
    /\ ~Held(q)
    /\ cache' = [cache EXCEPT ![q] = None]
    /\ pc' = [pc EXCEPT ![w] = "record"]
    /\ UNCHANGED <<now, clients, job, expires, negative, prefetch, round, validated, history>>

\* Mutant: the counter goes on after the prefetch.
recordAccess_NoReset(w) ==
    LET q == QuestionOf[job[w]]
        popularNow == popular[q] + 1 >= Threshold IN
    /\ pc[w] = "record"
    /\ unlisted = None
    /\ popular' = [popular EXCEPT ![q] = @ + 1]
    /\ checking' = [checking EXCEPT ![q] = IF popularNow THEN @ + 1 ELSE @]
    /\ accesses' = [accesses EXCEPT ![q] = @ + 1]
    /\ started' = [started EXCEPT ![q] = IF popularNow THEN @ + 1 ELSE @]
    /\ pc' = [pc EXCEPT ![w] = "exchange"]
    /\ UNCHANGED <<now, clients, job, store, asking, round, validated>>

\* Under the lock of the prefetch manager.
recordAccess(w) ==
    LET q == QuestionOf[job[w]]
        popularNow == popular[q] + 1 >= Threshold IN
    /\ pc[w] = "record"
    /\ unlisted = None
    /\ popular' = [popular EXCEPT ![q] = IF popularNow THEN 0 ELSE @ + 1]
    /\ checking' = [checking EXCEPT ![q] = IF popularNow THEN @ + 1 ELSE @]
    /\ accesses' = [accesses EXCEPT ![q] = @ + 1]
    /\ started' = [started EXCEPT ![q] = IF popularNow THEN @ + 1 ELSE @]
    /\ pc' = [pc EXCEPT ![w] = "exchange"]
    /\ UNCHANGED <<now, clients, job, store, asking, round, validated>>

ExchangeFails(w) ==
    /\ pc[w] = "exchange"
    /\ SetNegative(QuestionOf[job[w]])
    /\ WriteMsg(w, Failure("error"))
    /\ UNCHANGED <<now, prefetch, round, validated, history>>

\* validateDNSSEC: the validator was made for the empty question, of which
\* no name but the root is an ancestor; it takes one response for the root,
\* with no keys to verify it with.
validateDNSSEC(q) ==
    IF q /= Root THEN "Bogus" ELSE IF validated THEN "Bogus" ELSE "Insecure"

\* The validator does not find the response secure.
ExchangeRefused(w, kind) ==
    LET q == QuestionOf[job[w]] IN
    /\ pc[w] = "exchange"
    /\ kind \in Kinds(FlagOf[job[w]])
    /\ FlagOf[job[w]] = "DO" /\ Validator
    /\ validateDNSSEC(q) /= "Secure"
    /\ validated' = (validated \/ q = Root)
    /\ WriteMsg(w, Failure(kind))
    /\ UNCHANGED <<now, store, prefetch, round, history>>

\* The response is cached and is the reply.
ExchangeAnswers(w, kind) ==
    LET flag == FlagOf[job[w]]
        m == IF flag = "DO" THEN [Resolved(kind) EXCEPT !.ad = Validator] ELSE Resolved(kind) IN
    /\ pc[w] = "exchange"
    /\ kind \in Kinds(flag)
    /\ flag = "DO" /\ Validator => validateDNSSEC(QuestionOf[job[w]]) = "Secure"
    /\ CacheSet(QuestionOf[job[w]], m)
    /\ WriteMsg(w, m)
    /\ UNCHANGED <<now, prefetch, round, validated, history>>

-----------------------------------------------------------------------------
(* The prefetch manager. *)

\* prefetchRecord of a question that is in the cache.
PrefetchSkips(q) ==
    /\ checking[q] > 0 /\ Held(q)
    /\ checking' = [checking EXCEPT ![q] = @ - 1]
    /\ UNCHANGED <<now, clients, pc, job, store, popular, asking, round, validated, history>>

PrefetchAsks(q) ==
    /\ checking[q] > 0 /\ ~Held(q)
    /\ cache' = [cache EXCEPT ![q] = None]
    /\ checking' = [checking EXCEPT ![q] = @ - 1]
    /\ asking' = [asking EXCEPT ![q] = @ + 1]
    /\ UNCHANGED <<now, clients, pc, job, expires, negative, popular, round, validated, history>>

PrefetchFails(q) ==
    /\ asking[q] > 0
    /\ asking' = [asking EXCEPT ![q] = @ - 1]
    /\ UNCHANGED <<now, clients, pc, job, store, popular, checking, round, validated, history>>

\* Its query has the DO bit.
PrefetchSets(q, kind) ==
    /\ asking[q] > 0
    /\ asking' = [asking EXCEPT ![q] = @ - 1]
    /\ CacheSet(q, Resolved(kind))
    /\ UNCHANGED <<now, clients, pc, job, popular, checking, round, validated, history>>

\* A round of prefetchAllDomains takes the lock,
RoundStarts ==
    /\ unlisted = None
    /\ rounds < MaxRounds
    /\ rounds' = rounds + 1
    /\ unlisted' = Question /\ domains' = {}
    /\ UNCHANGED <<now, clients, pc, job, store, prefetch, validated, history>>

\* goes through the shards; a key splits into three parts only if the name
\* has no "-";
getAllDomains(q) ==
    /\ unlisted /= None /\ q \in unlisted
    /\ unlisted' = unlisted \ {q}
    /\ domains' = IF Held(q) /\ q \notin Hyphened THEN domains \cup {q} ELSE domains
    /\ UNCHANGED <<now, clients, pc, job, store, prefetch, rounds, validated, history>>

\* Mutant: the lock is not released.
RoundEnds_Locked ==
    /\ unlisted = {}
    /\ checking' = [q \in Question |-> IF q \in domains THEN checking[q] + 1 ELSE checking[q]]
    /\ popular' = Question0
    /\ domains' = {}
    /\ UNCHANGED <<now, clients, pc, job, store, asking, unlisted, rounds, validated, history>>

\* and starts a prefetch for each of them.
RoundEnds ==
    /\ unlisted = {}
    /\ checking' = [q \in Question |-> IF q \in domains THEN checking[q] + 1 ELSE checking[q]]
    /\ popular' = Question0
    /\ unlisted' = None /\ domains' = {}
    /\ UNCHANGED <<now, clients, pc, job, store, asking, rounds, validated, history>>

-----------------------------------------------------------------------------
\* An exchange that panics ends the process, for nothing recovers it: of the
\* server that is left then (none) there is nothing to say here.  Module
\* ResolverExchange has the panic of clone.
ExchangeReturns(w) ==
    \/ ExchangeFails(w)
    \/ \E kind \in Kinds("DO") \cup Kinds("plain") : ExchangeRefused(w, kind) \/ ExchangeAnswers(w, kind)

worker(w) == Receive(w) \/ Hit(w) \/ Miss(w) \/ recordAccess(w) \/ ExchangeReturns(w)

prefetchRecord(q) ==
    \/ PrefetchSkips(q) \/ PrefetchAsks(q) \/ PrefetchFails(q)
    \/ \E kind \in Kinds("DO") : PrefetchSets(q, kind)

prefetchAllDomains == RoundStarts \/ (\E q \in Question : getAllDomains(q)) \/ RoundEnds

Next ==
    \/ Tick
    \/ \E r \in Request : handleDNS(r)
    \/ \E w \in Worker : worker(w)
    \/ \E q \in Question : prefetchRecord(q) \/ Evict(q)
    \/ \E q \in Question, kind \in Kinds("DO") \cup Kinds("plain") : CacheTarget(q, kind)
    \/ prefetchAllDomains

Spec == Init /\ [][Next]_vars

\* The goroutines are scheduled, and an exchange returns: its loop takes at
\* most one iteration for each label (LabelsSuffice of ResolverExchange), and
\* every iteration makes a bounded number of queries that have timeouts.
FairSpec ==
    /\ Spec
    /\ \A r \in Request : WF_vars(handleDNS(r))
    /\ \A w \in Worker : WF_vars(worker(w))
    /\ WF_vars((\E q \in Question : getAllDomains(q)) \/ RoundEnds)

-----------------------------------------------------------------------------
(* Properties. *)

TypeOK ==
    /\ now \in 0..MaxTime
    /\ queries \in Seq(Request) /\ Len(queries) <= QueueSize
    /\ sent \subseteq Request
    /\ pc \in [Worker -> {"idle", "get", "record", "exchange"}]
    /\ job \in [Worker -> Request \cup {None}]
    /\ \A r \in Request : reply[r] \in Message \cup {Failure("error"), None}
    /\ \A q \in Question : cache[q] \in Message \cup {None}
    /\ expires \in [Question -> Nat] /\ negative \in [Question -> Nat]
    /\ popular \in [Question -> 0..(Threshold - 1)]
    /\ checking \in [Question -> Nat] /\ asking \in [Question -> Nat]
    /\ (unlisted = None) \/ (unlisted \subseteq Question)
    /\ domains \subseteq Question \ Hyphened
    /\ rounds \in 0..MaxRounds
    /\ validated \in BOOLEAN
    /\ accesses \in [Question -> Nat] /\ started \in [Question -> Nat]

\* The places that have a request: the channel, and workers.
Places(r) ==
    {<<"channel", i>> : i \in {j \in 1..Len(queries) : queries[j] = r}}
    \cup {<<"worker", w>> : w \in {v \in Worker : job[v] = r}}

\* A request that a handler has put on the channel is, until its reply is
\* written, in exactly one place: on the channel once or with one worker of
\* the pool; before and after, in none.  So it is processed and answered
\* exactly once.
EachRequestOnce ==
    \A r \in Request :
        Cardinality(Places(r)) = IF r \in sent /\ reply[r] = None THEN 1 ELSE 0

\* recordAccess starts at most one prefetch for every Threshold accesses to
\* a question that were not in the cache, whatever workers count at the same
\* time and whenever prefetchAllDomains clears the counters.
PrefetchesBounded ==
    \A q \in Question : started[q] * Threshold + popular[q] <= accesses[q]

\* Every query that the handler takes gets a reply: the queue is drained,
\* with prefetch rounds that hold the lock recordAccess needs, and whatever
\* the exchanges bring, as long as none panics.
EveryRequestReplied ==
    \A r \in Request : <>(reply[r] /= None)

=============================================================================
