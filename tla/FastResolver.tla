---------------------------- MODULE FastResolver ----------------------------
(***************************************************************************)
(* The resolver of the optimised server (fast_resolver.go and the handler  *)
(* in cmd/optimized_server_main.go).                                       *)
(*                                                                         *)
(* A request is answered from the cache, or by the first of a fixed list   *)
(* of servers to give a successful answer.  A name below a popular TLD is  *)
(* then queued for the prefetch worker, which makes the same call for its  *)
(* A records, so that it may queue the name once more itself.              *)
(*                                                                         *)
(* A message is left out but for its success.  The cache is external: it   *)
(* may lose an entry at any time.  A goroutine that still waits for its    *)
(* server when the call returns is forgotten: the channel has room for the *)
(* result of every server, so it ends without anyone's help.               *)
(***************************************************************************)
EXTENDS Integers, Sequences, FiniteSets

CONSTANTS
    Client,          \* requests handled at a time, and the cache warmer
    Worker,          \* the prefetch worker
    Server,          \* getNameservers
    Name, Popular,   \* shouldPrefetch holds of the names in Popular
    Type,
    Asked,           \* the questions, <<name, type>>, of the clients
    QueueSize,       \* capacity of prefetchCh (1000)
    None

ConstantsOK ==
    /\ Popular \subseteq Name
    /\ "A" \in Type /\ Asked \subseteq Name \X Type
    /\ IsFiniteSet(Server) /\ Server # {}
    /\ QueueSize \in Nat \ {0}

ASSUME ResolverAssumption == ConstantsOK

VARIABLES
    cache,           \* the questions with an entry
    prefetchCh,
    pc,              \* of each process that runs ExchangeWithOptimization
    question,
    outcome,         \* what each server has said to its call
    resultChan,      \* the servers whose results wait in the channel
    i,               \* results received so far
    done             \* the context of the call is done

call == <<outcome, resultChan, i, done>>
vars == <<cache, prefetchCh, pc, question, call>>

Process == Client \cup {Worker}
Question == Name \X Type

Init ==
    /\ cache = {}
    /\ prefetchCh = <<>>
    /\ pc = [p \in Process |-> "idle"]
    /\ question = [p \in Process |-> None]
    /\ outcome = [p \in Process |-> [s \in Server |-> "asked"]]
    /\ resultChan = [p \in Process |-> <<>>]
    /\ i = [p \in Process |-> 0]
    /\ done = [p \in Process |-> FALSE]

Lose(q) ==
    /\ q \in cache
    /\ cache' = cache \ {q}
    /\ UNCHANGED <<prefetchCh, pc, question, call>>

Begin(p, q) ==
    /\ pc[p] = "idle"
    /\ pc' = [pc EXCEPT ![p] = "get"]
    /\ question' = [question EXCEPT ![p] = q]

Goto(p, place) == pc' = [pc EXCEPT ![p] = place]

-----------------------------------------------------------------------------
\* A request comes in, or it is time to warm the cache.
handleDNSRequest(c, q) ==
    /\ Begin(c, q)
    /\ UNCHANGED <<cache, prefetchCh, call>>

prefetchWorker ==
    /\ prefetchCh # <<>>
    /\ Begin(Worker, <<Head(prefetchCh), "A">>)
    /\ prefetchCh' = Tail(prefetchCh)
    /\ UNCHANGED <<cache, call>>

Hit(p) ==
    /\ pc[p] = "get"
    /\ question[p] \in cache
    /\ Goto(p, "message")
    /\ UNCHANGED <<cache, prefetchCh, question, call>>

\* concurrentResolve asks every server.
Miss(p) ==
    /\ pc[p] = "get"
    /\ question[p] \notin cache
    /\ Goto(p, "wait")
    /\ UNCHANGED <<cache, prefetchCh, question, call>>

\* A "failure" is an error or an Rcode other than success.
exchangeWithFastTimeout(p, s) ==
    /\ pc[p] = "wait"
    /\ outcome[p][s] = "asked"
    /\ outcome' \in {[outcome EXCEPT ![p][s] = o] : o \in {"success", "failure"}}
    /\ resultChan' = [resultChan EXCEPT ![p] = Append(@, s)]
    /\ UNCHANGED <<cache, prefetchCh, pc, question, i, done>>

ContextDone(p) ==
    /\ pc[p] = "wait" /\ ~done[p]
    /\ done' = [done EXCEPT ![p] = TRUE]
    /\ UNCHANGED <<cache, prefetchCh, pc, question, outcome, resultChan, i>>

\* Mutant: the loop ends one result too early.
Last_OffByOne(n) == n >= Cardinality(Server) - 1

\* Mutant: the loop waits for one result more than there are servers.
Last_OneMore(n) == n > Cardinality(Server)

Last(n) == n >= Cardinality(Server)

\* A result of the loop in concurrentResolve.
Receive(p) ==
    /\ pc[p] = "wait"
    /\ resultChan[p] # <<>>
    /\ resultChan' = [resultChan EXCEPT ![p] = Tail(@)]
    /\ i' = [i EXCEPT ![p] = @ + 1]
    /\ Goto(p, IF outcome[p][Head(resultChan[p])] = "success" THEN "update"
               ELSE IF Last(i[p] + 1) THEN "no nameservers" ELSE "wait")
    /\ UNCHANGED <<cache, prefetchCh, question, outcome, done>>

ReceiveDone(p) ==
    /\ pc[p] = "wait"
    /\ done[p]
    /\ Goto(p, "ctx.Err")
    /\ UNCHANGED <<cache, prefetchCh, question, call>>

shouldPrefetch(q) == q[1] \in Popular

Update(p) ==
    /\ pc[p] = "update"
    /\ cache' = cache \cup {question[p]}
    /\ Goto(p, IF shouldPrefetch(question[p]) THEN "prefetch" ELSE "message")
    /\ UNCHANGED <<prefetchCh, question, call>>

\* A full channel is left alone.
Trigger(p) ==
    /\ pc[p] = "prefetch"
    /\ prefetchCh' = IF Len(prefetchCh) < QueueSize
                     THEN Append(prefetchCh, question[p][1]) ELSE prefetchCh
    /\ Goto(p, "message")
    /\ UNCHANGED <<cache, question, call>>

Results == {"message", "no nameservers", "ctx.Err"}

\* The call returns; its context is cancelled, and its channel forgotten.
Return(p) ==
    /\ pc[p] \in Results
    /\ Goto(p, "idle")
    /\ question' = [question EXCEPT ![p] = None]
    /\ outcome' = [outcome EXCEPT ![p] = [s \in Server |-> "asked"]]
    /\ resultChan' = [resultChan EXCEPT ![p] = <<>>]
    /\ i' = [i EXCEPT ![p] = 0]
    /\ done' = [done EXCEPT ![p] = FALSE]
    /\ UNCHANGED <<cache, prefetchCh>>

-----------------------------------------------------------------------------
ExchangeWithOptimization(p) ==
    \/ Hit(p) \/ Miss(p)
    \/ Receive(p) \/ ReceiveDone(p)
    \/ Update(p) \/ Trigger(p) \/ Return(p)

Next ==
    \/ \E q \in cache : Lose(q)
    \/ \E c \in Client, q \in Asked : handleDNSRequest(c, q)
    \/ prefetchWorker
    \/ \E p \in Process :
          \/ ExchangeWithOptimization(p)
          \/ ContextDone(p)
          \/ \E s \in Server : exchangeWithFastTimeout(p, s)

Spec == Init /\ [][Next]_vars

\* Goroutines run, and each query ends by its own timeout of 50 ms.
FairSpec ==
    /\ Spec
    /\ WF_vars(prefetchWorker)
    /\ \A p \in Process :
          /\ WF_vars(ExchangeWithOptimization(p))
          /\ \A s \in Server : WF_vars(exchangeWithFastTimeout(p, s))

-----------------------------------------------------------------------------
(* Properties.                                                             *)

\* The type invariant of the fast resolver.
TypeOK ==
    /\ cache \subseteq Question
    /\ prefetchCh \in Seq(Name) /\ Len(prefetchCh) <= QueueSize
    /\ pc \in [Process -> {"idle", "get", "wait", "update", "prefetch"} \cup Results]
    /\ question \in [Process -> Question \cup {None}]
    /\ i \in [Process -> 0..Cardinality(Server)]

\* "No nameservers available" comes out of concurrentResolve only when every
\* server has failed, whatever the order of the results: no success is left
\* unread in the channel.
FailureMeansAllFailed ==
    \A p \in Process :
        pc[p] = "no nameservers" => \A s \in Server : outcome[p][s] = "failure"

\* Every call returns, those of the worker included: a full prefetch channel
\* holds up nobody, although the worker that empties it also fills it.
CallReturns == \A p \in Process : pc[p] = "get" ~> pc[p] = "idle"

=============================================================================
