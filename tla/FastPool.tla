------------------------------ MODULE FastPool ------------------------------
(***************************************************************************)
(* The pool that asks all its servers at once (fast_pool.go).              *)
(*                                                                         *)
(* exchangeWithFallback lets a goroutine per server race for 30 ms, with   *)
(* one channel for answers and one for errors, both closed by a goroutine  *)
(* that waits for the others, and asks the first server if nothing came of *)
(* that.  selectBestServers measures all servers and keeps the fast ones.  *)
(* Calls share nothing, so the module has one, of either kind.             *)
(*                                                                         *)
(* A message is the server it came from.  dns.Client.ExchangeContext       *)
(* (external) returns either a message or an error.                        *)
(***************************************************************************)
EXTENDS Integers, Sequences, FiniteSets, Functions

CONSTANTS
    Server,
    ServerLists,     \* the lists of servers, without duplicates, of a call
    MaxBest,         \* the argument max of selectBestServers
    None

ConstantsOK ==
    /\ ServerLists \subseteq Seq(Server)
    /\ \A list \in ServerLists : IsInjective(list)
    /\ MaxBest \in Nat
    /\ None \notin Server \cup {"DeadlineExceeded"}

ASSUME PoolAssumption == ConstantsOK

VARIABLES
    servers,
    main,            \* where the call is
    query,           \* where the goroutine of each server is
    wg,
    closer,          \* the goroutine that closes the channels
    resultChan,
    errorChan,       \* each with its buffer and whether it is closed
    fastDone,        \* fastCtx is done
    returned,        \* what exchangeFast, and then the call, returned
    latency,         \* the servers measured so far: "fast" is below 50 ms
    best

channels == <<resultChan, errorChan>>
measured == <<latency, best>>
vars == <<servers, main, query, wg, closer, channels, fastDone, returned, measured>>

Empty == [buffer |-> <<>>, closed |-> FALSE]

Init ==
    /\ servers = <<>>
    /\ main = "idle"
    /\ query = [s \in Server |-> "none"]
    /\ wg = 0
    /\ closer = "none"
    /\ resultChan = Empty /\ errorChan = Empty
    /\ fastDone = FALSE
    /\ returned = None
    /\ latency = [s \in Server |-> None]
    /\ best = None

\* A goroutine for each server of the list.
Launch(list, kind) ==
    /\ servers' = list
    /\ query' = [s \in Server |-> IF s \in Range(list) THEN kind ELSE "none"]
    /\ wg' = Len(list)

\* wg.Done, on the goroutine's way out.
Done(s) ==
    /\ query' = [query EXCEPT ![s] = "done"]
    /\ wg' = wg - 1

-----------------------------------------------------------------------------
(* exchangeFast and exchangeWithFallback.                                  *)

\* Without servers both say that there are none.
NoServers ==
    /\ main = "idle"
    /\ <<>> \in ServerLists
    /\ main' = "returned"
    /\ returned' = [msg |-> None, err |-> "no nameservers"]
    /\ UNCHANGED <<servers, query, wg, closer, channels, fastDone, measured>>

concurrentExchange(list) ==
    /\ main = "idle"
    /\ Launch(list, "asking")
    /\ main' = "select"
    /\ closer' = "waiting"
    /\ UNCHANGED <<channels, fastDone, returned, measured>>

\* The 30 ms are over, or the context of the caller is done.
Deadline ==
    /\ main = "select"
    /\ fastDone' = TRUE
    /\ UNCHANGED <<servers, main, query, wg, closer, channels, returned, measured>>

quickQuery(s) ==
    /\ query[s] = "asking"
    /\ query' \in {[query EXCEPT ![s] = kind] : kind \in {"result", "error"}}
    /\ UNCHANGED <<servers, main, wg, closer, channels, fastDone, returned, measured>>

\* Both channels have room for a value from every server.
HasRoom(chan) == Len(chan.buffer) < Len(servers)

Put(chan, v) == [chan EXCEPT !.buffer = Append(@, v)]

SendResult(s) ==
    /\ query[s] = "result"
    /\ HasRoom(resultChan)
    /\ resultChan' = Put(resultChan, s)
    /\ Done(s)
    /\ UNCHANGED <<servers, main, closer, errorChan, fastDone, returned, measured>>

\* Mutant: wg.Done is not deferred, and this return misses it.
SendError_NoDone(s) ==
    /\ query[s] = "error"
    /\ HasRoom(errorChan)
    /\ errorChan' = Put(errorChan, s)
    /\ query' = [query EXCEPT ![s] = "done"]
    /\ UNCHANGED <<servers, main, wg, closer, resultChan, fastDone, returned, measured>>

SendError(s) ==
    /\ query[s] = "error"
    /\ HasRoom(errorChan)
    /\ errorChan' = Put(errorChan, s)
    /\ Done(s)
    /\ UNCHANGED <<servers, main, closer, resultChan, fastDone, returned, measured>>

\* The other case of both selects: what was to be sent is dropped.
GiveUp(s) ==
    /\ query[s] \in {"result", "error"}
    /\ fastDone
    /\ Done(s)
    /\ UNCHANGED <<servers, main, closer, channels, fastDone, returned, measured>>

\* Mutant: the channels are closed without waiting for the queries.
CloseResults_NoWait ==
    /\ closer = "waiting"
    /\ closer' = "closing"
    /\ resultChan' = [resultChan EXCEPT !.closed = TRUE]
    /\ UNCHANGED <<servers, main, query, wg, errorChan, fastDone, returned, measured>>

CloseResults ==
    /\ closer = "waiting"
    /\ wg = 0
    /\ closer' = "closing"
    /\ resultChan' = [resultChan EXCEPT !.closed = TRUE]
    /\ UNCHANGED <<servers, main, query, wg, errorChan, fastDone, returned, measured>>

CloseErrors ==
    /\ closer = "closing"
    /\ closer' = "ended"
    /\ errorChan' = [errorChan EXCEPT !.closed = TRUE]
    /\ UNCHANGED <<servers, main, query, wg, resultChan, fastDone, returned, measured>>

\* What a receive can return: the oldest value, or the zero value once the
\* channel is closed and empty, or nothing yet.
Received(chan) ==
    IF chan.buffer # <<>> THEN {Head(chan.buffer)}
    ELSE IF chan.closed THEN {None} ELSE {}

\* concurrentExchange returns to exchangeWithFallback and cancels fastCtx.
ReturnFast(msg, err) ==
    /\ main = "select"
    /\ main' = "fast"
    /\ returned' = [msg |-> msg, err |-> err]
    /\ fastDone' = TRUE
    /\ UNCHANGED <<servers, query, wg, closer, channels, measured>>

ReceiveResult == \E v \in Received(resultChan) : ReturnFast(v, None)

ReceiveError == \E v \in Received(errorChan) : ReturnFast(None, v)

ReceiveDone == fastDone /\ ReturnFast(None, "DeadlineExceeded")

\* err == nil && resp != nil
Answered == returned.err = None /\ returned.msg # None

exchangeWithFallback ==
    /\ main = "fast"
    /\ main' = IF Answered THEN "returned" ELSE "fallback"
    /\ UNCHANGED <<servers, query, wg, closer, channels, fastDone, returned, measured>>

\* The first server is asked once more, with 200 ms, and its result returned.
Fallback ==
    /\ main = "fallback"
    /\ main' = "returned"
    /\ returned' \in {[msg |-> Head(servers), err |-> None],
                      [msg |-> None, err |-> Head(servers)]}
    /\ UNCHANGED <<servers, query, wg, closer, channels, fastDone, measured>>

-----------------------------------------------------------------------------
(* selectBestServers.                                                      *)

measureLatency(list) ==
    /\ main = "idle"
    /\ Launch(list, "measuring")
    /\ main' = "measure"
    /\ UNCHANGED <<closer, channels, fastDone, returned, measured>>

\* The map is written under a mutex, for a server that answers.
Measure(s) ==
    /\ query[s] = "measuring"
    /\ latency' \in {[latency EXCEPT ![s] = l] : l \in {None, "fast", "slow"}}
    /\ Done(s)
    /\ UNCHANGED <<servers, main, closer, channels, fastDone, returned, best>>

Best(list) ==
    LET sorted == SelectSeq(list, LAMBDA s : latency[s] = "fast") IN
    SubSeq(sorted, 1, IF Len(sorted) > MaxBest THEN MaxBest ELSE Len(sorted))

selectBestServers ==
    /\ main = "measure"
    /\ wg = 0
    /\ main' = "returned"
    /\ best' = Best(servers)
    /\ UNCHANGED <<servers, query, wg, closer, channels, fastDone, returned, latency>>

-----------------------------------------------------------------------------
QueryStep(s) == quickQuery(s) \/ SendResult(s) \/ SendError(s) \/ GiveUp(s) \/ Measure(s)

CloserStep == CloseResults \/ CloseErrors

MainStep ==
    \/ ReceiveResult \/ ReceiveError \/ ReceiveDone
    \/ exchangeWithFallback \/ Fallback \/ selectBestServers

Next ==
    \/ NoServers
    \/ \E list \in ServerLists \ {<<>>} : concurrentExchange(list)
    \/ \E list \in ServerLists : measureLatency(list)
    \/ Deadline
    \/ \E s \in Server : QueryStep(s)
    \/ CloserStep
    \/ MainStep

Spec == Init /\ [][Next]_vars

\* Every goroutine that can go on does so: the queries have timeouts of their
\* own.
FairSpec ==
    /\ Spec
    /\ \A s \in Server : WF_vars(QueryStep(s))
    /\ WF_vars(CloserStep) /\ WF_vars(MainStep)

-----------------------------------------------------------------------------
(* Properties.                                                             *)

Ended(s) == query[s] \in {"none", "done"}

\* The type invariant of a call of the fast pool.
TypeOK ==
    /\ servers \in ServerLists \cup {<<>>}
    /\ main \in {"idle", "select", "fast", "fallback", "measure", "returned"}
    /\ query \in [Server -> {"none", "asking", "result", "error", "measuring", "done"}]
    /\ wg \in 0..Cardinality(Server)
    /\ closer \in {"none", "waiting", "closing", "ended"}
    /\ latency \in [Server -> {None, "fast", "slow"}]

\* The channels are closed, and concurrentExchange returns neither a message
\* nor an error, only when the goroutine of every server has ended; so none
\* can send on a closed channel.
SilentOnlyAtEnd ==
    resultChan.closed \/ errorChan.closed \/ (main = "fast" /\ returned.err = None /\ ~Answered)
        => \A s \in Server : Ended(s)

\* Every call returns, and every goroutine that it started ends, also those
\* whose answer nobody waits for any more.
AllEnd == main # "idle" ~> /\ main = "returned" /\ closer \in {"none", "ended"}
                           /\ \A s \in Server : Ended(s)

=============================================================================
