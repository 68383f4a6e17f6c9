------------------------------ MODULE AuthQueue ------------------------------
(***************************************************************************)
(* The goroutines around the DNSSEC authenticator of one query (auth.go).  *)
(*                                                                         *)
(* The goroutine that resolves the query (main) hands over responses, and  *)
(* starts a goroutine for each DS record it needs (a link).  Both put what *)
(* they got on a buffered channel, from which the goroutine of start takes *)
(* it to AddResponse.  A WaitGroup counts the links and the inputs that    *)
(* are not processed yet; result and close wait for it to drop to zero.    *)
(***************************************************************************)
EXTENDS Authenticator

CONSTANT QueueSize   \* the capacity of the channel (8 in the code)

VARIABLES
    queue,        \* the contents of the channel
    open,         \* whether the channel is open
    field,        \* the field a.queue: "channel", or "nil" once close has cleared it
    processing,   \* the counter of the WaitGroup
    errors,       \* a.errors
    start,        \* the goroutine of start
    main,         \* the goroutine that resolves the query
    sending,      \* the message that addResponse sends, or None
    link,         \* the goroutine of addDelegationSignerLink for a message
    answer        \* what result returned

channel == <<queue, open, field>>
queueVars == <<vars, channel, processing, errors, start, main, sending, link, answer>>

ASSUME QueueAssumption == QueueSize \in Nat \ {0}

\* The messages that main has not handed over or asked for yet.
Unasked == {m \in Messages : link[m] = "none"}

QueueInit ==
    /\ Init
    /\ queue = <<>> /\ open = TRUE /\ field = "channel"
    /\ processing = 0
    /\ errors = <<>>
    /\ start = "new"
    /\ main = "resolving"
    /\ sending = None
    /\ link = [m \in Messages |-> "none"]
    /\ answer = None

-----------------------------------------------------------------------------
(* main: addResponse and addDelegationSignerLink.  finished is still false *)
(* there, since only main's own calls of result and close set it.          *)

addResponse(m) ==
    /\ main = "resolving" /\ m \in Unasked
    /\ processing' = processing + 1
    /\ main' = "sending" /\ sending' = m
    /\ link' = [link EXCEPT ![m] = "main"]
    /\ UNCHANGED <<vars, channel, errors, start, answer>>

\* The send blocks while the channel is full.
SendResponse ==
    /\ main = "sending" /\ Len(queue) < QueueSize
    /\ queue' = Append(queue, sending)
    /\ main' = "resolving" /\ sending' = None
    /\ UNCHANGED <<vars, open, field, processing, errors, start, link, answer>>

addDelegationSignerLink(m) ==
    /\ main = "resolving" /\ m \in Unasked
    /\ processing' = processing + 1
    /\ link' = [link EXCEPT ![m] = "asking"]
    /\ UNCHANGED <<vars, channel, errors, start, main, sending, answer>>

-----------------------------------------------------------------------------
(* A link: ask for the DS record, Add(1) and send, Done.                   *)

\* Mutant: the link does not count the input that it sends.
LinkAnswered_NoAdd(m) ==
    /\ link[m] = "asking"
    /\ link' = [link EXCEPT ![m] = "sending"]
    /\ UNCHANGED <<vars, channel, processing, errors, start, main, sending, answer>>

LinkAnswered(m) ==
    /\ link[m] = "asking"
    /\ processing' = processing + 1
    /\ link' = [link EXCEPT ![m] = "sending"]
    /\ UNCHANGED <<vars, channel, errors, start, main, sending, answer>>

LinkSends(m) ==
    /\ link[m] = "sending" /\ Len(queue) < QueueSize
    /\ queue' = Append(queue, m)
    /\ link' = [link EXCEPT ![m] = "sent"]
    /\ UNCHANGED <<vars, open, field, processing, errors, start, main, sending, answer>>

\* Mutant: without a response, the link returns without Done.
LinkDone_Leaks(m) ==
    /\ link[m] \in {"asking", "sent"}
    /\ processing' = IF link[m] = "sent" THEN processing - 1 ELSE processing
    /\ link' = [link EXCEPT ![m] = IF @ = "sent" THEN "done" ELSE "failed"]
    /\ UNCHANGED <<vars, channel, errors, start, main, sending, answer>>

\* The deferred Done, after the send or after an exchange without response.
LinkDone(m) ==
    /\ link[m] \in {"asking", "sent"}
    /\ processing' = processing - 1
    /\ link' = [link EXCEPT ![m] = IF @ = "sent" THEN "done" ELSE "failed"]
    /\ UNCHANGED <<vars, channel, errors, start, main, sending, answer>>

-----------------------------------------------------------------------------
(* start: for in := range a.queue { AddResponse; Done }.                   *)

\* The range expression is evaluated once.  Over a nil channel it blocks for ever.
StartBegins ==
    /\ start = "new"
    /\ start' = IF field = "nil" THEN "blocked" ELSE "ranging"
    /\ UNCHANGED <<vars, channel, processing, errors, main, sending, link, answer>>

Receive ==
    /\ start = "ranging" /\ queue # <<>>
    /\ queue' = Tail(queue)
    /\ AddResponse(Head(queue)) \/ AddRefused(Head(queue))
    /\ start' = "busy"
    /\ UNCHANGED <<open, field, processing, errors, main, sending, link, answer>>

AddStep ==
    /\ start = "busy"
    /\ AddStops \/ AddProcesses \/ AddFails
    /\ UNCHANGED <<channel, processing, errors, start, main, sending, link, answer>>

AddReturns ==
    /\ start = "busy" /\ pc = "ready"
    /\ errors' = IF err = "nil" THEN errors ELSE Append(errors, err)
    /\ processing' = processing - 1
    /\ start' = "ranging"
    /\ UNCHANGED <<vars, channel, main, sending, link, answer>>

StartEnds ==
    /\ start = "ranging" /\ queue = <<>> /\ ~open
    /\ start' = "ended"
    /\ UNCHANGED <<vars, channel, processing, errors, main, sending, link, answer>>

-----------------------------------------------------------------------------
(* main: result, or close alone when the query ends in an error.           *)

Finish(label) ==
    /\ main = "resolving"
    /\ main' = label
    /\ UNCHANGED <<vars, channel, processing, errors, start, sending, link, answer>>

callResult == Finish("waiting")
callClose == Finish("failing")

\* Mutant: close does not wait for the WaitGroup.
closeQueue_NoWait ==
    /\ main \in {"waiting", "failing"}
    /\ open' = FALSE
    /\ main' = IF main = "waiting" THEN "closed" ELSE "failed"
    /\ UNCHANGED <<vars, queue, field, processing, errors, start, sending, link, answer>>

\* Mutant: close drops the channel without closing it.
closeQueue_KeepsOpen ==
    /\ main \in {"waiting", "failing"}
    /\ processing = 0
    /\ main' = IF main = "waiting" THEN "closed" ELSE "failed"
    /\ UNCHANGED <<vars, channel, processing, errors, start, sending, link, answer>>

closeQueue ==
    /\ main \in {"waiting", "failing"}
    /\ processing = 0
    /\ open' = FALSE
    /\ main' = IF main = "waiting" THEN "closed" ELSE "failed"
    /\ UNCHANGED <<vars, queue, field, processing, errors, start, sending, link, answer>>

\* a.queue = nil; after a failure, that was all.
clearQueue ==
    /\ main \in {"closed", "failed"}
    /\ field' = "nil"
    /\ main' = IF main = "closed" THEN "reading" ELSE "returned"
    /\ UNCHANGED <<vars, queue, open, processing, errors, start, sending, link, answer>>

\* A single error is returned.  Several are joined into a value that is not
\* used: as without errors, Result decides.
readErrors ==
    /\ main = "reading"
    /\ IF Len(errors) = 1
       THEN /\ answer' = Conclusion("Unknown", "NotFound", errors[1])
            /\ main' = "returned"
            /\ UNCHANGED vars
       ELSE /\ Result
            /\ main' = "concluding"
            /\ UNCHANGED answer
    /\ UNCHANGED <<channel, processing, errors, start, sending, link>>

Conclude ==
    /\ main = "concluding"
    /\ ResultSkips \/ ResultProcesses \/ ResultFails \/ ResultConcludes
    /\ UNCHANGED <<channel, processing, errors, start, main, sending, link, answer>>

Return ==
    /\ main = "concluding" /\ pc = "done"
    /\ answer' = outcome
    /\ main' = "returned"
    /\ UNCHANGED <<vars, channel, processing, errors, start, sending, link>>

-----------------------------------------------------------------------------
Link(m) == LinkAnswered(m) \/ LinkSends(m) \/ LinkDone(m)
Start == StartBegins \/ Receive \/ AddStep \/ AddReturns \/ StartEnds
Main == SendResponse \/ callResult \/ callClose \/ closeQueue \/ clearQueue
        \/ readErrors \/ Conclude \/ Return

QueueNext == Start \/ Main
        \/ \E m \in Messages : Link(m) \/ addResponse(m) \/ addDelegationSignerLink(m)

QueueSpec == QueueInit /\ [][QueueNext]_queueVars

\* Every goroutine that can run does; an exchange for a DS record returns.
FairSpec ==
    /\ QueueSpec
    /\ WF_queueVars(Start) /\ WF_queueVars(Main)
    /\ \A m \in Messages : WF_queueVars(Link(m))

-----------------------------------------------------------------------------
(* Properties.                                                             *)

\* The type invariant of the goroutines and the channel.
QueueTypeOK ==
    /\ queue \in Seq(Messages) /\ Len(queue) <= QueueSize
    /\ open \in BOOLEAN /\ field \in {"channel", "nil"}
    /\ processing \in Int
    /\ errors \in Seq(STRING)
    /\ start \in {"new", "ranging", "busy", "blocked", "ended"}
    /\ main \in {"resolving", "sending", "waiting", "failing", "closed", "failed",
                 "reading", "concluding", "returned"}
    /\ sending \in Messages \cup {None}
    /\ link \in [Messages -> {"none", "main", "asking", "sending", "sent", "done", "failed"}]

\* Nobody sends on the channel once close has closed it (a send would
\* panic), and the WaitGroup never drops below zero: close waits for every
\* link and every input, also for links that start to send while it waits.
NoSendAfterClose ==
    /\ processing >= 0
    /\ ~open => main # "sending" /\ \A m \in Messages : link[m] \notin {"asking", "sending"}

\* "`Errors` is only accessible from this thread once we've finished
\* Wait()": when result reads the errors and the chain, every input has been
\* processed, and start is not inside AddResponse any more.
ErrorsPrivate ==
    main \in {"reading", "concluding", "returned"} =>
        queue = <<>> /\ start # "busy"

Arrived(m) == link[m] \in {"main", "done"}

\* The outcome of a query does not depend on how its goroutines interleave:
\* result returns what the responses that arrived imply, taken from the
\* root down, and leaves none of them out (unless one is not of the path to
\* the name, or two are of one zone: AddResponse refuses such a response).
ScheduleIndependent ==
    LET chain == ChainTo(buffer)
        OnPath == \A m \in Messages : Arrived(m) => OffPath \notin {m.zone, m.qname}
        OnePerZone == \A m, n \in Messages : Arrived(m) /\ Arrived(n) /\ m.zone = n.zone => m = n IN
    answer # None /\ OnPath /\ OnePerZone =>
        /\ \A m \in Messages : Arrived(m) => buffer[m.zone] = m
        /\ answer = IF chain.err = "nil" THEN Concluded(chain.res)
                    ELSE Conclusion("Unknown", "NotFound", chain.err)

\* result drops a list of several errors, but no error goes unreported: one
\* of several comes up again when Result processes the rest of the chain
\* (as long as no more than one response was refused and left out).
ErrorReported ==
    LET LeftOut == {m \in Messages : Arrived(m) /\ \A p \in Position : buffer[p] # m} IN
    answer # None /\ errors # <<>> /\ (\A m, n \in LeftOut : m = n) => answer.err # "nil"

\* result and close return, whatever the capacity of the channel: main and
\* the links never wait for a channel that nobody empties.
QueryReturns == main \in {"waiting", "failing", "sending"} ~> main \in {"returned", "resolving"}

\* The goroutine of start ends with the query, if the query had any input
\* (without one, start may come to its range only after close has cleared
\* a.queue, and then blocks for ever on the nil channel).
StartEventuallyEnds ==
    (main = "returned" /\ \E m \in Messages : Arrived(m)) ~> start = "ended"

=============================================================================
