--------------------------- MODULE AuthQueueProofs ---------------------------
(* Proofs about the goroutines around the authenticator, for any number of  *)
(* links and a channel of any capacity.                                     *)
EXTENDS AuthQueue, AuthenticatorProofs, FiniteSetTheorems

(***************************************************************************)
(* The goroutines.  The WaitGroup counts the links that have not returned, *)
(* and the inputs that are about to be sent, on the channel or processed.  *)
(***************************************************************************)

One(condition) == IF condition THEN 1 ELSE 0

Running == {m \in Messages : link[m] \in {"asking", "sending", "sent"}}
Sending == {m \in Messages : link[m] = "sending"}

Pending == Cardinality(Running) + Cardinality(Sending) + One(main = "sending")
           + Len(queue) + One(start = "busy")

Closed == {"closed", "failed", "reading", "concluding", "returned"}
LinkState == {"none", "main", "asking", "sending", "sent", "done", "failed"}

\* The inductive invariant behind close: the counter is exact, and the
\* channel is closed when nothing is left to count.
CountInv ==
    /\ queue \in Seq(Messages)
    /\ main = "sending" => sending \in Messages
    /\ link \in [Messages -> LinkState]
    /\ IsFiniteSet(Running) /\ IsFiniteSet(Sending)
    /\ processing = Pending
    /\ open \in BOOLEAN /\ (open <=> main \notin Closed)
    /\ ~open => processing = 0

\* The responses that were handed over, those of them that wait to be
\* received, those in the buffer, and those that AddResponse refuses.
Handed == {m \in Messages : link[m] \in {"main", "sent", "done"}}
Queued == {queue[i] : i \in DOMAIN queue}
Waiting == Queued \cup (IF main = "sending" THEN {sending} ELSE {})
Buffered == {m \in Messages : \E p \in Position : buffer[p] = m}
Dropped == {m \in Messages : OffPath \notin {m.zone, m.qname} => buffer[m.zone] \notin {None, m}}
Rejected == (Handed \cap Dropped) \ Waiting

\* Where the responses are: each is handed over once, and then waits to be
\* received, is in the buffer, or was refused.
PlaceInv ==
    /\ \A i, j \in DOMAIN queue : queue[i] = queue[j] => i = j
    /\ main = "sending" => sending \notin Queued
    /\ Waiting \subseteq Handed
    /\ Handed \subseteq Waiting \cup Dropped \cup Buffered
    /\ Buffered \subseteq Handed \ (Waiting \cup Dropped)
    /\ answer # None => main = "returned"

\* processResponse refuses the next response of the buffer with e.
Stuck(e) ==
    /\ idx \in Position /\ buffer[idx] # None
    /\ e = processError(buffer[idx], results) /\ e # "nil"

ErrorName == {"ErrNotSubdomain", "ErrSameName", "MissingDSRecordError", "ErrDuplicateInputForZone"}
Blocked == \E e \in ErrorName : Stuck(e)

\* AddResponse is about to return an error.
Failing == start = "busy" /\ pc = "ready" /\ err # "nil"

\* The errors so far.
Reported == Len(errors) + One(Failing)

\* Where the errors come from: the next response of the buffer, or as many
\* refused responses.
ErrorInv ==
    /\ errors \in Seq(ErrorName) /\ err \in ErrorName \cup {"nil"}
    /\ \A i \in DOMAIN errors : Stuck(errors[i]) \/ Rejected # {}
    /\ Failing => Stuck(err) \/ Rejected # {}
    /\ ~Blocked => /\ Reported >= 1 => Rejected # {}
                   /\ Reported >= 2 => \E m, n \in Rejected : m # n
    /\ main = "concluding" => Len(errors) # 1
    /\ answer # None => \/ Len(errors) = 1 /\ answer = Conclusion("Unknown", "NotFound", errors[1])
                        \/ Len(errors) # 1 /\ pc = "done" /\ answer = outcome

LEMMA CountInit == QueueInit => CountInv
<1> SUFFICES ASSUME QueueInit PROVE CountInv
  OBVIOUS
<1>1. Running = {} /\ Sending = {}
  BY DEF QueueInit, Running, Sending
<1>2. /\ IsFiniteSet(Running) /\ IsFiniteSet(Sending)
      /\ Cardinality(Running) = 0 /\ Cardinality(Sending) = 0
  BY <1>1, FS_EmptySet
<1>3. queue \in Seq(Messages) /\ Len(queue) = 0
  BY DEF QueueInit
<1>4. processing = Pending
  BY <1>2, <1>3 DEF QueueInit, Pending, One
<1> QED
  BY <1>2, <1>3, <1>4 DEF QueueInit, CountInv, LinkState, Closed

\* What the counters are as long as no link and no input moves.
LEMMA CountType ==
    ASSUME CountInv
    PROVE  /\ Cardinality(Running) \in Nat /\ Cardinality(Sending) \in Nat
           /\ Len(queue) \in Nat /\ processing \in Nat
           /\ One(main = "sending") \in 0..1 /\ One(start = "busy") \in 0..1
<1>1. Cardinality(Running) \in Nat /\ Cardinality(Sending) \in Nat
  BY FS_CardinalityType DEF CountInv
<1>2. Len(queue) \in Nat
  BY DEF CountInv
<1>3. One(main = "sending") \in 0..1 /\ One(start = "busy") \in 0..1
  BY DEF One
<1>4. processing \in Nat
  BY <1>1, <1>2, <1>3 DEF CountInv, Pending
<1> QED
  BY <1>1, <1>2, <1>3, <1>4

\* The channel is not closed while there is anything to count.
LEMMA OpenWhilePending ==
    ASSUME CountInv,
           \/ queue # <<>> \/ start = "busy" \/ main = "sending"
           \/ \E m \in Messages : link[m] \in {"asking", "sending", "sent"}
    PROVE  open /\ main \notin Closed
<1>1. processing > 0
  <2>1. CASE queue # <<>>
    BY <2>1, CountType DEF CountInv, Pending
  <2>2. CASE start = "busy" \/ main = "sending"
    BY <2>2, CountType DEF CountInv, Pending, One
  <2>3. CASE \E m \in Messages : link[m] \in {"asking", "sending", "sent"}
    <3>1. Running # {}
      BY <2>3 DEF Running
    <3>2. Cardinality(Running) # 0
      BY <3>1, FS_EmptySet DEF CountInv
    <3> QED
      BY <3>2, CountType DEF CountInv, Pending
  <2> QED
    BY <2>1, <2>2, <2>3
<1>2. processing # 0
  BY <1>1, CountType
<1> QED
  BY <1>2, Zenon DEF CountInv

\* A step of one link, from one state to another.
LEMMA LinkMoves ==
    ASSUME CountInv, NEW m \in Messages, NEW s \in LinkState,
           link' = [link EXCEPT ![m] = s]
    PROVE  /\ link' \in [Messages -> LinkState]
           /\ Running' = IF s \in {"asking", "sending", "sent"} THEN Running \cup {m} ELSE Running \ {m}
           /\ Sending' = IF s = "sending" THEN Sending \cup {m} ELSE Sending \ {m}
           /\ IsFiniteSet(Running') /\ IsFiniteSet(Sending')
<1>1. link \in [Messages -> LinkState]
  BY DEF CountInv
<1>2. link' \in [Messages -> LinkState] /\ link'[m] = s
      /\ \A n \in Messages \ {m} : link'[n] = link[n]
  BY <1>1
<1>3. Running' = IF s \in {"asking", "sending", "sent"} THEN Running \cup {m} ELSE Running \ {m}
  BY <1>2 DEF Running
<1>4. Sending' = IF s = "sending" THEN Sending \cup {m} ELSE Sending \ {m}
  BY <1>2 DEF Sending
<1>5. \A S : IsFiniteSet(S) => IsFiniteSet(S \cup {m}) /\ IsFiniteSet(S \ {m})
  BY FS_AddElement, FS_RemoveElement
<1> QED
  BY <1>2, <1>3, <1>4, <1>5, Zenon DEF CountInv

\* The counter is exact after every step.
LEMMA CountStep == CountInv /\ [QueueNext]_queueVars => CountInv'
<1> SUFFICES ASSUME CountInv, [QueueNext]_queueVars PROVE CountInv'
  OBVIOUS
<1> USE CountType
<1>0. /\ queue \in Seq(Messages) /\ link \in [Messages -> LinkState]
      /\ main = "sending" => sending \in Messages
      /\ IsFiniteSet(Running) /\ IsFiniteSet(Sending)
      /\ processing = Pending /\ open \in BOOLEAN
      /\ open <=> main \notin Closed
      /\ ~open => processing = 0
  BY DEF CountInv
<1>1. ASSUME UNCHANGED <<queue, processing, sending, link>>,
             One(start' = "busy") = One(start = "busy"), One(main' = "sending") = One(main = "sending"),
             open' \in BOOLEAN, open' <=> main' \notin Closed,
             ~open' => processing = 0
      PROVE  CountInv'
  <2>1. Running' = Running /\ Sending' = Sending
    BY <1>1 DEF Running, Sending
  <2>2. Pending' = Pending
    BY <1>1, <2>1 DEF Pending
  <2>3. main' = "sending" => main = "sending"
    BY <1>1 DEF One
  <2> QED
    BY <1>0, <1>1, <2>1, <2>2, <2>3, Zenon DEF CountInv
<1>2. ASSUME NEW m \in Messages, addResponse(m) PROVE CountInv'
  <2>1. /\ main = "resolving" /\ main' = "sending" /\ sending' = m /\ link[m] = "none"
        /\ processing' = processing + 1 /\ link' = [link EXCEPT ![m] = "main"]
        /\ UNCHANGED <<queue, open, start>>
    BY <1>2 DEF addResponse, Unasked, channel
  <2>2. Running' = Running /\ Sending' = Sending /\ link' \in [Messages -> LinkState]
    BY <2>1, LinkMoves, Zenon DEF LinkState, Running, Sending
  <2>3. Pending' = Pending + 1
    BY <2>1, <2>2 DEF Pending, One
  <2>4. main \notin Closed /\ main' \notin Closed
    BY <2>1 DEF Closed
  <2> QED
    BY <1>0, <2>1, <2>2, <2>3, <2>4 DEF CountInv
<1>3. ASSUME NEW m \in Messages, addDelegationSignerLink(m) PROVE CountInv'
  <2>1. /\ main = "resolving" /\ link[m] = "none"
        /\ processing' = processing + 1 /\ link' = [link EXCEPT ![m] = "asking"]
        /\ UNCHANGED <<queue, open, start, main, sending>>
    BY <1>3 DEF addDelegationSignerLink, Unasked, channel
  <2>2. /\ Running' = Running \cup {m} /\ Sending' = Sending /\ m \notin Running
        /\ IsFiniteSet(Running') /\ link' \in [Messages -> LinkState]
    BY <2>1, LinkMoves, Zenon DEF LinkState, Running, Sending
  <2>3. Cardinality(Running') = Cardinality(Running) + 1
    BY <1>0, <2>2, FS_AddElement
  <2>4. Pending' = Pending + 1
    BY <2>1, <2>2, <2>3 DEF Pending
  <2>5. main \notin Closed
    BY <2>1 DEF Closed
  <2> QED
    BY <1>0, <2>1, <2>2, <2>4, <2>5 DEF CountInv
<1>4. ASSUME NEW m \in Messages, LinkAnswered(m) PROVE CountInv'
  <2>1. /\ link[m] = "asking"
        /\ processing' = processing + 1 /\ link' = [link EXCEPT ![m] = "sending"]
        /\ UNCHANGED <<queue, open, start, main, sending>>
    BY <1>4 DEF LinkAnswered, channel
  <2>2. /\ Running' = Running /\ Sending' = Sending \cup {m} /\ m \notin Sending
        /\ IsFiniteSet(Sending') /\ link' \in [Messages -> LinkState]
    BY <2>1, LinkMoves, Zenon DEF LinkState, Running, Sending
  <2>3. Cardinality(Sending') = Cardinality(Sending) + 1
    BY <1>0, <2>2, FS_AddElement
  <2>4. Pending' = Pending + 1
    BY <2>1, <2>2, <2>3 DEF Pending
  <2>5. open /\ main \notin Closed
    BY Zenon, <2>1, OpenWhilePending
  <2> QED
    BY <1>0, <2>1, <2>2, <2>4, <2>5 DEF CountInv
<1>5. ASSUME NEW m \in Messages, LinkSends(m) PROVE CountInv'
  <2>1. /\ link[m] = "sending" /\ queue' = Append(queue, m)
        /\ link' = [link EXCEPT ![m] = "sent"]
        /\ UNCHANGED <<processing, open, start, main, sending>>
    BY <1>5 DEF LinkSends
  <2>2. /\ Running' = Running /\ Sending' = Sending \ {m} /\ m \in Sending
        /\ IsFiniteSet(Sending') /\ link' \in [Messages -> LinkState]
    BY <2>1, LinkMoves, Zenon DEF LinkState, Running, Sending
  <2>3. Cardinality(Sending') = Cardinality(Sending) - 1
    BY <1>0, <2>2, FS_RemoveElement
  <2>4. queue' \in Seq(Messages) /\ Len(queue') = Len(queue) + 1
    BY <1>0, <2>1
  <2>5. UNCHANGED <<start, main, Running>>
    BY Zenon, <2>1, <2>2
  <2>6. Pending' = Pending
    <3>1. /\ Cardinality(Running) \in Nat /\ Cardinality(Sending) \in Nat /\ Len(queue) \in Nat
          /\ One(main = "sending") \in 0..1 /\ One(start = "busy") \in 0..1
      BY Zenon, CountType
    <3>2. /\ Cardinality(Running') = Cardinality(Running)
          /\ One(main = "sending")' = One(main = "sending")
          /\ One(start = "busy")' = One(start = "busy")
      BY Zenon, <2>5
    <3> DEFINE r == Cardinality(Running)
               n == Cardinality(Sending)
               l == Len(queue)
               i == One(main = "sending")
               j == One(start = "busy")
    <3>3. Pending = r + n + i + l + j /\ Pending' = r + (n - 1) + i + (l + 1) + j
      BY Zenon, <2>3, <2>4, <3>2 DEF Pending
    <3> HIDE DEF r, n, l, i, j
    <3>4. r \in Nat /\ n \in Nat /\ l \in Nat /\ i \in 0..1 /\ j \in 0..1
      BY Zenon, <3>1 DEF r, n, l, i, j
    <3> QED
      BY <3>3, <3>4
  <2> QED
    BY <1>0, <2>1, <2>2, <2>4, <2>6 DEF CountInv
<1>6. ASSUME NEW m \in Messages, LinkDone(m) PROVE CountInv'
  <2> DEFINE s == IF link[m] = "sent" THEN "done" ELSE "failed"
  <2>1. /\ link[m] \in {"asking", "sent"}
        /\ processing' = processing - 1 /\ link' = [link EXCEPT ![m] = s]
        /\ UNCHANGED <<queue, open, start, main, sending>>
    BY <1>6 DEF LinkDone, channel
  <2>2. s \in LinkState /\ s \notin {"asking", "sending", "sent"} /\ s # "sending"
    BY DEF LinkState
  <2>3. /\ Running' = Running \ {m} /\ Sending' = Sending \ {m}
        /\ IsFiniteSet(Running') /\ link' \in [Messages -> LinkState]
    BY <2>1, <2>2, LinkMoves, Zenon
  <2>4. m \in Running /\ Sending' = Sending
    BY <2>1, <2>3 DEF Running, Sending
  <2>5. Cardinality(Running') = Cardinality(Running) - 1
    BY Zenon, <1>0, <2>3, <2>4, FS_RemoveElement
  <2>6. Pending' = Pending - 1
    BY <2>1, <2>4, <2>5 DEF Pending
  <2>7. open /\ main \notin Closed
    BY <2>1, OpenWhilePending
  <2> QED
    BY <1>0, <2>1, <2>3, <2>4, <2>6, <2>7, Zenon DEF CountInv
<1>7. CASE SendResponse
  <2>1. /\ main = "sending" /\ main' = "resolving" /\ queue' = Append(queue, sending)
        /\ UNCHANGED <<processing, open, start, link>>
    BY <1>7 DEF SendResponse
  <2>2. queue' \in Seq(Messages) /\ Len(queue') = Len(queue) + 1
    BY <1>0, <2>1
  <2>3. Running' = Running /\ Sending' = Sending
    BY <2>1 DEF Running, Sending
  <2>4. One(main = "sending") = 1 /\ One(main' = "sending") = 0 /\ start' = start
    BY <2>1 DEF One
  <2>5. Pending' = Pending
    BY <2>2, <2>3, <2>4 DEF Pending
  <2>6. main \notin Closed /\ main' \notin Closed
    BY <2>1 DEF Closed
  <2> QED
    BY <1>0, <2>1, <2>2, <2>3, <2>5, <2>6 DEF CountInv
<1>8. CASE Receive
  <2>1. /\ start = "ranging" /\ start' = "busy" /\ queue # <<>> /\ queue' = Tail(queue)
        /\ UNCHANGED <<processing, open, main, sending, link>>
    BY <1>8 DEF Receive
  <2>2. queue' \in Seq(Messages) /\ Len(queue') = Len(queue) - 1
    BY <1>0, <2>1
  <2>3. Running' = Running /\ Sending' = Sending
    BY <2>1 DEF Running, Sending
  <2>4. Pending' = Pending
    BY <2>1, <2>2, <2>3 DEF Pending, One
  <2> QED
    BY <1>0, <2>1, <2>2, <2>3, <2>4 DEF CountInv
<1>9. CASE AddReturns
  <2>1. /\ start = "busy" /\ start' = "ranging" /\ processing' = processing - 1
        /\ UNCHANGED <<queue, open, main, sending, link>>
    BY <1>9 DEF AddReturns, channel
  <2>2. Running' = Running /\ Sending' = Sending
    BY <2>1 DEF Running, Sending
  <2>3. Pending' = Pending - 1
    BY <2>1, <2>2 DEF Pending, One
  <2>4. open
    BY <2>1, OpenWhilePending
  <2> QED
    BY <1>0, <2>1, <2>2, <2>3, <2>4 DEF CountInv
<1>10. CASE StartBegins
  BY <1>0, <1>1, <1>10 DEF StartBegins, channel, One
<1>11. CASE AddStep \/ Conclude
  BY <1>0, <1>1, <1>11 DEF AddStep, Conclude, channel
<1>12. CASE StartEnds
  BY <1>0, <1>1, <1>12 DEF StartEnds, channel, One
<1>13. CASE callResult \/ callClose
  BY <1>0, <1>1, <1>13 DEF callResult, callClose, Finish, channel, One, Closed
<1>14. CASE closeQueue
  BY <1>0, <1>1, <1>14, Zenon DEF closeQueue, One, Closed
<1>15. CASE clearQueue
  BY <1>0, <1>1, <1>15 DEF clearQueue, One, Closed
<1>16. CASE readErrors
  BY <1>0, <1>1, <1>16 DEF readErrors, channel, One, Closed
<1>17. CASE Return
  BY <1>0, <1>1, <1>17 DEF Return, channel, One, Closed
<1>18. CASE UNCHANGED queueVars
  BY <1>0, <1>1, <1>18 DEF queueVars, channel
<1> QED
  BY Zenon, <1>2, <1>3, <1>4, <1>5, <1>6, <1>7, <1>8, <1>9, <1>10, <1>11, <1>12, <1>13, <1>14,
     <1>15, <1>16, <1>17, <1>18 DEF QueueNext, Start, Main, Link

\* Nobody sends on a closed channel and the WaitGroup never goes negative,
\* for any number of links and any capacity of the channel.
THEOREM ChannelSafe == QueueSpec => []NoSendAfterClose
<1>1. CountInv => NoSendAfterClose
  <2> SUFFICES ASSUME CountInv PROVE NoSendAfterClose
    OBVIOUS
  <2>1. processing >= 0
    BY CountType
  <2>2. ASSUME ~open PROVE main # "sending" /\ \A m \in Messages : link[m] \notin {"asking", "sending"}
    BY <2>2, OpenWhilePending
  <2> QED
    BY <2>1, <2>2 DEF NoSendAfterClose
<1> QED
  BY <1>1, CountInit, CountStep, PTL DEF QueueSpec

\* When result reads a.errors and the chain, all input has been processed:
\* the goroutine of start does not touch them any more.
THEOREM ErrorsReadAlone == QueueSpec => []ErrorsPrivate
<1>1. CountInv => ErrorsPrivate
  <2> SUFFICES ASSUME CountInv, main \in {"reading", "concluding", "returned"}
               PROVE  queue = <<>> /\ start # "busy"
    BY DEF ErrorsPrivate
  <2>1. main \in Closed
    BY DEF Closed
  <2> QED
    BY <2>1, OpenWhilePending
<1> QED
  BY <1>1, CountInit, CountStep, PTL DEF QueueSpec

\* A step of the goroutines is a step of the authenticator, or leaves it alone.
LEMMA AuthStep == CountInv /\ [QueueNext]_queueVars => [Next]_vars
<1> SUFFICES ASSUME CountInv, [QueueNext]_queueVars PROVE Next \/ UNCHANGED vars
  OBVIOUS
<1>1. CASE Receive
  <2>1. Head(queue) \in Messages
    BY <1>1 DEF Receive, CountInv
  <2> QED
    BY <1>1, <2>1 DEF Receive, Next
<1>2. CASE AddStep
  BY <1>2 DEF AddStep, Next, Step
<1>3. CASE readErrors
  BY <1>3 DEF readErrors, Next
<1>4. CASE Conclude
  BY <1>4 DEF Conclude, Next, Step
<1>5. CASE StartBegins \/ AddReturns \/ StartEnds
  BY <1>5 DEF StartBegins, AddReturns, StartEnds
<1>6. CASE SendResponse \/ callResult \/ callClose \/ closeQueue \/ clearQueue \/ Return
  BY <1>6 DEF SendResponse, callResult, callClose, Finish, closeQueue, clearQueue, Return
<1>7. ASSUME NEW m \in Messages, Link(m) \/ addResponse(m) \/ addDelegationSignerLink(m)
      PROVE  UNCHANGED vars
  BY <1>7 DEF Link, LinkAnswered, LinkSends, LinkDone, addResponse, addDelegationSignerLink
<1>8. CASE UNCHANGED queueVars
  BY <1>8 DEF queueVars
<1> QED
  BY <1>1, <1>2, <1>3, <1>4, <1>5, <1>6, <1>7, <1>8 DEF QueueNext, Start, Main

\* The goroutines use the authenticator as its contract allows, one call at
\* a time: what is proved of the authenticator alone holds in the query.
THEOREM QueueImplementsAuthenticator == QueueSpec => Spec
<1>1. QueueInit => Init
  BY DEF QueueInit
<1> QED
  BY <1>1, CountInit, CountStep, AuthStep, PTL DEF QueueSpec, Spec

(***************************************************************************)
(* Where each response is, and where each error comes from.                *)
(***************************************************************************)

\* A place of the buffer is filled once.
LEMMA BufferGrows ==
    ASSUME ChainInv, [Next]_vars, NEW p \in Position, buffer[p] # None
    PROVE  buffer'[p] = buffer[p]
<1>1. ASSUME NEW m \in Messages, AddResponse(m) PROVE buffer'[p] = buffer[p]
  <2>1. buffer' = [buffer EXCEPT ![m.zone] = m] /\ buffer[m.zone] = None
    BY <1>1 DEF AddResponse, Refused
  <2> QED
    BY <2>1 DEF ChainInv
<1>2. ASSUME NEW m \in Messages, AddRefused(m) PROVE buffer' = buffer
  BY Zenon, <1>2 DEF AddRefused
<1>3. CASE Step \/ Result \/ UNCHANGED vars
  BY <1>3 DEF Step, AddStops, AddProcesses, AddFails, ResultSkips, ResultProcesses,
              ResultFails, ResultConcludes, Result, Processed, vars
<1> QED
  BY Zenon, <1>1, <1>2, <1>3 DEF Next

LEMMA PlaceInit == QueueInit => PlaceInv
<1> SUFFICES ASSUME QueueInit PROVE PlaceInv
  OBVIOUS
<1>1. queue = <<>> /\ DOMAIN queue = {} /\ main # "sending" /\ answer = None
  BY DEF QueueInit
<1>2. Handed = {} /\ Waiting = {}
  BY <1>1 DEF QueueInit, Handed, Waiting, Queued
<1>3. Buffered = {}
  <2>1. \A p \in Position : buffer[p] = None
    BY DEF QueueInit, Init
  <2> QED
    BY <2>1, AuthenticatorAssumption DEF Buffered, ConstantsOK
<1> QED
  BY <1>1, <1>2, <1>3 DEF PlaceInv

\* A response stays handed over, and waits only once.
PlaceKept == Handed \subseteq Handed' /\ Handed \cap Waiting' \subseteq Waiting

LEMMA PlaceStep == ChainInv /\ CountInv /\ PlaceInv /\ [QueueNext]_queueVars => PlaceInv' /\ PlaceKept
<1> SUFFICES ASSUME ChainInv, CountInv, PlaceInv, [QueueNext]_queueVars PROVE PlaceInv' /\ PlaceKept
  BY Zenon
<1>0. /\ queue \in Seq(Messages) /\ link \in [Messages -> LinkState]
      /\ main = "sending" => sending \in Messages
      /\ buffer \in [Position -> Messages \cup {None}]
      /\ DOMAIN queue = 1..Len(queue) /\ Len(queue) \in Nat
      /\ Messages \subseteq Message /\ None \notin Messages
  <2>1. /\ queue \in Seq(Messages) /\ link \in [Messages -> LinkState]
        /\ main = "sending" => sending \in Messages
    BY Zenon DEF CountInv
  <2>2. buffer \in [Position -> Messages \cup {None}]
    BY Zenon DEF ChainInv
  <2>3. DOMAIN queue = 1..Len(queue) /\ Len(queue) \in Nat
    BY <2>1
  <2>4. Messages \subseteq Message /\ None \notin Messages
    BY Zenon, AuthenticatorAssumption DEF ConstantsOK
  <2> QED
    BY Zenon, <2>1, <2>2, <2>3, <2>4
<1>1. ASSUME UNCHANGED <<queue, buffer, Handed, Waiting>>,
             main' = "sending" => sending' \notin Queued, answer' # None => main' = "returned"
      PROVE  PlaceInv' /\ PlaceKept
  BY Zenon, <1>1 DEF PlaceInv, PlaceKept, Queued, Buffered, Dropped
<1>2. ASSUME UNCHANGED <<queue, buffer, link, main, sending, answer>> PROVE PlaceInv' /\ PlaceKept
  BY <1>1, <1>2 DEF Handed, Waiting, Queued, PlaceInv
<1>3. ASSUME UNCHANGED <<queue, buffer, link, sending>>, main # "sending", main' # "sending",
             answer' # None => main' = "returned"
      PROVE  PlaceInv' /\ PlaceKept
  BY <1>1, <1>3 DEF Handed, Waiting, Queued
\* The main goroutine hands a response over.
<1>4. ASSUME NEW m \in Messages, addResponse(m) PROVE PlaceInv' /\ PlaceKept
  <2>1. /\ main = "resolving" /\ main' = "sending" /\ sending' = m /\ link[m] = "none"
        /\ link' = [link EXCEPT ![m] = "main"] /\ UNCHANGED <<queue, buffer, answer>>
    BY <1>4 DEF addResponse, Unasked, channel, vars
  <2>2. Handed' = Handed \cup {m} /\ m \notin Handed
    BY <1>0, <2>1 DEF Handed
  <2>3. Queued' = Queued /\ Waiting = Queued /\ Waiting' = Queued \cup {m}
    BY <2>1 DEF Queued, Waiting
  <2>4. Buffered' = Buffered /\ Dropped' = Dropped
    BY <2>1 DEF Buffered, Dropped
  <2> QED
    BY <2>1, <2>2, <2>3, <2>4 DEF PlaceInv, PlaceKept
<1>5. CASE SendResponse
  <2>1. /\ main = "sending" /\ main' = "resolving" /\ queue' = Append(queue, sending)
        /\ UNCHANGED <<buffer, link, answer>>
    BY <1>5 DEF SendResponse, vars
  <2>2. sending \in Messages /\ sending \notin Queued
    BY <1>0, <2>1 DEF PlaceInv
  <2>3. /\ Len(queue') = Len(queue) + 1 /\ DOMAIN queue' = 1..Len(queue) + 1
        /\ \A i \in 1..Len(queue) : queue'[i] = queue[i]
        /\ queue'[Len(queue) + 1] = sending
    BY <1>0, <2>1, <2>2
  <2>4. Queued' = Queued \cup {sending}
    BY <1>0, <2>3 DEF Queued
  <2>5. \A i, j \in DOMAIN queue' : queue'[i] = queue'[j] => i = j
    BY SMTT(30), <1>0, <2>2, <2>3 DEF PlaceInv, Queued
  <2>6. Waiting' = Waiting /\ Handed' = Handed /\ Buffered' = Buffered /\ Dropped' = Dropped
    BY Zenon, <2>1, <2>4 DEF Waiting, Handed, Buffered, Dropped
  <2> QED
    BY <2>1, <2>5, <2>6 DEF PlaceInv, PlaceKept
\* The steps of a link.
<1>6. ASSUME NEW m \in Messages, addDelegationSignerLink(m) PROVE PlaceInv' /\ PlaceKept
  <2>1. link[m] = "none" /\ link' = [link EXCEPT ![m] = "asking"]
        /\ UNCHANGED <<queue, buffer, main, sending, answer>>
    BY <1>6 DEF addDelegationSignerLink, Unasked, channel, vars
  <2>2. Handed' = Handed
    BY Zenon, <1>0, <2>1 DEF Handed
  <2> QED
    BY <1>1, <2>1, <2>2 DEF Waiting, Queued, PlaceInv
<1>7. ASSUME NEW m \in Messages, LinkAnswered(m) PROVE PlaceInv' /\ PlaceKept
  <2>1. link[m] = "asking" /\ link' = [link EXCEPT ![m] = "sending"]
        /\ UNCHANGED <<queue, buffer, main, sending, answer>>
    BY <1>7 DEF LinkAnswered, channel, vars
  <2>2. Handed' = Handed
    BY <1>0, <2>1 DEF Handed
  <2> QED
    BY <1>1, <2>1, <2>2 DEF Waiting, Queued, PlaceInv
<1>8. ASSUME NEW m \in Messages, LinkSends(m) PROVE PlaceInv' /\ PlaceKept
  <2>1. link[m] = "sending" /\ link' = [link EXCEPT ![m] = "sent"] /\ queue' = Append(queue, m)
        /\ UNCHANGED <<buffer, main, sending, answer>>
    BY <1>8 DEF LinkSends, vars
  <2>2. Handed' = Handed \cup {m} /\ m \notin Handed
    BY <1>0, <2>1 DEF Handed
  <2>3. m \notin Queued /\ (main = "sending" => sending # m)
    BY <2>2 DEF PlaceInv, Waiting
  <2>4. /\ Len(queue') = Len(queue) + 1 /\ DOMAIN queue' = 1..Len(queue) + 1
        /\ \A i \in 1..Len(queue) : queue'[i] = queue[i]
        /\ queue'[Len(queue) + 1] = m
    BY <1>0, <2>1
  <2>5. Queued' = Queued \cup {m}
    BY SMTT(30), <1>0, <2>4 DEF Queued
  <2>6. \A i, j \in DOMAIN queue' : queue'[i] = queue'[j] => i = j
    BY <1>0, <2>3, <2>4 DEF PlaceInv, Queued
  <2>7. Waiting' = Waiting \cup {m} /\ Buffered' = Buffered /\ Dropped' = Dropped
    BY Zenon, <2>1, <2>5 DEF Waiting, Buffered, Dropped
  <2> QED
    BY <2>1, <2>2, <2>3, <2>5, <2>6, <2>7 DEF PlaceInv, PlaceKept
<1>9. ASSUME NEW m \in Messages, LinkDone(m) PROVE PlaceInv' /\ PlaceKept
  <2>1. /\ link[m] \in {"asking", "sent"}
        /\ link' = [link EXCEPT ![m] = IF link[m] = "sent" THEN "done" ELSE "failed"]
        /\ UNCHANGED <<queue, buffer, main, sending, answer>>
    BY <1>9 DEF LinkDone, channel, vars
  <2>2. Handed' = Handed
    BY <1>0, <2>1 DEF Handed
  <2> QED
    BY <1>1, <2>1, <2>2 DEF Waiting, Queued, PlaceInv
\* The goroutine of start receives a response.
<1>10. CASE Receive
  <2> DEFINE m == Head(queue)
  <2>1. /\ queue # <<>> /\ queue' = Tail(queue)
        /\ AddResponse(m) \/ AddRefused(m)
        /\ UNCHANGED <<main, sending, link, answer>>
    BY <1>10 DEF Receive
  <2>2. /\ Len(queue) > 0 /\ Len(queue') = Len(queue) - 1 /\ DOMAIN queue' = 1..Len(queue) - 1
        /\ \A i \in DOMAIN queue' : queue'[i] = queue[i + 1]
        /\ m = queue[1] /\ m \in Messages
    BY <1>0, <2>1
  <2>3. m \in Queued /\ (main = "sending" => sending # m)
    BY <1>0, <2>2 DEF Queued, PlaceInv
  <2>4. Queued' = Queued \ {m}
    <3>1. \A i \in DOMAIN queue' : queue[i + 1] \in Queued /\ queue[i + 1] # m
      BY <1>0, <2>2 DEF Queued, PlaceInv
    <3>2. \A i \in DOMAIN queue : queue[i] # m => i - 1 \in DOMAIN queue' /\ queue'[i - 1] = queue[i]
      BY <1>0, <2>2
    <3> QED
      BY <2>2, <3>1, <3>2 DEF Queued
  <2>5. \A i, j \in DOMAIN queue' : queue'[i] = queue'[j] => i = j
    BY <1>0, <2>2 DEF PlaceInv
  <2>6. Waiting' = Waiting \ {m} /\ Handed' = Handed /\ m \in Waiting
    BY <2>1, <2>3, <2>4 DEF Waiting, Handed
  <2>7. CASE AddResponse(m)
    <3>1. OffPath \notin {m.zone, m.qname} /\ buffer[m.zone] = None
          /\ buffer' = [buffer EXCEPT ![m.zone] = m]
      BY Zenon, <2>7 DEF AddResponse, Refused
    <3>2. m.zone \in Position
      BY Zenon, <1>0, <2>2, <3>1 DEF Message, Name
    <3>3. Buffered' = Buffered \cup {m}
      BY SMTT(30), <1>0, <2>2, <3>1, <3>2 DEF Buffered
    <3>4. \A n \in Messages : OffPath \notin {n.zone, n.qname} => n.zone \in Position
      BY <1>0 DEF Message, Name
    <3>5. Dropped \subseteq Dropped'
      BY <1>0, <3>1, <3>2, <3>4 DEF Dropped
    <3>6. Buffered' \cap Dropped' = {}
      <4>1. m \notin Dropped'
        BY <1>0, <3>1, <3>2 DEF Dropped
      <4>2. ASSUME NEW n \in Buffered PROVE n \notin Dropped'
        <5>1. n \in Messages /\ n.zone \in Position /\ buffer[n.zone] = n
          BY ZenonT(10), <1>0 DEF Buffered, ChainInv
        <5>2. buffer'[n.zone] = n /\ n \notin Dropped
          BY <1>0, <3>1, <3>2, <5>1 DEF PlaceInv
        <5> QED
          BY Zenon, <5>1, <5>2 DEF Dropped
      <4> QED
        BY Zenon, <3>3, <4>1, <4>2
    <3> QED
      BY SMTT(30), <2>1, <2>4, <2>5, <2>6, <3>3, <3>5, <3>6 DEF PlaceInv, PlaceKept
  <2>8. CASE AddRefused(m)
    <3>1. Refused(m) /\ buffer' = buffer
      BY <2>8 DEF AddRefused
    <3>2. Buffered' = Buffered /\ Dropped' = Dropped
      BY <3>1 DEF Buffered, Dropped
    <3>3. m \notin Buffered
      BY <2>6 DEF PlaceInv
    <3>4. OffPath \notin {m.zone, m.qname} => m.zone \in Position
      BY <1>0, <2>2 DEF Message, Name
    <3>5. m \in Dropped
      BY <2>2, <3>1, <3>3, <3>4 DEF Dropped, Refused, Buffered
    <3> QED
      BY Zenon, <2>1, <2>4, <2>5, <2>6, <3>2, <3>5 DEF PlaceInv, PlaceKept
  <2> QED
    BY <2>1, <2>7, <2>8
<1>11. CASE AddStep
  <2>1. buffer' = buffer
    BY <1>11 DEF AddStep, AddStops, AddProcesses, AddFails, Processed
  <2> QED
    BY <1>2, <1>11, <2>1 DEF AddStep, channel
<1>12. CASE StartBegins \/ AddReturns \/ StartEnds
  BY Zenon, <1>2, <1>12 DEF StartBegins, AddReturns, StartEnds, channel, vars
<1>13. CASE callResult \/ callClose
  BY Zenon, <1>3, <1>13 DEF callResult, callClose, Finish, channel, vars, PlaceInv
<1>14. CASE closeQueue \/ clearQueue
  BY Zenon, <1>3, <1>14 DEF closeQueue, clearQueue, vars, PlaceInv
<1>15. CASE readErrors
  BY <1>3, <1>15 DEF readErrors, channel, vars, Result, PlaceInv
<1>16. CASE Conclude
  <2>1. buffer' = buffer
    BY <1>16 DEF Conclude, ResultSkips, ResultProcesses, ResultFails, ResultConcludes, Processed
  <2> QED
    BY Zenon, <1>2, <1>16, <2>1 DEF Conclude, channel
<1>17. CASE Return
  BY <1>3, <1>17 DEF Return, channel, vars
<1>18. CASE UNCHANGED queueVars
  BY <1>2, <1>18 DEF queueVars, channel, vars
<1> QED
  BY Zenon, <1>4, <1>5, <1>6, <1>7, <1>8, <1>9, <1>10, <1>11, <1>12, <1>13, <1>14, <1>15, <1>16,
     <1>17, <1>18 DEF QueueNext, Start, Main, Link

LEMMA ProcessErrorType ==
    ASSUME NEW m, NEW res PROVE processError(m, res) \in ErrorName \cup {"nil"}
BY DEF processError, ErrorName

\* A response that processResponse refuses is the next one for good.
LEMMA StuckStays ==
    ASSUME ChainInv, [Next]_vars, NEW e, Stuck(e)
    PROVE  Stuck(e)'
<1>1. buffer'[idx] = buffer[idx]
  BY BufferGrows DEF Stuck
<1>2. UNCHANGED <<idx, results>>
  <2>1. processError(buffer[idx], results) # "nil" /\ buffer[idx] # None /\ idx \in Position
    BY DEF Stuck
  <2>2. ~AddProcesses /\ ~ResultProcesses /\ ~ResultSkips
    BY <2>1 DEF AddProcesses, ResultProcesses, ResultSkips, Processed
  <2>3. ASSUME NEW m \in Messages, AddRefused(m) \/ AddResponse(m) PROVE UNCHANGED <<idx, results>>
    BY Zenon, <2>3 DEF AddRefused, AddResponse
  <2>4. CASE AddStops \/ AddFails \/ Result \/ ResultFails \/ ResultConcludes \/ UNCHANGED vars
    BY <2>4 DEF AddStops, AddFails, Result, ResultFails, ResultConcludes, vars
  <2> QED
    BY <2>2, <2>3, <2>4 DEF Next, Step
<1> QED
  BY <1>1, <1>2 DEF Stuck

\* A refused response stays refused.
LEMMA RefusedStays ==
    ASSUME ChainInv, [Next]_vars, PlaceKept
    PROVE  Rejected \subseteq Rejected'
<1>1. \A m \in Messages : OffPath \notin {m.zone, m.qname} => m.zone \in Position
  BY AuthenticatorAssumption DEF ConstantsOK, Message, Name
<1>2. \A p \in Position : buffer[p] # None => buffer'[p] = buffer[p]
  BY BufferGrows
<1>3. Dropped \subseteq Dropped'
  BY <1>1, <1>2 DEF Dropped
<1> QED
  BY <1>3 DEF PlaceKept, Rejected

LEMMA ErrorInit == QueueInit => ErrorInv
<1> SUFFICES ASSUME QueueInit PROVE ErrorInv
  OBVIOUS
<1>1. errors = <<>> /\ err = "nil" /\ answer = None /\ main = "resolving"
  BY DEF QueueInit, Init
<1>2. Len(errors) = 0 /\ errors \in Seq(ErrorName) /\ DOMAIN errors = {} /\ ~Failing
  BY <1>1 DEF Failing
<1>3. Reported = 0
  BY <1>2 DEF Reported, One
<1> QED
  BY <1>1, <1>2, <1>3 DEF ErrorInv

LEMMA ErrorStep ==
    ChainInv /\ CountInv /\ PlaceInv /\ ErrorInv /\ [QueueNext]_queueVars => ErrorInv'
<1> SUFFICES ASSUME ChainInv, CountInv, PlaceInv, ErrorInv, [QueueNext]_queueVars PROVE ErrorInv'
  OBVIOUS
<1>0. /\ errors \in Seq(ErrorName) /\ err \in ErrorName \cup {"nil"} /\ Len(errors) \in Nat
      /\ DOMAIN errors = 1..Len(errors)
  BY DEF ErrorInv
<1>1. [Next]_vars /\ PlaceKept
  BY AuthStep, PlaceStep
<1>2. /\ \A e : Stuck(e) => Stuck(e)'
      /\ Blocked => Blocked'
      /\ Rejected \subseteq Rejected'
  <2>1. \A e : Stuck(e) => Stuck(e)'
    BY Zenon, <1>1, StuckStays
  <2> QED
    BY <1>1, <2>1, RefusedStays DEF Blocked
\* Without a new error, those of before are still explained.
<1>3. ASSUME errors' = errors, err' \in ErrorName \cup {"nil"}, Failing' => Failing /\ err' = err,
             main' = "concluding" => Len(errors) # 1,
             answer' # None =>
                 \/ Len(errors) = 1 /\ answer' = Conclusion("Unknown", "NotFound", errors[1])
                 \/ Len(errors) # 1 /\ pc' = "done" /\ answer' = outcome'
      PROVE  ErrorInv'
  <2>1. Reported \in Nat /\ Reported' \in Nat /\ Reported' <= Reported
    BY <1>0, <1>3 DEF Reported, One
  <2>2. /\ \A i \in DOMAIN errors : Stuck(errors[i])' \/ Rejected' # {}
        /\ Failing' => Stuck(err)' \/ Rejected' # {}
    BY <1>2, <1>3 DEF ErrorInv
  <2>3. \A i \in DOMAIN errors' : Stuck(errors[i])' \/ Rejected' # {}
    BY <1>3, <2>2
  <2>4. ~Blocked' => /\ Reported' >= 1 => Rejected' # {}
                     /\ Reported' >= 2 => \E m, n \in Rejected' : m # n
    <3>1. ~Blocked => /\ Reported >= 1 => Rejected # {}
                      /\ Reported >= 2 => \E m, n \in Rejected : m # n
      BY Zenon DEF ErrorInv
    <3>2. (Reported' >= 1 => Reported >= 1) /\ (Reported' >= 2 => Reported >= 2)
      BY <2>1
    <3> QED
      BY Zenon, <1>2, <3>1, <3>2
  <2> QED
    BY <1>0, <1>3, <2>2, <2>3, <2>4 DEF ErrorInv
<1>4. ASSUME UNCHANGED <<errors, err, answer>>, Failing' => Failing,
             main' = "concluding" => main = "concluding",
             UNCHANGED <<pc, outcome>> \/ main # "returned"
      PROVE  ErrorInv'
  <2>1. answer # None => UNCHANGED <<pc, outcome>>
    BY <1>4 DEF PlaceInv
  <2> QED
    BY <1>0, <1>3, <1>4, <2>1 DEF ErrorInv
\* The steps of start happen while the channel is open.
<1>5. queue # <<>> \/ start = "busy" => main \notin {"concluding", "returned"} /\ answer = None
  BY OpenWhilePending DEF PlaceInv, Closed
<1>6. CASE Receive
  <2> DEFINE m == Head(queue)
  <2>1. /\ start = "ranging" /\ start' = "busy" /\ queue # <<>> /\ queue' = Tail(queue)
        /\ AddResponse(m) \/ AddRefused(m)
        /\ UNCHANGED <<errors, main, sending, link, answer>>
    BY <1>6 DEF Receive
  <2>2. CASE AddResponse(m)
    <3>1. pc' = "adding" /\ err' = err
      BY Zenon, <2>2 DEF AddResponse
    <3> QED
      BY <1>4, <1>5, <2>1, <3>1 DEF Failing
  <2>3. CASE AddRefused(m)
    <3>1. /\ pc = "ready" /\ Refused(m) /\ UNCHANGED <<buffer, idx, results, pc, outcome>>
          /\ err' = IF OffPath \in {m.zone, m.qname} THEN "ErrNotSubdomain" ELSE "ErrDuplicateInputForZone"
      BY <2>3 DEF AddRefused
    <3>2. m \in Messages /\ m \in Waiting
      BY SMTT(30), <2>1 DEF CountInv, Waiting, Queued
    <3>3. m \in Handed' /\ m \notin Waiting'
      <4>1. /\ queue \in Seq(Messages) /\ DOMAIN queue = 1..Len(queue)
            /\ DOMAIN queue' = 1..Len(queue) - 1 /\ m = queue[1] /\ Len(queue) > 0
            /\ \A i \in DOMAIN queue' : queue'[i] = queue[i + 1]
        BY <2>1 DEF CountInv
      <4>2. \A i \in DOMAIN queue' : queue'[i] # m
        BY <4>1 DEF PlaceInv
      <4>3. main = "sending" => sending # m
        BY SMTT(30), <4>1 DEF PlaceInv, Queued
      <4> QED
        BY <2>1, <3>2, <4>2, <4>3 DEF PlaceInv, Handed, Waiting, Queued
    <3>4. m \in Dropped'
      <4>1. OffPath \notin {m.zone, m.qname} => m.zone \in Position
        BY <3>2, AuthenticatorAssumption DEF ConstantsOK, Message, Name
      <4>2. m \notin Buffered
        BY <3>2 DEF PlaceInv
      <4> QED
        BY Zenon, <3>1, <3>2, <4>1, <4>2 DEF Refused, Dropped, Buffered
    <3>5. m \in Rejected' /\ m \notin Rejected
      BY <3>2, <3>3, <3>4 DEF Rejected
    <3>6. ~Failing /\ Reported = Len(errors) /\ Reported' = Len(errors) + 1
      <4>1. ~Failing /\ Failing'
        BY <2>1, <3>1 DEF Failing
      <4> QED
        BY SMTT(30), <1>0, <2>1, <4>1 DEF Reported, One
    <3>7. ~Blocked' => /\ Reported' >= 1 => Rejected' # {}
                       /\ Reported' >= 2 => \E a, b \in Rejected' : a # b
      <4> SUFFICES ASSUME ~Blocked', Reported' >= 2 PROVE \E a, b \in Rejected' : a # b
        BY <3>5
      <4>1. Reported >= 1
        BY <1>0, <3>6
      <4>2. PICK a \in Rejected : TRUE
        BY <1>2, <4>1 DEF ErrorInv
      <4> QED
        BY <1>2, <3>5, <4>2
    <3>8. err' \in ErrorName \cup {"nil"}
      BY <3>1 DEF ErrorName
    <3> QED
      BY Zenon, <1>0, <1>5, <2>1, <3>5, <3>7, <3>8 DEF ErrorInv
  <2> QED
    BY <2>1, <2>2, <2>3
<1>7. CASE AddStep
  <2>1. start = "busy" /\ UNCHANGED <<errors, start, main, answer>>
    BY <1>7 DEF AddStep
  <2>2. CASE AddStops
    BY <1>3, <1>5, <2>1, <2>2 DEF AddStops, Failing
  <2>3. CASE AddProcesses
    BY Zenon, <1>4, <1>5, <2>1, <2>3 DEF AddProcesses, Processed, Failing
  <2>4. CASE AddFails
    <3>1. /\ idx \in Position /\ buffer[idx] # None /\ UNCHANGED <<buffer, idx, results>>
          /\ err' = processError(buffer[idx], results) /\ err' # "nil"
      BY <2>4 DEF AddFails, AtGap
    <3>2. Stuck(err)'
      BY <3>1 DEF Stuck
    <3>3. err' \in ErrorName
      BY <3>1, ProcessErrorType
    <3>4. Blocked'
      BY <3>1, <3>3 DEF Blocked, Stuck
    <3>5. \A i \in DOMAIN errors : Stuck(errors[i])' \/ Rejected' # {}
      BY <1>2, <2>1 DEF ErrorInv
    <3> QED
      BY Zenon, <1>0, <1>5, <2>1, <3>2, <3>3, <3>4, <3>5 DEF ErrorInv
  <2> QED
    BY <1>7, <2>2, <2>3, <2>4 DEF AddStep
<1>8. CASE AddReturns
  <2>1. /\ start = "busy" /\ pc = "ready" /\ start' = "ranging"
        /\ errors' = IF err = "nil" THEN errors ELSE Append(errors, err)
        /\ UNCHANGED <<err, pc, main, answer>>
    BY <1>8 DEF AddReturns, vars
  <2>2. CASE err = "nil"
    BY Zenon, <1>3, <1>5, <1>0, <2>1, <2>2 DEF Failing
  <2>3. CASE err # "nil"
    <3>1. Failing /\ ~Failing'
      BY <2>1, <2>3 DEF Failing
    <3>2. /\ errors' \in Seq(ErrorName) /\ Len(errors') = Len(errors) + 1
          /\ DOMAIN errors' = 1..Len(errors) + 1 /\ errors'[Len(errors) + 1] = err
          /\ \A i \in 1..Len(errors) : errors'[i] = errors[i]
      BY <1>0, <2>1, <2>3
    <3>3. Reported' = Reported
      BY <1>0, <3>1, <3>2 DEF Reported, One
    <3>4. \A e : Stuck(e) => Stuck(e)'
      BY <1>2
    <3>5. \A i \in DOMAIN errors' : Stuck(errors'[i]) \/ Rejected # {}
      <4>1. /\ \A i \in 1..Len(errors) : Stuck(errors[i]) \/ Rejected # {}
            /\ Stuck(err) \/ Rejected # {}
        BY Zenon, <1>0, <3>1 DEF ErrorInv
      <4>2. \A i \in 1..Len(errors) + 1 : i \in 1..Len(errors) \/ i = Len(errors) + 1
        BY <1>0
      <4> QED
        BY Zenon, <3>2, <4>1, <4>2
    <3>6. \A i \in DOMAIN errors' : Stuck(errors[i])' \/ Rejected' # {}
      <4> SUFFICES ASSUME NEW i \in DOMAIN errors', Rejected' = {} PROVE Stuck(errors[i])'
        OBVIOUS
      <4>1. PICK e : e = errors'[i]
        OBVIOUS
      <4>2. Stuck(e)
        BY <1>2, <3>5, <4>1
      <4> QED
        BY <3>4, <4>1, <4>2 DEF Stuck
    <3>7. ~Blocked' => /\ Reported' >= 1 => Rejected' # {}
                       /\ Reported' >= 2 => \E a, b \in Rejected' : a # b
      BY <1>2, <3>3 DEF ErrorInv
    <3> QED
      BY Zenon, <1>0, <1>5, <2>1, <3>1, <3>2, <3>6, <3>7 DEF ErrorInv
  <2> QED
    BY <2>2, <2>3
<1>9. CASE StartBegins \/ StartEnds
  BY Zenon, <1>4, <1>9 DEF StartBegins, StartEnds, vars, Failing
<1>10. CASE SendResponse \/ callResult \/ callClose \/ closeQueue \/ clearQueue
  BY <1>4, <1>10
     DEF SendResponse, callResult, callClose, Finish, closeQueue, clearQueue, vars, Failing
<1>11. CASE readErrors
  <2>1. main = "reading" /\ UNCHANGED <<errors, start>> /\ answer = None
    BY <1>11 DEF readErrors, PlaceInv
  <2>2. CASE Len(errors) = 1
    BY Zenon, <1>0, <1>3, <1>11, <2>1, <2>2 DEF readErrors, vars, Failing
  <2>3. CASE Len(errors) # 1
    BY <1>0, <1>3, <1>11, <2>1, <2>3 DEF readErrors, Result, Failing
  <2> QED
    BY <2>2, <2>3
<1>12. CASE Conclude
  <2>1. main = "concluding" /\ UNCHANGED <<errors, answer, main, start>>
    BY Zenon, <1>12 DEF Conclude
  <2>2. err' = err /\ pc' # "ready"
    BY <1>12 DEF Conclude, ResultSkips, ResultProcesses, ResultFails, ResultConcludes, Processed
  <2> QED
    BY <1>4, <2>1, <2>2 DEF Failing
<1>13. CASE Return
  <2>1. /\ main = "concluding" /\ pc = "done" /\ answer' = outcome /\ main' = "returned"
        /\ UNCHANGED <<errors, err, pc, outcome, start>>
    BY <1>13 DEF Return, vars
  <2>2. Len(errors) # 1
    BY <2>1 DEF ErrorInv
  <2> QED
    BY <1>0, <1>3, <2>1, <2>2 DEF Failing
<1>14. ASSUME NEW m \in Messages, Link(m) \/ addResponse(m) \/ addDelegationSignerLink(m)
       PROVE  ErrorInv'
  <2>1. UNCHANGED <<errors, err, answer, pc, outcome, start>> /\ (main' = main \/ main' = "sending")
    BY <1>14
       DEF Link, LinkAnswered, LinkSends, LinkDone, addResponse, addDelegationSignerLink, vars
  <2> QED
    BY Zenon, <1>4, <2>1 DEF Failing
<1>15. CASE UNCHANGED queueVars
  BY <1>4, <1>15 DEF queueVars, vars, Failing
<1> QED
  BY Zenon, <1>6, <1>7, <1>8, <1>9, <1>10, <1>11, <1>12, <1>13, <1>14, <1>15 DEF QueueNext, Start, Main

\* When result has returned, all that was handed over arrived and was received.
LEMMA AllReceived ==
    ASSUME CountInv, PlaceInv, answer # None
    PROVE  Waiting = {} /\ Handed = {m \in Messages : Arrived(m)}
<1>1. main \in Closed
  BY DEF PlaceInv, Closed
<1>2. queue = <<>> /\ main # "sending" /\ \A m \in Messages : link[m] # "sent"
  BY <1>1, OpenWhilePending
<1>3. DOMAIN queue = {}
  BY <1>2
<1> QED
  BY <1>2, <1>3 DEF Waiting, Queued, Handed, Arrived

\* The error of a response that is refused is the error of the chain.
LEMMA StuckChain ==
    ASSUME OrderInv, NEW e, Stuck(e)
    PROVE  ChainTo(buffer).err = e
<1>0. N \in Nat /\ idx \in 0..N /\ idx + 1 \in 0..N + 1
  BY AuthenticatorAssumption DEF ConstantsOK, Stuck, Position
<1>1. Chain(buffer)[idx + 1] = Extend(Chain(buffer)[idx], buffer[idx])
  BY Zenon, <1>0, ChainValue
<1>2. Chain(buffer)[idx + 1].err = e /\ e # "nil"
  <2> DEFINE above == Chain(buffer)[idx]
  <2>1. /\ buffer[idx] # None /\ above.err = "nil" /\ above.res = results
        /\ e = processError(buffer[idx], results) /\ e # "nil"
    BY DEF OrderInv, Stuck
  <2> HIDE DEF above
  <2>2. Extend(above, buffer[idx]).err = e
    BY <2>1 DEF Extend
  <2> QED
    BY Zenon, <1>1, <2>1, <2>2 DEF above
<1> QED
  BY <1>0, <1>2, ChainErrorStays DEF ChainTo

\* However the goroutines interleave, result returns what the responses that
\* arrived imply, and leaves none of them out: for any number of responses,
\* labels and places in the channel.
THEOREM AnswerIndependentOfSchedule == QueueSpec => []ScheduleIndependent
<1>1. ChainInv /\ OrderInv /\ CountInv /\ PlaceInv /\ ErrorInv => ScheduleIndependent
  <2> SUFFICES ASSUME ChainInv, OrderInv, CountInv, PlaceInv, ErrorInv, answer # None,
                      \A m \in Messages : Arrived(m) => OffPath \notin {m.zone, m.qname},
                      \A m, n \in Messages : Arrived(m) /\ Arrived(n) /\ m.zone = n.zone => m = n
               PROVE  /\ \A m \in Messages : Arrived(m) => buffer[m.zone] = m
                      /\ answer = IF ChainTo(buffer).err = "nil"
                                  THEN Concluded(ChainTo(buffer).res)
                                  ELSE Conclusion("Unknown", "NotFound", ChainTo(buffer).err)
    BY DEF ScheduleIndependent
  <2>1. Waiting = {} /\ Handed = {m \in Messages : Arrived(m)}
    BY Zenon, AllReceived
  <2>2. ASSUME NEW m \in Messages, Arrived(m) PROVE m \notin Dropped /\ buffer[m.zone] = m
    <3>1. m.zone \in Position /\ OffPath \notin {m.zone, m.qname}
      BY <2>2, AuthenticatorAssumption DEF ConstantsOK, Message, Name
    <3>2. ASSUME m \in Dropped PROVE FALSE
      <4> DEFINE n == buffer[m.zone]
      <4>1. n \in Messages /\ n # m /\ n.zone = m.zone
        BY <3>1, <3>2 DEF Dropped, ChainInv
      <4>2. n \in Buffered
        BY Zenon, <3>1, <4>1 DEF Buffered
      <4>3. Arrived(n)
        BY Zenon, <2>1, <4>2 DEF PlaceInv
      <4> QED
        BY Zenon, <2>2, <4>1, <4>3
    <3>3. m \in Buffered
      BY Zenon, <2>1, <2>2, <3>2 DEF PlaceInv
    <3>4. PICK p \in Position : buffer[p] = m
      BY <3>3 DEF Buffered
    <3>5. m # None
      BY Zenon, AuthenticatorAssumption DEF ConstantsOK
    <3> QED
      BY Zenon, <3>2, <3>4, <3>5 DEF ChainInv
  <2>3. Rejected = {}
    BY Zenon, <2>1, <2>2 DEF Rejected
  <2>4. CASE Len(errors) = 1
    <3>1. Stuck(errors[1]) /\ errors[1] # "nil"
      <4>1. errors \in Seq(ErrorName)
        BY Zenon DEF ErrorInv
      <4>2. 1 \in DOMAIN errors /\ errors[1] \in ErrorName
        BY <2>4, <4>1
      <4>3. errors[1] # "nil"
        BY <4>2 DEF ErrorName
      <4> QED
        BY Zenon, <2>3, <4>2, <4>3 DEF ErrorInv
    <3>2. ChainTo(buffer).err = errors[1]
      BY Zenon, <3>1, StuckChain
    <3> QED
      BY Zenon, <2>2, <2>4, <3>1, <3>2 DEF ErrorInv
  <2>5. CASE Len(errors) # 1
    BY Zenon, <2>2, <2>5 DEF ErrorInv, OrderInv, OrderIndependent
  <2> QED
    BY Zenon, <2>4, <2>5
<1>2. QueueInit => Init
  BY DEF QueueInit
<1> QED
  BY <1>1, <1>2, ChainInit, ChainStep, OrderInit, OrderStep, CountInit, CountStep, PlaceInit,
     PlaceStep,
     ErrorInit, ErrorStep, AuthStep, PTL DEF QueueSpec

\* result reports an error whenever AddResponse returned one, also when it
\* drops a list of several, as long as one response was refused at most.
THEOREM NoErrorLost == QueueSpec => []ErrorReported
<1>1. ChainInv /\ OrderInv /\ CountInv /\ PlaceInv /\ ErrorInv => ErrorReported
  <2> DEFINE LeftOut == {m \in Messages : Arrived(m) /\ \A p \in Position : buffer[p] # m}
  <2> SUFFICES ASSUME ChainInv, OrderInv, CountInv, PlaceInv, ErrorInv, answer # None,
                      errors # <<>>, \A m, n \in LeftOut : m = n
               PROVE  answer.err # "nil"
    BY Zenon DEF ErrorReported
  <2>1. Rejected \subseteq LeftOut
    BY Zenon, AllReceived DEF Rejected, PlaceInv, Handed, Buffered
  <2>2. CASE Len(errors) = 1
    BY <2>2 DEF ErrorInv, ErrorName, Conclusion
  <2>3. CASE Len(errors) # 1
    <3>1. Reported >= 2
      <4>1. errors \in Seq(ErrorName)
        BY DEF ErrorInv
      <4>2. Len(errors) \in Nat /\ Len(errors) # 0
        BY <4>1
      <4>3. One(Failing) \in Nat
        BY DEF One
      <4>4. \A a, b \in Nat : a \notin {0, 1} => a + b >= 2
        OBVIOUS
      <4> QED
        BY <2>3, <4>2, <4>3, <4>4, Zenon DEF Reported
    <3>2. Blocked
      BY <2>1, <3>1 DEF ErrorInv
    <3>3. PICK e : Stuck(e)
      BY Zenon, <3>2 DEF Blocked
    <3>4. ChainTo(buffer).err = e /\ e # "nil"
      BY <3>3, StuckChain DEF Stuck
    <3>5. pc = "done" /\ answer = outcome
      BY Zenon, <2>3 DEF ErrorInv
    <3>6. outcome = Conclusion("Unknown", "NotFound", e)
      BY <3>4, <3>5 DEF OrderInv, OrderIndependent
    <3> QED
      BY <3>4, <3>5, <3>6 DEF Conclusion
  <2> QED
    BY <2>2, <2>3
<1>2. QueueInit => Init
  BY DEF QueueInit
<1> QED
  BY <1>1, <1>2, ChainInit, ChainStep, OrderInit, OrderStep, CountInit, CountStep, PlaceInit,
     PlaceStep,
     ErrorInit, ErrorStep, AuthStep, PTL DEF QueueSpec

=============================================================================
