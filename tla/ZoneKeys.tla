------------------------------ MODULE ZoneKeys ------------------------------
(***************************************************************************)
(* The DNSKEY records that a zone keeps (zone.go, zoneImpl.dnskeys).       *)
(*                                                                         *)
(* A zone is shared by all the queries that walk through it.  Each of them *)
(* asks for its keys: in a goroutine, so as to have them early             *)
(* (resolver_exchange.go, auth.go), and again when it authenticates a      *)
(* response of the zone.  dnskeys holds the zone's dnskeyLock while it     *)
(* looks at what it has, and throughout its exchange if that is too old.   *)
(*                                                                         *)
(* The records of an answer are abstracted to their smallest TTL and the   *)
(* time they came.  Time is in seconds, from 1; 0 is the zero time.Time.   *)
(***************************************************************************)
EXTENDS Integers

CONSTANTS
    Caller,          \* goroutines that call dnskeys
    TTLs,            \* the smallest TTLs of the answers with records
    MaxAllowedTTL,
    EmptyTTL,        \* how long an answer without records is kept (60 seconds)
    MaxTime,         \* bound on the clock
    None

ConstantsOK ==
    /\ TTLs \subseteq Nat
    /\ MaxAllowedTTL \in Nat /\ EmptyTTL \in Nat
    /\ MaxTime \in Nat \ {0}
    /\ None \notin Caller
    /\ None \notin [ttl : TTLs, received : 1..MaxTime]

ASSUME KeysAssumption == ConstantsOK

VARIABLES
    now,
    dnskeyLock,      \* the caller that holds it, or None
    dnskeyRecords,   \* what the zone has, or None
    dnskeyExpiry,
    pc,              \* where each caller is: "idle", "lock" or "exchange"
    result,          \* what its last call returned and when, or None
    emptied          \* history: when the last answer without records came, or 0

zone == <<dnskeyLock, dnskeyRecords, dnskeyExpiry>>
vars == <<now, zone, pc, result, emptied>>

Init ==
    /\ now = 1
    /\ dnskeyLock = None
    /\ dnskeyRecords = None
    /\ dnskeyExpiry = 0
    /\ pc = [c \in Caller |-> "idle"]
    /\ result = [c \in Caller |-> None]
    /\ emptied = 0

Tick ==
    /\ now < MaxTime
    /\ now' = now + 1
    /\ UNCHANGED <<zone, pc, result, emptied>>

-----------------------------------------------------------------------------
dnskeys(c) ==
    /\ pc[c] = "idle"
    /\ pc' = [pc EXCEPT ![c] = "lock"]
    /\ result' = [result EXCEPT ![c] = None]
    /\ UNCHANGED <<now, zone, emptied>>

\* The call ends; keys is None for no keys.
Return(c, err, keys) ==
    /\ pc' = [pc EXCEPT ![c] = "idle"]
    /\ result' = [result EXCEPT ![c] = [err |-> err, keys |-> keys, at |-> now]]
    /\ dnskeyLock' = None

\* Mutant: the expiry is not looked at.
Current_Ever == dnskeyExpiry # 0

\* The check is on the expiry only: dnskeyRecords may be nil and valid.
Current == dnskeyExpiry # 0 /\ dnskeyExpiry >= now

ReturnCached(c) ==
    /\ pc[c] = "lock" /\ dnskeyLock = None
    /\ Current
    /\ Return(c, "nil", dnskeyRecords)
    /\ UNCHANGED <<now, dnskeyRecords, dnskeyExpiry, emptied>>

\* Mutant: the lock is given up for the exchange.
Ask_Unlocked(c) ==
    /\ pc[c] = "lock" /\ dnskeyLock = None
    /\ ~Current
    /\ pc' = [pc EXCEPT ![c] = "exchange"]
    /\ UNCHANGED <<now, zone, result, emptied>>

\* zone.exchange, with the lock held.
Ask(c) ==
    /\ pc[c] = "lock" /\ dnskeyLock = None
    /\ ~Current
    /\ dnskeyLock' = c
    /\ pc' = [pc EXCEPT ![c] = "exchange"]
    /\ UNCHANGED <<now, dnskeyRecords, dnskeyExpiry, result, emptied>>

\* Mutant: a failed exchange is tried again without a limit.
Fail_Retries(c) ==
    /\ pc[c] = "exchange"
    /\ pc' = [pc EXCEPT ![c] = "lock"]
    /\ dnskeyLock' = None
    /\ UNCHANGED <<now, dnskeyRecords, dnskeyExpiry, result, emptied>>

\* The exchange fails or has no message.
Fail(c) ==
    /\ pc[c] = "exchange"
    /\ Return(c, "ErrFailedToGetDNSKEYs", None)
    /\ UNCHANGED <<now, dnskeyRecords, dnskeyExpiry, emptied>>

\* An answer without records is remembered for a while; dnskeyRecords stays.
AnswerEmpty(c) ==
    /\ pc[c] = "exchange"
    /\ dnskeyExpiry' = now + EmptyTTL
    /\ emptied' = now
    /\ Return(c, "nil", None)
    /\ UNCHANGED <<now, dnskeyRecords>>

Lifetime(ttl) == IF ttl < MaxAllowedTTL THEN ttl ELSE MaxAllowedTTL

Answer(c, ttl) ==
    LET keys == [ttl |-> ttl, received |-> now] IN
    /\ pc[c] = "exchange"
    /\ dnskeyRecords' = keys
    /\ dnskeyExpiry' = now + Lifetime(ttl)
    /\ Return(c, "nil", keys)
    /\ UNCHANGED <<now, emptied>>

ExchangeReturns(c) == Fail(c) \/ AnswerEmpty(c) \/ \E ttl \in TTLs : Answer(c, ttl)

Next ==
    \/ Tick
    \/ \E c \in Caller : dnskeys(c) \/ ReturnCached(c) \/ Ask(c) \/ ExchangeReturns(c)

Spec == Init /\ [][Next]_vars

\* An exchange ends (the nameservers have timeouts), and a sync.Mutex that
\* becomes free again and again lets in everyone who waits for it.
FairSpec ==
    /\ Spec
    /\ \A c \in Caller : WF_vars(ExchangeReturns(c)) /\ SF_vars(ReturnCached(c) \/ Ask(c))

-----------------------------------------------------------------------------
(* Properties.                                                             *)

Keys == [ttl : TTLs, received : 1..MaxTime]

\* The type invariant of the zone's keys and of the calls.
TypeOK ==
    /\ now \in 1..MaxTime
    /\ dnskeyLock \in Caller \cup {None}
    /\ dnskeyRecords \in Keys \cup {None}
    /\ dnskeyExpiry \in Nat
    /\ pc \in [Caller -> {"idle", "lock", "exchange"}]
    /\ result \in [Caller -> [err : {"nil", "ErrFailedToGetDNSKEYs"},
                             keys : Keys \cup {None}, at : 1..MaxTime] \cup {None}]
    /\ emptied \in 0..MaxTime

Fresh(r) == r.at <= r.keys.received + Lifetime(r.keys.ttl)

Returned(c) == result[c] # None /\ result[c].keys # None

\* dnskeys never hands out keys beyond their TTL, however many callers race
\* to renew them, except for keys that a later answer without records has
\* brought back to life (AnswerEmpty renews the expiry, not the records).
KeysWithinTTL ==
    \A c \in Caller :
        Returned(c) => Fresh(result[c]) \/ result[c].keys.received <= emptied

\* The callers that had to wait for an exchange share its answer: two calls
\* whose keys came in two exchanges cannot both have found the same keys
\* expired, so keys are never asked for again while they are valid.
NoRefetch ==
    \A c, d \in Caller :
        Returned(c) /\ Returned(d) =>
            LET k == result[c].keys
                l == result[d].keys IN
            k.received < l.received =>
                k.received + Lifetime(k.ttl) < l.received \/ emptied >= k.received

\* Every call returns: the lock that is held across an exchange is released
\* on each path out of dnskeys, and no caller waits for it for ever.
CallReturns == \A c \in Caller : pc[c] = "lock" ~> pc[c] = "idle"

=============================================================================
