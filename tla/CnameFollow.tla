----------------------------- MODULE CnameFollow -----------------------------
(***************************************************************************)
(* The end of a query: finaliseResponse (resolver_exchange.go) and the     *)
(* following of CNAME records (cname.go, AuthenticationResult.Combine in   *)
(* dnssec/const.go).                                                       *)
(*                                                                         *)
(* For each CNAME record of the answer a goroutine gets the records of its *)
(* target, from the cache that it shares with the others or by an exchange *)
(* of its own, and puts them, or an error, on a channel.  When all have    *)
(* returned, the responses are merged in the order of the channel.         *)
(*                                                                         *)
(* A response is abstracted to its authentication result, its Rcode, its   *)
(* AA bit and the set of answers that it is made of (its own name and the  *)
(* followed targets).  A cached message has no authentication result.      *)
(***************************************************************************)
EXTENDS Integers, Sequences, FiniteSets

CONSTANTS
    Cname,       \* the CNAME records of the answer
    Target,      \* the target of each
    Known,       \* targets that the answer has records of already
    Exchanged,   \* what an exchange may bring: responses, or None for an error
    Cached,      \* what the cache may have: messages, or None
    None

States == {"Unknown", "Insecure", "Secure", "Bogus"}

\* RcodeSuccess, RcodeServerFailure and RcodeNameError.
Success == 0
ServerFailure == 2
NameError == 3

Targets == {Target[c] : c \in Cname}
Response == [auth : States, rcode : {Success, ServerFailure, NameError}, aa : BOOLEAN]

ConstantsOK ==
    /\ IsFiniteSet(Cname)
    /\ DOMAIN Target = Cname
    /\ Known \subseteq Targets
    /\ Exchanged \subseteq Response \cup {None}
    /\ Cached \subseteq Exchanged
    /\ None \notin Response /\ None \notin Targets

ASSUME CnameAssumption == ConstantsOK

VARIABLES
    qtype,       \* "CNAME" if the question is for CNAME records, else "other"
    flags,       \* "DO", "CD" (DO with CheckingDisabled) or "plain"
    own,         \* the response that the CNAME records are in, before all this
    pc,          \* the goroutine of each CNAME record
    got,         \* what it got for its target
    cache,       \* the message that the cache has for a target to follow, or None
    responses,   \* the channel cnameResponses
    errors,      \* the length of the channel cnameErrors
    main,        \* the goroutine of finaliseResponse
    r,           \* the response it works on: auth, rcode, aa, ad and parts
    err          \* whether the response has an error: "nil", "rcode", "cname" or "dnssec"

query == <<qtype, flags>>
vars == <<query, own, pc, got, cache, responses, errors, main, r, err>>

\* AuthenticationResult.Combine
Combine(r1, r2) ==
    IF "Bogus" \in {r1, r2} THEN "Bogus"
    ELSE IF "Unknown" \in {r1, r2} THEN "Unknown"
    ELSE IF "Insecure" \in {r1, r2} THEN "Insecure"
    ELSE IF {r1, r2} = {"Secure"} THEN "Secure"
    ELSE "Bogus"

\* max, of two Rcodes.
Larger(m, n) == IF m < n THEN n ELSE m

\* A message without an authentication result.
Unvalidated(x) == [x EXCEPT !.auth = "Unknown"]

-----------------------------------------------------------------------------
\* The state in which finaliseResponse is called: without an authenticator
\* there is no result.  The message has the AD bit that the name server gave
\* it, and any of the targets may be in the cache.
Init ==
    /\ qtype \in {"CNAME", "other"} /\ flags \in {"DO", "CD", "plain"}
    /\ own \in IF flags = "plain" THEN {Unvalidated(x) : x \in Exchanged \ {None}}
              ELSE Exchanged \ {None}
    /\ pc = [c \in Cname |-> "off"]
    /\ got = [c \in Cname |-> None]
    /\ cache \in [Targets \ Known -> {IF x = None THEN None ELSE Unvalidated(x) : x \in Cached}]
    /\ responses = <<>>
    /\ errors = 0
    /\ main = "result"
    /\ \E ad \in BOOLEAN :
          r = [auth |-> "Unknown", rcode |-> own.rcode, aa |-> own.aa, ad |-> ad, parts |-> {None}]
    /\ err = "nil"

\* auth.result(): its error is kept in the response.  A Bogus result and an
\* Insecure one (the root without keys) may come with an error.
TakeResult ==
    /\ main = "result"
    /\ r' = [r EXCEPT !.auth = own.auth]
    /\ err' \in IF flags = "plain" THEN {"nil"}
                ELSE IF own.auth = "Unknown" THEN {"dnssec"}
                ELSE IF own.auth = "Secure" THEN {"nil"} ELSE {"nil", "dnssec"}
    /\ IF qtype = "CNAME" \/ Cname = {}
       THEN main' = "merged" /\ UNCHANGED pc
       ELSE main' = "waiting" /\ pc' = [c \in Cname |-> "start"]
    /\ UNCHANGED <<query, own, got, cache, responses, errors>>

-----------------------------------------------------------------------------
(* The goroutine of a CNAME record.                                        *)

Follow(c, from, to) == pc[c] = from /\ pc' = [pc EXCEPT ![c] = to]

\* Mutant: the return of a goroutine that has nothing to do comes before
\* its deferred Done.
Skip_NoDone(c) ==
    /\ Target[c] \in Known
    /\ Follow(c, "start", "gone")
    /\ UNCHANGED <<query, own, got, cache, responses, errors, main, r, err>>

\* The answer has the target's records already.
Skip(c) ==
    /\ Target[c] \in Known
    /\ Follow(c, "start", "done")
    /\ UNCHANGED <<query, own, got, cache, responses, errors, main, r, err>>

\* cache.get: a hit is a response without an authentication result.
CacheGet(c) ==
    /\ Target[c] \notin Known
    /\ Follow(c, "start", IF cache[Target[c]] = None THEN "asking" ELSE "got")
    /\ got' = [got EXCEPT ![c] = cache[Target[c]]]
    /\ UNCHANGED <<query, own, cache, responses, errors, main, r, err>>

\* exchanger.exchange; without DO there is no authentication result.
Exchange(c) ==
    /\ \E x \in Exchanged :
          got' = [got EXCEPT ![c] = IF x # None /\ flags = "plain" THEN Unvalidated(x) ELSE x]
    /\ Follow(c, "asking", IF got'[c] = None THEN "got" ELSE "storing")
    /\ UNCHANGED <<query, own, cache, responses, errors, main, r, err>>

\* cache.set: the cache keeps the message only.
CacheSet(c) ==
    /\ Follow(c, "storing", "got")
    /\ cache' = [cache EXCEPT ![Target[c]] = Unvalidated(got[c])]
    /\ UNCHANGED <<query, own, got, responses, errors, main, r, err>>

\* The channels have room for one value of each goroutine.
Send(c) ==
    /\ Follow(c, "got", "done")
    /\ IF got[c] = None
       THEN errors' = errors + 1 /\ UNCHANGED responses
       ELSE responses' = Append(responses, c) /\ UNCHANGED errors
    /\ UNCHANGED <<query, own, got, cache, main, r, err>>

-----------------------------------------------------------------------------
(* finaliseResponse and cname, after the goroutines.                       *)

\* A Response that has an error and no message.
Empty == [auth |-> "Unknown", rcode |-> Success, aa |-> FALSE, ad |-> FALSE, parts |-> {}]

\* wg.Wait, and the closing of the channels.  Without a response to merge,
\* errors are the result.
Wait ==
    /\ main = "waiting"
    /\ \A c \in Cname : pc[c] = "done"
    /\ IF responses = <<>> /\ errors > 0
       THEN main' = "returned" /\ err' = "cname" /\ r' = Empty
       ELSE main' = "merging" /\ UNCHANGED <<r, err>>
    /\ UNCHANGED <<query, own, pc, got, cache, responses, errors>>

\* Mutant: the last response's authentication result counts.
Merged_Last(x, c) ==
    [x EXCEPT !.auth = got[c].auth,
              !.aa = @ /\ got[c].aa,
              !.rcode = Larger(@, got[c].rcode),
              !.parts = @ \cup {Target[c]}]

\* Mutant: a response without a result does not count.
Merged_KnownOnly(x, c) ==
    [x EXCEPT !.auth = IF got[c].auth = "Unknown" THEN @ ELSE Combine(@, got[c].auth),
              !.aa = @ /\ got[c].aa,
              !.rcode = Larger(@, got[c].rcode),
              !.parts = @ \cup {Target[c]}]

\* The response x with what was got for c.
Merged(x, c) ==
    [x EXCEPT !.auth = Combine(@, got[c].auth),
              !.aa = @ /\ got[c].aa,
              !.rcode = Larger(@, got[c].rcode),
              !.parts = @ \cup {Target[c]}]

Merge ==
    /\ main = "merging" /\ responses # <<>>
    /\ r' = Merged(r, Head(responses))
    /\ responses' = Tail(responses)
    /\ UNCHANGED <<query, own, pc, got, cache, errors, main, err>>

MergeEnds ==
    /\ main = "merging" /\ responses = <<>>
    /\ main' = "merged"
    /\ UNCHANGED <<query, own, pc, got, cache, responses, errors, r, err>>

\* The check of the Rcode, then AD, and the suppression of Bogus responses.
Finalise ==
    /\ main = "merged"
    /\ err' = IF r.rcode \in {Success, NameError} THEN err ELSE "rcode"
    /\ r' = IF flags # "DO" THEN r
            ELSE [r EXCEPT !.ad = (r.auth = "Secure"),
                           !.rcode = IF r.auth = "Bogus" THEN ServerFailure ELSE @,
                           !.parts = IF r.auth = "Bogus" THEN {} ELSE @]
    /\ main' = "returned"
    /\ UNCHANGED <<query, own, pc, got, cache, responses, errors>>

Goroutine(c) == Skip(c) \/ CacheGet(c) \/ Exchange(c) \/ CacheSet(c) \/ Send(c)
Main == TakeResult \/ Wait \/ Merge \/ MergeEnds \/ Finalise

Next == Main \/ \E c \in Cname : Goroutine(c)

Spec == Init /\ [][Next]_vars

\* Every goroutine that can run does; an exchange returns.
FairSpec == Spec /\ WF_vars(Main) /\ \A c \in Cname : WF_vars(Goroutine(c))

-----------------------------------------------------------------------------
(* Properties.                                                             *)

\* The type invariant; a channel never holds more than it has room for.
TypeOK ==
    /\ qtype \in {"CNAME", "other"} /\ flags \in {"DO", "CD", "plain"}
    /\ own \in Response
    /\ pc \in [Cname -> {"off", "start", "asking", "storing", "got", "done"}]
    /\ got \in [Cname -> Response \cup {None}]
    /\ cache \in [Targets \ Known -> Response \cup {None}]
    /\ responses \in Seq(Cname) /\ Len(responses) + errors <= Cardinality(Cname)
    /\ main \in {"result", "waiting", "merging", "merged", "returned"}
    /\ r \in [auth : States, rcode : {Success, ServerFailure, NameError}, aa : BOOLEAN,
              ad : BOOLEAN, parts : SUBSET (Targets \cup {None})]
    /\ err \in {"nil", "rcode", "cname", "dnssec"}

\* The CNAME records that were followed with success.
Followed == {c \in Cname : Target[c] \notin Known /\ got[c] # None}

Worst(auths) ==
    CHOOSE a \in auths :
        \/ a = "Bogus"
        \/ a = "Unknown" /\ "Bogus" \notin auths
        \/ a = "Insecure" /\ auths \cap {"Bogus", "Unknown"} = {}
        \/ auths = {a}

IsLargest(n, codes) == n \in codes /\ \A m \in codes : m <= n

\* Given what each goroutine got, the merged response does not depend on the
\* order in which they finished: it is the worst authentication result, the
\* largest Rcode and the AA of all that were followed, and no successful one
\* is left out.  What a goroutine got does depend on the others: one that
\* finds the cache filled by another has no authentication result.
OrderIndependent ==
    main = "merged" =>
        /\ r.auth = Worst({own.auth} \cup {got[c].auth : c \in Followed})
        /\ IsLargest(r.rcode, {own.rcode} \cup {got[c].rcode : c \in Followed})
        /\ r.aa = (own.aa /\ \A c \in Followed : got[c].aa)
        /\ r.parts = {None} \cup {Target[c] : c \in Followed}

\* "Only return Secure if both results are independently Secure": the AD bit
\* of the response to a query with DO is set only when the response itself and
\* every part of it have been found Secure by this request; what came from
\* the cache has not, and what the name server had in the bit does not count.
\* (It does for the others: finaliseResponse leaves the bit of a response to
\* a query without DO, or with CD, as the name server sent it.)
ADMeansAllSecure ==
    main = "returned" /\ flags = "DO" /\ r.ad =>
        own.auth = "Secure" /\ \A c \in Followed : got[c].auth = "Secure"

\* finaliseResponse returns: no goroutine blocks on a full channel and none
\* is forgotten by the WaitGroup.
Returns == <>(main = "returned")

=============================================================================
