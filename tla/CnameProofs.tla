----------------------------- MODULE CnameProofs -----------------------------
(* Proofs about the following of CNAME records, for any finite set of them  *)
(* and any responses.  The channel holds the successes of the goroutines    *)
(* that are done; what is merged so far, and what is still in the channel,  *)
(* are all of them.  And proofs about the DNSKEY records of a zone, for any *)
(* number of callers, any TTLs and any bound on the clock.                  *)
EXTENDS CnameFollow, TLAPS

\* The CNAME records in the channel.
InChannel(s) == {s[k] : k \in 1..Len(s)}

\* The worst of a set of authentication results, without CHOOSE.
IsWorst(a, auths) ==
    /\ a \in auths
    /\ a = "Unknown" => "Bogus" \notin auths
    /\ a = "Insecure" => "Bogus" \notin auths /\ "Unknown" \notin auths
    /\ a = "Secure" => auths = {"Secure"}

\* x is the response o with what g has for the records in M merged into it,
\* in some order.
Sums(x, o, g, M) ==
    /\ IsWorst(x.auth, {o.auth} \cup {g[c].auth : c \in M})
    /\ IsLargest(x.rcode, {o.rcode} \cup {g[c].rcode : c \in M})
    /\ x.aa <=> (o.aa /\ \A c \in M : g[c].aa)
    /\ x.parts = {None} \cup {Target[c] : c \in M}

Working ==
    [auth : States, rcode : {0, 2, 3}, aa : BOOLEAN, ad : BOOLEAN,
     parts : SUBSET (Targets \cup {None})]

CnameTypes ==
    /\ own \in Response
    /\ pc \in [Cname -> {"off", "start", "asking", "storing", "got", "done"}]
    /\ got \in [Cname -> Response \cup {None}]
    /\ cache \in [Targets \ Known -> Response \cup {None}]
    /\ responses \in Seq(Cname)
    /\ main \in {"result", "waiting", "merging", "merged", "returned"}
    /\ r \in Working

\* What a goroutine that is at a place p can have got.
GotOK(p, g, known) ==
    /\ p \in {"off", "start", "asking"} => g = None
    /\ p = "storing" => g # None
    /\ known => p \in {"off", "start", "done"} /\ g = None

\* The goroutines run only while finaliseResponse waits for them.
PhaseInv ==
    /\ main = "result" => \A c \in Cname : pc[c] = "off"
    /\ main \in {"merging", "merged", "returned"} => \A c \in Cname : pc[c] \in {"off", "done"}

\* While it waits, the channel has the successes of those that are done;
\* afterwards what is merged and what is in the channel are all of them.
MergeInv ==
    /\ main \in {"result", "waiting"} =>
          /\ InChannel(responses) = {c \in Cname : pc[c] = "done" /\ got[c] # None}
          /\ r.rcode = own.rcode /\ r.aa = own.aa /\ r.parts = {None}
          /\ main = "waiting" => r.auth = own.auth
    /\ main = "merging" => \E M \in SUBSET Followed :
          M \cup InChannel(responses) = Followed /\ Sums(r, own, got, M)
    /\ main = "merged" => Sums(r, own, got, Followed)

CnameInv ==
    /\ CnameTypes /\ PhaseInv /\ MergeInv
    /\ \A c \in Cname : GotOK(pc[c], got[c], Target[c] \in Known)
    /\ ADMeansAllSecure

LEMMA ChannelRange ==
    ASSUME NEW s \in Seq(Cname)
    PROVE  /\ \A c \in Cname : Append(s, c) \in Seq(Cname)
                               /\ InChannel(Append(s, c)) = InChannel(s) \cup {c}
           /\ s # <<>> => Head(s) \in Cname /\ Tail(s) \in Seq(Cname)
                          /\ InChannel(s) = {Head(s)} \cup InChannel(Tail(s))
           /\ InChannel(<<>>) = {}
<1>1. ASSUME NEW c \in Cname
      PROVE  Append(s, c) \in Seq(Cname) /\ InChannel(Append(s, c)) = InChannel(s) \cup {c}
  BY DEF InChannel
<1>2. ASSUME s # <<>>
      PROVE  Head(s) \in Cname /\ Tail(s) \in Seq(Cname)
             /\ InChannel(s) = {Head(s)} \cup InChannel(Tail(s))
  <2>1. /\ Head(s) = s[1] /\ Len(s) \in Nat /\ Len(s) >= 1 /\ Head(s) \in Cname
        /\ Tail(s) \in Seq(Cname) /\ Len(Tail(s)) = Len(s) - 1
        /\ \A k \in 1..Len(s) - 1 : Tail(s)[k] = s[k + 1]
    BY <1>2
  <2>2. \A k \in 1..Len(s) : k = 1 \/ (k - 1 \in 1..Len(s) - 1 /\ Tail(s)[k - 1] = s[k])
    BY <2>1
  <2>3. InChannel(s) \subseteq {Head(s)} \cup InChannel(Tail(s))
    BY <2>1, <2>2 DEF InChannel
  <2>4. {Head(s)} \cup InChannel(Tail(s)) \subseteq InChannel(s)
    BY <2>1 DEF InChannel
  <2> QED
    BY <2>1, <2>3, <2>4
<1>3. InChannel(<<>>) = {}
  BY DEF InChannel
<1> QED
  BY <1>1, <1>2, <1>3

\* Merged adds one record to what a response sums up.
LEMMA MergedSums ==
    ASSUME NEW x \in Working, NEW o \in Response, got \in [Cname -> Response \cup {None}],
           NEW M \in SUBSET Cname, NEW c \in Cname, got[c] \in Response,
           \A m \in M : got[m] \in Response,
           Sums(x, o, got, M)
    PROVE  Merged(x, c) \in Working
           /\ Sums(Merged(x, c), o, got, M \cup {c})
<1> DEFINE y == Merged(x, c)
           A == {o.auth} \cup {got[m].auth : m \in M}
           B == {o.rcode} \cup {got[m].rcode : m \in M}
<1>1. /\ got[c].auth \in States /\ got[c].rcode \in {0, 2, 3} /\ got[c].aa \in BOOLEAN
      /\ x.auth \in States /\ x.rcode \in {0, 2, 3} /\ x.aa \in BOOLEAN
      /\ Target[c] \in Targets /\ x.ad \in BOOLEAN
      /\ x.parts \in SUBSET (Targets \cup {None})
  BY DEF Response, Success, ServerFailure, NameError, Working, Targets
<1>2. A \subseteq States /\ B \subseteq {0, 2, 3}
  BY DEF Response, Success, ServerFailure, NameError
<1>3. /\ y.auth = Combine(x.auth, got[c].auth)
      /\ y.rcode = Larger(x.rcode, got[c].rcode)
      /\ y.parts = x.parts \cup {Target[c]}
  BY DEF Merged, Working
<1>a. y.aa = (x.aa /\ got[c].aa)
  BY Zenon DEF Merged, Working
<1>4. Larger(x.rcode, got[c].rcode) = IF x.rcode < got[c].rcode THEN got[c].rcode ELSE x.rcode
  BY DEF Larger
<1>5. Combine(x.auth, got[c].auth) \in States
      /\ IsWorst(Combine(x.auth, got[c].auth), A \cup {got[c].auth})
  <2>1. IsWorst(x.auth, A)
    BY DEF Sums
  <2> HIDE DEF A
  <2> QED
    BY <1>1, <1>2, <2>1 DEF Combine, IsWorst, States
<1>6. y.rcode \in {0, 2, 3} /\ IsLargest(y.rcode, B \cup {got[c].rcode})
  <2>1. IsLargest(x.rcode, B)
    BY DEF Sums
  <2>2. y.rcode = IF x.rcode < got[c].rcode THEN got[c].rcode ELSE x.rcode
    BY <1>3, <1>4
  <2> HIDE DEF B, y
  <2> QED
    BY <1>1, <1>2, <2>1, <2>2 DEF IsLargest
<1>7. y.aa <=> (o.aa /\ \A m \in M \cup {c} : got[m].aa)
  <2> HIDE DEF y
  <2> QED
    BY <1>1, <1>a DEF Sums
<1>8. y.parts = {None} \cup {Target[m] : m \in M \cup {c}}
  <2> HIDE DEF y
  <2> QED
    BY <1>3 DEF Sums
<1>9. y \in Working
  <2>1. (x.aa /\ got[c].aa) \in BOOLEAN
    OBVIOUS
  <2>2. Larger(x.rcode, got[c].rcode) \in {0, 2, 3}
    BY <1>1, <1>4
  <2> QED
    BY Zenon, <1>1, <1>5, <2>1, <2>2 DEF Working, Merged
<1>10. /\ {o.auth} \cup {got[m].auth : m \in M \cup {c}} = A \cup {got[c].auth}
       /\ {o.rcode} \cup {got[m].rcode : m \in M \cup {c}} = B \cup {got[c].rcode}
  OBVIOUS
<1> HIDE DEF y, A, B
<1>11. Sums(y, o, got, M \cup {c})
  BY Zenon, <1>3, <1>5, <1>6, <1>7, <1>8, <1>10 DEF Sums
<1> QED
  BY <1>9, <1>11 DEF y

\* What a response sums up is what OrderIndependent states.
LEMMA SumsUnique ==
    ASSUME NEW x \in Working, NEW o \in Response, NEW M \in SUBSET Cname,
           \A m \in M : got[m] \in Response,
           Sums(x, o, got, M)
    PROVE  /\ x.auth = Worst({o.auth} \cup {got[c].auth : c \in M})
           /\ x.auth = "Secure" => o.auth = "Secure" /\ \A c \in M : got[c].auth = "Secure"
<1> DEFINE A == {o.auth} \cup {got[m].auth : m \in M}
<1>1. A \subseteq States
  BY DEF Response
<1>2. IsWorst(x.auth, A)
  BY DEF Sums
<1>3. x.auth = "Secure" => o.auth = "Secure" /\ \A c \in M : got[c].auth = "Secure"
  BY <1>2 DEF IsWorst
<1> HIDE DEF A
<1>4. x.auth = Worst(A)
  <2>1. \A a \in A : (\/ a = "Bogus"
                      \/ a = "Unknown" /\ "Bogus" \notin A
                      \/ a = "Insecure" /\ A \cap {"Bogus", "Unknown"} = {}
                      \/ A = {a}) <=> a = x.auth
    <3>1. /\ x.auth \in A
          /\ x.auth \in {"Unknown", "Insecure", "Secure", "Bogus"}
      BY Zenon, <1>1, <1>2 DEF IsWorst, States
    <3>2. A = {x.auth} \/ x.auth # "Secure"
      BY <1>2 DEF IsWorst
    <3> QED
      BY <1>1, <1>2, <3>1, <3>2 DEF IsWorst, States
  <2>2. x.auth \in A
    BY <1>2 DEF IsWorst
  <2> QED
    BY Zenon, <2>1, <2>2 DEF Worst
<1> QED
  BY <1>3, <1>4 DEF A

\* Nothing is merged yet.
LEMMA SumsAlone ==
    ASSUME NEW x \in Working, NEW o \in Response, NEW g,
           x.auth = o.auth, x.rcode = o.rcode, x.aa = o.aa, x.parts = {None}
    PROVE  Sums(x, o, g, {})
<1>1. x.auth \in States /\ o.rcode \in Int /\ x.aa \in BOOLEAN
  BY DEF Working, Response, Success, ServerFailure, NameError
<1>2. IsWorst(o.auth, {o.auth}) /\ IsLargest(o.rcode, {o.rcode})
  BY <1>1 DEF IsWorst, IsLargest
<1>3. /\ {o.auth} \cup {g[c].auth : c \in {}} = {o.auth}
      /\ {o.rcode} \cup {g[c].rcode : c \in {}} = {o.rcode}
      /\ {None} \cup {Target[c] : c \in {}} = {None}
  OBVIOUS
<1>4. x.aa <=> (o.aa /\ \A c \in {} : g[c].aa)
  BY <1>1
<1> QED
  BY <1>2, <1>3, <1>4 DEF Sums

LEMMA UnvalidatedResponse ==
    ASSUME NEW x \in Response
    PROVE  Unvalidated(x) \in Response
  BY DEF Unvalidated, Response, States

LEMMA CnameInit == Init => CnameInv
<1> SUFFICES ASSUME Init PROVE CnameInv
  OBVIOUS
<1>1. own \in Response
  BY CnameAssumption, UnvalidatedResponse DEF Init, ConstantsOK
<1>2. cache \in [Targets \ Known -> Response \cup {None}]
  BY CnameAssumption, UnvalidatedResponse DEF Init, ConstantsOK
<1>3. r \in Working /\ r.rcode = own.rcode /\ r.aa = own.aa /\ r.parts = {None}
  <2>1. own.rcode \in {0, 2, 3} /\ own.aa \in BOOLEAN
    BY <1>1 DEF Response, Success, ServerFailure, NameError
  <2>2. PICK ad \in BOOLEAN :
           r = [auth |-> "Unknown", rcode |-> own.rcode, aa |-> own.aa, ad |-> ad, parts |-> {None}]
    BY Zenon DEF Init
  <2> QED
    BY <2>1, <2>2 DEF Working, States
<1>4. CnameTypes
  BY <1>1, <1>2, <1>3 DEF Init, CnameTypes
<1>5. \A c \in Cname : pc[c] = "off" /\ got[c] = None
  BY DEF Init
<1>6. InChannel(responses) = {}
  BY DEF Init, InChannel
<1> QED
  BY <1>3, <1>4, <1>5, <1>6
     DEF Init, CnameInv, PhaseInv, MergeInv, GotOK, ADMeansAllSecure

-----------------------------------------------------------------------------
(* The goroutines.                                                          *)

\* A goroutine runs while finaliseResponse waits.  It keeps the invariant if
\* it keeps the types, and the channel the set of the successes.
LEMMA GoroutineKeeps ==
    ASSUME CnameInv, NEW c \in Cname, pc[c] \notin {"off", "done"},
           UNCHANGED <<own, main, r>>, CnameTypes',
           \A d \in Cname \ {c} : pc'[d] = pc[d] /\ got'[d] = got[d],
           GotOK(pc'[c], got'[c], Target[c] \in Known),
           InChannel(responses') = {d \in Cname : pc'[d] = "done" /\ got'[d] # None}
    PROVE  CnameInv'
<1>1. main = "waiting" /\ main' = "waiting"
  BY DEF CnameInv, CnameTypes, PhaseInv
<1>2. \A d \in Cname : GotOK(pc'[d], got'[d], Target[d] \in Known)
  BY DEF CnameInv
<1>3. PhaseInv' /\ ADMeansAllSecure'
  BY <1>1 DEF PhaseInv, ADMeansAllSecure
<1>4. MergeInv'
  BY <1>1 DEF CnameInv, MergeInv
<1> QED
  BY <1>2, <1>3, <1>4 DEF CnameInv

LEMMA GoroutineStep ==
    ASSUME CnameInv, NEW c \in Cname, Goroutine(c)
    PROVE  CnameInv'
<1> DEFINE Kept == {d \in Cname : pc[d] = "done" /\ got[d] # None}
           Kept1 == {d \in Cname : pc'[d] = "done" /\ got'[d] # None}
<1>0. /\ CnameTypes /\ GotOK(pc[c], got[c], Target[c] \in Known)
      /\ Target[c] \in Targets
  BY DEF CnameInv, Targets
<1>1. UNCHANGED <<own, main, r>>
  BY DEF Goroutine, Skip, CacheGet, Exchange, CacheSet, Send
<1>2. /\ pc[c] \in {"start", "asking", "storing", "got"}
      /\ pc'[c] \in {"asking", "storing", "got", "done"}
      /\ pc' \in [Cname -> {"off", "start", "asking", "storing", "got", "done"}]
      /\ \A d \in Cname \ {c} : pc'[d] = pc[d]
  BY <1>0 DEF CnameTypes, Goroutine, Skip, CacheGet, Exchange, CacheSet, Send, Follow
<1>3. InChannel(responses) = Kept
  BY <1>2 DEF CnameInv, CnameTypes, PhaseInv, MergeInv
<1> HIDE DEF Kept, Kept1
<1>4. ASSUME got' \in [Cname -> Response \cup {None}],
             \A d \in Cname \ {c} : got'[d] = got[d], UNCHANGED responses,
             cache' \in [Targets \ Known -> Response \cup {None}],
             GotOK(pc'[c], got'[c], Target[c] \in Known), pc'[c] = "done" => got'[c] = None
      PROVE  CnameInv'
  <2>1. Kept1 = Kept
    BY <1>2, <1>4 DEF Kept, Kept1
  <2>2. CnameTypes'
    BY <1>0, <1>1, <1>2, <1>4 DEF CnameTypes
  <2> QED
    BY <1>1, <1>2, <1>3, <1>4, <2>1, <2>2, GoroutineKeeps DEF Kept1
<1>5. CASE Skip(c)
  BY <1>0, <1>4, <1>5 DEF Skip, Follow, CnameTypes, GotOK
<1>6. CASE CacheGet(c)
  <2>1. /\ got' = [got EXCEPT ![c] = cache[Target[c]]] /\ UNCHANGED <<cache, responses>>
        /\ Target[c] \notin Known
        /\ pc'[c] = IF cache[Target[c]] = None THEN "asking" ELSE "got"
    BY <1>0, <1>6 DEF CacheGet, Follow, CnameTypes
  <2>2. cache[Target[c]] \in Response \cup {None}
    BY <1>0, <2>1 DEF CnameTypes
  <2> QED
    BY <1>0, <1>4, <2>1, <2>2 DEF CnameTypes, GotOK
<1>7. CASE Exchange(c)
  <2>1. PICK x \in Exchanged :
           got' = [got EXCEPT ![c] = IF x # None /\ flags = "plain" THEN Unvalidated(x) ELSE x]
    BY Zenon, <1>7 DEF Exchange
  <2>2. x \in Response \cup {None}
    BY CnameAssumption DEF ConstantsOK
  <2>3. /\ got' \in [Cname -> Response \cup {None}]
        /\ \A d \in Cname \ {c} : got'[d] = got[d]
    BY <1>0, <2>1, <2>2, UnvalidatedResponse DEF CnameTypes
  <2>4. /\ UNCHANGED <<cache, responses>> /\ pc[c] = "asking"
        /\ pc'[c] = IF got'[c] = None THEN "got" ELSE "storing"
    BY <1>0, <1>7 DEF Exchange, Follow, CnameTypes
  <2> QED
    BY <1>0, <1>4, <2>3, <2>4 DEF CnameTypes, GotOK
<1>8. CASE CacheSet(c)
  <2>1. /\ UNCHANGED <<got, responses>> /\ pc[c] = "storing" /\ pc'[c] = "got"
        /\ cache' = [cache EXCEPT ![Target[c]] = Unvalidated(got[c])]
    BY <1>0, <1>8 DEF CacheSet, Follow, CnameTypes
  <2>2. got[c] \in Response
    BY <1>0, <2>1 DEF CnameTypes, GotOK
  <2> QED
    BY <1>0, <1>4, <2>1, <2>2, UnvalidatedResponse DEF CnameTypes, GotOK
<1>9. CASE Send(c)
  <2>1. /\ UNCHANGED <<got, cache>> /\ pc[c] = "got" /\ pc'[c] = "done"
        /\ Target[c] \notin Known
    BY <1>0, <1>9 DEF Send, Follow, CnameTypes, GotOK
  <2>2. CASE got[c] = None
    BY <1>0, <1>4, <1>9, <2>1, <2>2 DEF Send, CnameTypes, GotOK
  <2>3. CASE got[c] # None
    <3>1. responses' = Append(responses, c)
      BY <1>9, <2>3 DEF Send
    <3>2. responses' \in Seq(Cname) /\ InChannel(responses') = Kept \cup {c}
      BY <1>0, <1>3, <3>1, ChannelRange DEF CnameTypes
    <3>3. Kept1 = Kept \cup {c}
      BY <1>2, <2>1, <2>3 DEF Kept, Kept1
    <3>4. CnameTypes'
      BY <1>0, <1>1, <1>2, <2>1, <3>2 DEF CnameTypes
    <3>5. GotOK(pc'[c], got'[c], Target[c] \in Known)
      BY <2>1 DEF GotOK
    <3> QED
      BY <1>1, <1>2, <2>1, <3>2, <3>3, <3>4, <3>5, GoroutineKeeps DEF Kept1
  <2> QED
    BY <2>2, <2>3
<1> QED
  BY <1>5, <1>6, <1>7, <1>8, <1>9 DEF Goroutine

-----------------------------------------------------------------------------
(* finaliseResponse.                                                        *)

\* What has been got is a response for the records that were followed.
LEMMA FollowedGot ==
    ASSUME CnameTypes
    PROVE  Followed \in SUBSET Cname /\ \A m \in Followed : got[m] \in Response
  BY DEF CnameTypes, Followed

LEMMA TakeResultStep ==
    ASSUME CnameInv, TakeResult
    PROVE  CnameInv'
<1>0. /\ CnameTypes /\ main = "result" /\ own.auth \in States
      /\ \A c \in Cname : pc[c] = "off" /\ got[c] = None
      /\ InChannel(responses) = {}
      /\ r.rcode = own.rcode /\ r.aa = own.aa /\ r.parts = {None}
  BY DEF CnameInv, CnameTypes, PhaseInv, MergeInv, GotOK, TakeResult, Response
<1>1. /\ r' = [r EXCEPT !.auth = own.auth]
      /\ UNCHANGED <<own, got, cache, responses>>
      /\ \/ main' = "merged" /\ pc' = pc
         \/ main' = "waiting" /\ pc' = [c \in Cname |-> "start"]
  BY DEF TakeResult
<1>2. /\ r' \in Working /\ r'.auth = own.auth /\ r'.rcode = own.rcode
      /\ r'.aa = own.aa /\ r'.parts = {None}
  BY Zenon, <1>0, <1>1 DEF CnameTypes, Working
<1>3. /\ CnameTypes' /\ PhaseInv' /\ ADMeansAllSecure'
      /\ \A c \in Cname : GotOK(pc'[c], got'[c], Target[c] \in Known)
  BY <1>0, <1>1, <1>2 DEF CnameTypes, PhaseInv, ADMeansAllSecure, GotOK
<1>4. Followed' = {} /\ Sums(r', own', got', {})
  BY Zenon, <1>0, <1>1, <1>2, SumsAlone DEF Followed, CnameTypes
<1>5. InChannel(responses') = {c \in Cname : pc'[c] = "done" /\ got'[c] # None}
  BY <1>0, <1>1
<1>6. MergeInv'
  BY <1>1, <1>2, <1>4, <1>5 DEF MergeInv
<1> QED
  BY <1>3, <1>6 DEF CnameInv

LEMMA WaitStep ==
    ASSUME CnameInv, Wait
    PROVE  CnameInv'
<1>0. /\ CnameTypes /\ InChannel(responses) = Followed
      /\ r.auth = own.auth /\ r.rcode = own.rcode /\ r.aa = own.aa /\ r.parts = {None}
      /\ \A c \in Cname : pc[c] = "done"
  BY DEF CnameInv, MergeInv, Wait, Followed, GotOK
<1>1. /\ UNCHANGED <<own, pc, got, cache, responses>>
      /\ \/ main' = "merging" /\ r' = r
         \/ main' = "returned" /\ r' = Empty
  BY DEF Wait
<1>a. Empty \in Working /\ Empty.ad = FALSE
  BY DEF Empty, Working, States, Success
<1>2. CnameTypes' /\ PhaseInv' /\ ADMeansAllSecure'
  BY <1>0, <1>1, <1>a DEF CnameTypes, PhaseInv, ADMeansAllSecure
<1>3. \A c \in Cname : GotOK(pc'[c], got'[c], Target[c] \in Known)
  BY <1>1 DEF CnameInv
<1>4. Followed' = Followed /\ Sums(r, own, got, {})
  BY <1>0, <1>1, SumsAlone DEF Followed, CnameTypes
<1>5. ASSUME main' = "merging"
      PROVE  \E M \in SUBSET Followed' :
                M \cup InChannel(responses') = Followed' /\ Sums(r', own', got', M)
  <2> WITNESS {} \in SUBSET Followed'
  <2> QED
    BY <1>0, <1>1, <1>4, <1>5
<1>6. MergeInv'
  BY <1>0, <1>1, <1>5 DEF MergeInv
<1> QED
  BY <1>2, <1>3, <1>6 DEF CnameInv

LEMMA MergeStep ==
    ASSUME CnameInv, Merge
    PROVE  CnameInv'
<1> DEFINE c == Head(responses)
<1>0. CnameTypes /\ main = "merging" /\ responses # <<>>
  BY DEF CnameInv, MergeInv, Merge
<1>1. PICK M \in SUBSET Followed :
         M \cup InChannel(responses) = Followed /\ Sums(r, own, got, M)
  BY <1>0 DEF CnameInv, MergeInv
<1>2. /\ r' = Merged(r, c) /\ responses' = Tail(responses)
      /\ UNCHANGED <<own, pc, got, cache, main>>
  BY DEF Merge
<1>3. /\ c \in Cname /\ responses' \in Seq(Cname)
      /\ InChannel(responses) = {c} \cup InChannel(responses')
  BY <1>0, <1>2, ChannelRange DEF CnameTypes
<1> HIDE DEF c
<1>4. /\ c \in Followed /\ Followed' = Followed
      /\ (M \cup {c}) \cup InChannel(responses') = Followed
  BY <1>1, <1>2, <1>3 DEF Followed
<1>5. /\ M \in SUBSET Cname /\ got[c] \in Response /\ \A m \in M : got[m] \in Response
  BY <1>0, <1>4, FollowedGot
<1>6. r' \in Working /\ Sums(r', own, got, M \cup {c})
  BY Zenon, <1>0, <1>1, <1>2, <1>3, <1>5, MergedSums DEF CnameTypes
<1>7. CnameTypes' /\ PhaseInv' /\ ADMeansAllSecure'
  BY <1>0, <1>2, <1>3, <1>6 DEF CnameTypes, CnameInv, PhaseInv, ADMeansAllSecure
<1>8. \A d \in Cname : GotOK(pc'[d], got'[d], Target[d] \in Known)
  BY <1>2 DEF CnameInv
<1>9. \E L \in SUBSET Followed' :
         L \cup InChannel(responses') = Followed' /\ Sums(r', own', got', L)
  <2>1. M \cup {c} \in SUBSET Followed'
    BY <1>4
  <2> WITNESS M \cup {c} \in SUBSET Followed'
  <2> QED
    BY <1>2, <1>4, <1>6
<1>10. MergeInv'
  BY <1>0, <1>2, <1>6, <1>9 DEF MergeInv
<1> QED
  BY <1>7, <1>8, <1>10 DEF CnameInv

LEMMA MergeEndsStep ==
    ASSUME CnameInv, MergeEnds
    PROVE  CnameInv'
<1>0. CnameTypes /\ main = "merging" /\ InChannel(responses) = {}
  BY ChannelRange DEF CnameInv, MergeInv, MergeEnds, InChannel
<1>1. UNCHANGED <<own, pc, got, cache, responses, r>> /\ main' = "merged"
  BY DEF MergeEnds
<1>2. Sums(r, own, got, Followed)
  BY <1>0 DEF CnameInv, MergeInv
<1>3. CnameTypes' /\ PhaseInv' /\ ADMeansAllSecure'
  BY <1>0, <1>1 DEF CnameTypes, CnameInv, PhaseInv, ADMeansAllSecure
<1>4. \A d \in Cname : GotOK(pc'[d], got'[d], Target[d] \in Known)
  BY <1>1 DEF CnameInv
<1>5. Followed' = Followed
  BY <1>1 DEF Followed
<1>6. MergeInv'
  BY <1>0, <1>1, <1>2, <1>5 DEF MergeInv
<1> QED
  BY <1>3, <1>4, <1>6 DEF CnameInv

LEMMA FinaliseStep ==
    ASSUME CnameInv, Finalise
    PROVE  CnameInv'
<1>0. CnameTypes /\ main = "merged" /\ Sums(r, own, got, Followed)
  BY DEF CnameInv, MergeInv, Finalise
<1>1. UNCHANGED <<flags, own, pc, got, cache, responses>> /\ main' = "returned"
  BY DEF Finalise, query
<1>2. r' \in Working /\ (flags = "DO" /\ r'.ad => r.auth = "Secure")
  <2>1. CASE flags # "DO"
    BY <1>0, <2>1 DEF Finalise, CnameTypes
  <2>2. CASE flags = "DO"
    <3>1. r' = [r EXCEPT !.ad = (r.auth = "Secure"),
                         !.rcode = IF r.auth = "Bogus" THEN ServerFailure ELSE @,
                         !.parts = IF r.auth = "Bogus" THEN {} ELSE @]
      BY <2>2 DEF Finalise
    <3>2. (r.auth = "Secure") \in BOOLEAN
      OBVIOUS
    <3>3. r'.ad = (r.auth = "Secure")
      BY Zenon, <1>0, <3>1 DEF CnameTypes, Working
    <3> QED
      BY Zenon, <1>0, <3>1, <3>2, <3>3 DEF CnameTypes, Working, ServerFailure
  <2> QED
    BY <2>1, <2>2
<1>3. r.auth = "Secure" =>
         own.auth = "Secure" /\ \A c \in Followed : got[c].auth = "Secure"
  <2>1. r \in Working /\ own \in Response
    BY <1>0 DEF CnameTypes
  <2> QED
    BY Zenon, <1>0, <2>1, FollowedGot, SumsUnique
<1>4. Followed' = Followed
  BY <1>1 DEF Followed
<1>5. CnameTypes' /\ PhaseInv' /\ MergeInv'
  BY <1>0, <1>1, <1>2 DEF CnameTypes, CnameInv, PhaseInv, MergeInv
<1>6. \A d \in Cname : GotOK(pc'[d], got'[d], Target[d] \in Known)
  BY <1>1 DEF CnameInv
<1>7. ADMeansAllSecure'
  BY <1>1, <1>2, <1>3, <1>4 DEF ADMeansAllSecure
<1> QED
  BY <1>5, <1>6, <1>7 DEF CnameInv

LEMMA CnameHolds == Spec => []CnameInv
<1>1. Init => CnameInv
  BY CnameInit
<1>2. CnameInv /\ [Next]_vars => CnameInv'
  <2> SUFFICES ASSUME CnameInv, [Next]_vars
               PROVE  CnameInv'
    OBVIOUS
  <2>1. CASE Main
    BY <2>1, TakeResultStep, WaitStep, MergeStep, MergeEndsStep, FinaliseStep DEF Main
  <2>2. ASSUME NEW c \in Cname, Goroutine(c)
        PROVE  CnameInv'
    BY Zenon, <2>2, GoroutineStep
  <2>3. CASE UNCHANGED vars
    <3>1. CnameTypes' /\ PhaseInv' /\ ADMeansAllSecure'
      BY <2>3 DEF vars, query, CnameInv, CnameTypes, PhaseInv, Followed, ADMeansAllSecure
    <3>2. MergeInv' /\ \A c \in Cname : GotOK(pc'[c], got'[c], Target[c] \in Known)
      BY <2>3 DEF vars, CnameInv, MergeInv, Followed
    <3> QED
      BY <3>1, <3>2 DEF CnameInv
  <2> QED
    BY <2>1, <2>2, <2>3 DEF Next
<1> QED
  BY <1>1, <1>2, PTL DEF Spec

\* Given what each goroutine got for its CNAME record, from the cache or by
\* an exchange, the merged response is the same in whatever order they
\* finish: the worst result, the largest Rcode, and all successful targets.
THEOREM CnameOrderIrrelevant == Spec => []OrderIndependent
<1>1. CnameInv => OrderIndependent
  <2> SUFFICES ASSUME CnameInv, main = "merged"
               PROVE  /\ r.auth = Worst({own.auth} \cup {got[c].auth : c \in Followed})
                      /\ IsLargest(r.rcode, {own.rcode} \cup {got[c].rcode : c \in Followed})
                      /\ r.aa = (own.aa /\ \A c \in Followed : got[c].aa)
                      /\ r.parts = {None} \cup {Target[c] : c \in Followed}
    BY DEF OrderIndependent
  <2>1. CnameTypes /\ Sums(r, own, got, Followed)
    BY DEF CnameInv, MergeInv
  <2>2. r.aa \in BOOLEAN /\ own.aa \in BOOLEAN
    BY <2>1 DEF CnameTypes, Working, Response
  <2>3. r.aa = (own.aa /\ \A c \in Followed : got[c].aa)
    BY <2>1, <2>2 DEF Sums
  <2> QED
    BY Zenon, <2>1, <2>3, FollowedGot, SumsUnique DEF CnameTypes, Sums
<1> QED
  BY <1>1, CnameHolds, PTL

\* "Only return Secure if both results are independently Secure": the AD bit
\* of the response to a query with DO and without CD vouches for the response
\* and all that was merged into it, whatever the name server had in the bit.
THEOREM ADVouchesForAll == Spec => []ADMeansAllSecure
<1>1. CnameInv => ADMeansAllSecure
  BY DEF CnameInv
<1> QED
  BY <1>1, CnameHolds, PTL

-----------------------------------------------------------------------------
(* The keys of a zone, which share no state with the CNAME records.        *)

CONSTANTS Caller, TTLs, MaxAllowedTTL, EmptyTTL, MaxTime
VARIABLES now, dnskeyLock, dnskeyRecords, dnskeyExpiry, result, emptied

Z == INSTANCE ZoneKeys

(***************************************************************************)
(* The inductive invariant.  The lock is held through an exchange, so what *)
(* its caller found expired stays expired; what the zone keeps is the      *)
(* newest of all the keys ever returned, and each of those had expired     *)
(* when the next ones came, unless an answer without records intervened.   *)
(***************************************************************************)

LockHeld == \A c \in Caller : pc[c] = "exchange" <=> dnskeyLock = c

ExpiredWhenAsked == dnskeyLock # None => ~Z!Current

ValidUntil(k) == k.received + Z!Lifetime(k.ttl)

RecordsExpiry ==
    /\ emptied <= now
    /\ dnskeyRecords # None =>
          /\ dnskeyRecords.received <= now
          /\ dnskeyRecords.received <= dnskeyExpiry
          /\ dnskeyExpiry = ValidUntil(dnskeyRecords) \/ dnskeyRecords.received <= emptied

Superseded(k, l) ==
    k.received < l.received /\ (ValidUntil(k) < l.received \/ k.received <= emptied)

NewestKept ==
    \A c \in Caller : Z!Returned(c) =>
        /\ dnskeyRecords # None
        /\ result[c].keys = dnskeyRecords \/ Superseded(result[c].keys, dnskeyRecords)

KeysInv ==
    /\ Z!TypeOK
    /\ LockHeld
    /\ ExpiredWhenAsked
    /\ RecordsExpiry
    /\ NewestKept
    /\ Z!KeysWithinTTL
    /\ Z!NoRefetch

\* The lifetime given to keys (zone.go, the min loop of dnskeys) is a number.
LEMMA LifetimeNat ==
    ASSUME Z!ConstantsOK
    PROVE  \A ttl \in TTLs : Z!Lifetime(ttl) \in Nat
BY SMTT(30) DEF Z!ConstantsOK, Z!Lifetime

\* What the zone keeps and what the calls returned are keys.
LEMMA KeysKept ==
    ASSUME Z!ConstantsOK, Z!TypeOK
    PROVE  /\ now \in Nat /\ emptied \in Nat /\ dnskeyExpiry \in Nat
           /\ \A k \in Z!Keys : k.received \in Nat \ {0} /\ k.ttl \in TTLs
           /\ dnskeyRecords # None => dnskeyRecords \in Z!Keys
           /\ \A c \in Caller : Z!Returned(c) => result[c].keys \in Z!Keys
<1>1. now \in Nat /\ emptied \in Nat /\ dnskeyExpiry \in Nat
  BY DEF Z!ConstantsOK, Z!TypeOK
<1>2. \A k \in Z!Keys : k.received \in Nat \ {0} /\ k.ttl \in TTLs
  BY DEF Z!ConstantsOK, Z!Keys
<1>3. dnskeyRecords # None => dnskeyRecords \in Z!Keys
  BY Zenon DEF Z!TypeOK
<1>4. \A c \in Caller : Z!Returned(c) => result[c].keys \in Z!Keys
  BY DEF Z!TypeOK, Z!Returned
<1> QED
  BY Zenon, <1>1, <1>2, <1>3, <1>4

\* A new zone has no keys and nobody has asked for them.
LEMMA KeysInit ==
    ASSUME Z!ConstantsOK
    PROVE  Z!Init => KeysInv
<1> SUFFICES ASSUME Z!Init PROVE KeysInv
  OBVIOUS
<1>1. Z!TypeOK
  BY DEF Z!ConstantsOK, Z!Init, Z!TypeOK
<1>2. LockHeld /\ ExpiredWhenAsked /\ RecordsExpiry
  BY DEF Z!ConstantsOK, Z!Init, LockHeld, ExpiredWhenAsked, RecordsExpiry
<1>3. \A c \in Caller : ~Z!Returned(c)
  BY DEF Z!Init, Z!Returned
<1> QED
  BY <1>1, <1>2, <1>3 DEF KeysInv, NewestKept, Z!KeysWithinTTL, Z!NoRefetch

\* What the results say of the keys is kept when no result changes but for
\* calls that return without keys, and the records stay as they are.
LEMMA ResultsKept ==
    ASSUME Z!ConstantsOK, KeysInv, Z!TypeOK', dnskeyRecords' = dnskeyRecords, emptied' >= emptied,
           \A c \in Caller : Z!Returned(c)' => Z!Returned(c) /\ result'[c] = result[c]
    PROVE  NewestKept' /\ Z!KeysWithinTTL' /\ Z!NoRefetch'
<1>1. ASSUME NEW c \in Caller, Z!Returned(c)'
      PROVE  /\ Z!Returned(c) /\ result'[c] = result[c] /\ result[c].keys \in Z!Keys
             /\ result[c].keys.received \in Nat
             /\ emptied \in Nat /\ emptied' \in Nat
  BY <1>1 DEF KeysInv, Z!TypeOK, Z!Returned, Z!Keys
<1>2. NewestKept'
  BY <1>1 DEF KeysInv, NewestKept, Superseded, ValidUntil
<1>3. Z!KeysWithinTTL'
  BY <1>1 DEF KeysInv, Z!KeysWithinTTL, Z!Fresh
<1>4. Z!NoRefetch'
  BY <1>1 DEF KeysInv, Z!NoRefetch
<1> QED
  BY <1>2, <1>3, <1>4

\* Every step keeps the types.
LEMMA KeysType ==
    ASSUME Z!ConstantsOK
    PROVE  KeysInv /\ [Z!Next]_Z!vars => Z!TypeOK'
<1> SUFFICES ASSUME Z!TypeOK, [Z!Next]_Z!vars PROVE Z!TypeOK'
  BY DEF KeysInv
<1> USE DEF Z!ConstantsOK
<1>1. CASE UNCHANGED Z!vars
  BY <1>1 DEF Z!TypeOK, Z!vars, Z!zone
<1>2. CASE Z!Tick
  BY <1>2 DEF Z!TypeOK, Z!Tick, Z!zone
<1>3. ASSUME NEW c \in Caller, Z!dnskeys(c) PROVE Z!TypeOK'
  BY <1>3 DEF Z!TypeOK, Z!dnskeys, Z!zone
<1>4. ASSUME NEW c \in Caller, Z!ReturnCached(c) PROVE Z!TypeOK'
  BY <1>4 DEF Z!TypeOK, Z!ReturnCached, Z!Return
<1>5. ASSUME NEW c \in Caller, Z!Ask(c) PROVE Z!TypeOK'
  BY <1>5 DEF Z!TypeOK, Z!Ask
<1>6. ASSUME NEW c \in Caller, Z!Fail(c) PROVE Z!TypeOK'
  BY <1>6 DEF Z!TypeOK, Z!Fail, Z!Return
<1>7. ASSUME NEW c \in Caller, Z!AnswerEmpty(c) PROVE Z!TypeOK'
  BY <1>7 DEF Z!TypeOK, Z!AnswerEmpty, Z!Return
<1>8. ASSUME NEW c \in Caller, NEW ttl \in TTLs, Z!Answer(c, ttl) PROVE Z!TypeOK'
  <2>1. Z!Lifetime(ttl) \in Nat
    BY LifetimeNat
  <2>2. [ttl |-> ttl, received |-> now] \in Z!Keys
    BY SMTT(30) DEF Z!TypeOK, Z!Keys
  <2> QED
    BY <1>8, <2>1, <2>2 DEF Z!TypeOK, Z!Answer, Z!Return
<1> QED
  BY <1>1, <1>2, <1>3, <1>4, <1>5, <1>6, <1>7, <1>8 DEF Z!Next, Z!ExchangeReturns

\* Every step keeps the lock and the expiry in order.
LEMMA KeysLock ==
    ASSUME Z!ConstantsOK
    PROVE  KeysInv /\ [Z!Next]_Z!vars => LockHeld' /\ ExpiredWhenAsked' /\ RecordsExpiry'
<1> SUFFICES ASSUME KeysInv, [Z!Next]_Z!vars
             PROVE  LockHeld' /\ ExpiredWhenAsked' /\ RecordsExpiry'
  OBVIOUS
<1> USE DEF Z!ConstantsOK, KeysInv
<1>0. /\ now \in Nat /\ dnskeyExpiry \in Nat /\ emptied \in Nat
      /\ dnskeyRecords # None => dnskeyRecords.received \in Nat
      /\ pc \in [Caller -> {"idle", "lock", "exchange"}]
  BY DEF Z!TypeOK, Z!Keys
<1> USE DEF LockHeld, ExpiredWhenAsked, RecordsExpiry
<1>1. CASE UNCHANGED Z!vars
  BY <1>0, <1>1 DEF Z!vars, Z!zone, Z!Current
<1>2. CASE Z!Tick
  BY <1>0, <1>2 DEF Z!Tick, Z!zone, Z!Current
<1>3. ASSUME NEW c \in Caller, Z!dnskeys(c)
      PROVE  LockHeld' /\ ExpiredWhenAsked' /\ RecordsExpiry'
  BY <1>0, <1>3 DEF Z!dnskeys, Z!zone, Z!Current
<1>4. ASSUME NEW c \in Caller, Z!ReturnCached(c)
      PROVE  LockHeld' /\ ExpiredWhenAsked' /\ RecordsExpiry'
  BY <1>0, <1>4 DEF Z!ReturnCached, Z!Return, Z!Current
<1>5. ASSUME NEW c \in Caller, Z!Ask(c)
      PROVE  LockHeld' /\ ExpiredWhenAsked' /\ RecordsExpiry'
  BY <1>0, <1>5 DEF Z!Ask, Z!Current
<1>6. ASSUME NEW c \in Caller, Z!Fail(c)
      PROVE  LockHeld' /\ ExpiredWhenAsked' /\ RecordsExpiry'
  BY <1>0, <1>6 DEF Z!Fail, Z!Return
<1>7. ASSUME NEW c \in Caller, Z!AnswerEmpty(c)
      PROVE  LockHeld' /\ ExpiredWhenAsked' /\ RecordsExpiry'
  BY <1>0, <1>7 DEF Z!AnswerEmpty, Z!Return
<1>8. ASSUME NEW c \in Caller, NEW ttl \in TTLs, Z!Answer(c, ttl)
      PROVE  LockHeld' /\ ExpiredWhenAsked' /\ RecordsExpiry'
  BY <1>0, <1>8, LifetimeNat DEF Z!Answer, Z!Return, ValidUntil
<1> QED
  BY Zenon, <1>1, <1>2, <1>3, <1>4, <1>5, <1>6, <1>7, <1>8 DEF Z!Next, Z!ExchangeReturns

\* The results of a call that returns the keys the zone has, while they are
\* valid, agree with those of the other calls.
LEMMA CachedResults ==
    ASSUME Z!ConstantsOK, KeysInv, Z!TypeOK', NEW c \in Caller, Z!ReturnCached(c)
    PROVE  NewestKept' /\ Z!KeysWithinTTL' /\ Z!NoRefetch'
<1> USE DEF Z!ConstantsOK
<1>1. /\ result' = [result EXCEPT ![c] = [err |-> "nil", keys |-> dnskeyRecords, at |-> now]]
      /\ dnskeyRecords' = dnskeyRecords /\ emptied' = emptied /\ now <= dnskeyExpiry
  BY DEF Z!ReturnCached, Z!Return, Z!Current, KeysInv, Z!TypeOK
<1>2. /\ DOMAIN result = Caller
      /\ result'[c] = [err |-> "nil", keys |-> dnskeyRecords, at |-> now]
      /\ \A d \in Caller \ {c} : result'[d] = result[d]
  BY Zenon, <1>1 DEF KeysInv, Z!TypeOK
<1>3. \A d \in Caller : Z!Returned(d)' =>
         \/ d # c /\ Z!Returned(d) /\ result'[d] = result[d]
         \/ d = c /\ dnskeyRecords # None
  BY <1>2 DEF Z!Returned
<1>4. NewestKept'
  BY <1>1, <1>2, <1>3 DEF KeysInv, NewestKept, Superseded
<1>5. Z!KeysWithinTTL'
  BY Zenon, <1>1, <1>2, <1>3 DEF KeysInv, Z!KeysWithinTTL, Z!Fresh, RecordsExpiry, ValidUntil
<1>6. Z!NoRefetch'
  <2> SUFFICES ASSUME NEW d \in Caller, NEW e \in Caller, Z!Returned(d)', Z!Returned(e)',
                      result'[d].keys.received < result'[e].keys.received
               PROVE  \/ ValidUntil(result'[d].keys) < result'[e].keys.received
                      \/ emptied >= result'[d].keys.received
    BY <1>1 DEF Z!NoRefetch, ValidUntil
  <2>1. \A f \in Caller : Z!Returned(f) => result[f].keys.received \in Nat
    BY DEF KeysInv, Z!TypeOK, Z!Returned, Z!Keys
  <2>2. emptied \in Nat /\ (dnskeyRecords # None => dnskeyRecords.received \in Nat)
    BY DEF KeysInv, Z!TypeOK, Z!Keys
  <2>3. CASE d # c /\ e # c
    BY Zenon, <1>3, <2>3 DEF KeysInv, Z!NoRefetch, ValidUntil
  <2>4. CASE d # c /\ e = c
    BY SMTT(30), <1>2, <1>3, <2>1, <2>2, <2>4 DEF KeysInv, NewestKept, Superseded
  <2>5. CASE d = c
    BY <1>2, <1>3, <2>1, <2>2, <2>5 DEF KeysInv, NewestKept, Superseded
  <2> QED
    BY <2>3, <2>4, <2>5
<1> QED
  BY <1>4, <1>5, <1>6

\* The results of a call that has asked agree with those of the other calls:
\* all keys returned before had expired when it asked.
LEMMA AnswerResults ==
    ASSUME Z!ConstantsOK, KeysInv, Z!TypeOK', NEW c \in Caller, NEW ttl \in TTLs, Z!Answer(c, ttl)
    PROVE  NewestKept' /\ Z!KeysWithinTTL' /\ Z!NoRefetch'
<1> DEFINE new == [ttl |-> ttl, received |-> now]
<1>1. /\ result' = [result EXCEPT ![c] = [err |-> "nil", keys |-> new, at |-> now]]
      /\ dnskeyRecords' = new /\ emptied' = emptied
  BY Zenon DEF Z!Answer, Z!Return
<1>2. /\ result'[c] = [err |-> "nil", keys |-> new, at |-> now]
      /\ \A d \in Caller \ {c} : result'[d] = result[d]
  BY <1>1 DEF KeysInv, Z!TypeOK
<1>3. new # None /\ new.received = now /\ new.ttl = ttl /\ now \in Nat /\ Z!Lifetime(ttl) \in Nat
  BY LifetimeNat DEF Z!ConstantsOK, KeysInv, Z!TypeOK
<1>4. dnskeyExpiry \in Nat /\ (dnskeyExpiry = 0 \/ dnskeyExpiry < now)
  BY SMTT(30), <1>3
     DEF Z!ConstantsOK, Z!Answer, KeysInv, LockHeld, ExpiredWhenAsked, Z!Current, Z!TypeOK
<1>5. \A d \in Caller \ {c} : Z!Returned(d)' => Z!Returned(d) /\ Superseded(result[d].keys, new)
  <2> SUFFICES ASSUME NEW d \in Caller \ {c}, Z!Returned(d)'
               PROVE  Z!Returned(d) /\ Superseded(result[d].keys, new)
    OBVIOUS
  <2>1. Z!Returned(d)
    BY <1>2 DEF Z!Returned
  <2>2. /\ dnskeyRecords # None
        /\ result[d].keys = dnskeyRecords \/ Superseded(result[d].keys, dnskeyRecords)
    BY <2>1 DEF KeysInv, NewestKept
  <2>3. /\ dnskeyRecords.received \in Nat \ {0} /\ Z!Lifetime(dnskeyRecords.ttl) \in Nat
        /\ result[d].keys.received \in Nat /\ Z!Lifetime(result[d].keys.ttl) \in Nat
        /\ emptied \in Nat
    <3>1. Z!TypeOK /\ \A n \in Nat \ {0} : n \in Nat
      BY Zenon DEF KeysInv
    <3> QED
      BY Zenon, <2>1, <2>2, <3>1, KeysKept, LifetimeNat
  <2>4. Superseded(dnskeyRecords, new)
    BY <1>3, <1>4, <2>2, <2>3 DEF KeysInv, RecordsExpiry, Superseded, ValidUntil
  <2>5. CASE result[d].keys = dnskeyRecords
    BY Zenon, <2>1, <2>4, <2>5
  <2>6. CASE Superseded(result[d].keys, dnskeyRecords)
    BY <1>3, <2>1, <2>3, <2>4, <2>6 DEF Superseded, ValidUntil
  <2> QED
    BY Zenon, <2>2, <2>5, <2>6
<1> HIDE DEF new
<1>6. NewestKept'
  BY SMTT(30), <1>1, <1>2, <1>3, <1>5 DEF NewestKept, Superseded, ValidUntil
<1>7. Z!KeysWithinTTL'
  BY SMTT(30), <1>1, <1>2, <1>3, <1>5 DEF KeysInv, Z!KeysWithinTTL, Z!Fresh
<1>8. Z!NoRefetch'
  <2> SUFFICES ASSUME NEW d \in Caller, NEW e \in Caller, Z!Returned(d)', Z!Returned(e)',
                      result'[d].keys.received < result'[e].keys.received
               PROVE  \/ ValidUntil(result'[d].keys) < result'[e].keys.received
                      \/ emptied >= result'[d].keys.received
    BY Zenon, <1>1 DEF Z!NoRefetch, ValidUntil
  <2>1. \A f \in Caller : Z!Returned(f) => result[f].keys.received \in Nat
    BY Zenon, KeysKept DEF KeysInv
  <2>2. emptied \in Nat
    BY Zenon, KeysKept DEF KeysInv
  <2>3. CASE d # c /\ e # c
    BY Zenon, <1>2, <1>5, <2>3 DEF KeysInv, Z!NoRefetch, ValidUntil
  <2>4. CASE d # c /\ e = c
    <3>1. result'[d].keys = result[d].keys /\ result'[e].keys = new
      BY <1>2, <2>4
    <3>2. Z!Returned(d) /\ Superseded(result[d].keys, new)
      BY Zenon, <1>5, <2>4
    <3>3. \A n \in Nat : n <= emptied => emptied >= n
      BY ONLY <2>2
    <3> QED
      BY Zenon, <2>1, <3>1, <3>2, <3>3 DEF Superseded
  <2>5. CASE d = c
    <3>1. result'[d].keys = new
      BY <1>2, <2>5
    <3>2. CASE e = c
      BY <1>3, <2>5, <3>1, <3>2
    <3>3. CASE e # c
      <4>1. result'[e].keys = result[e].keys /\ Z!Returned(e) /\ Superseded(result[e].keys, new)
        BY Zenon, <1>2, <1>5, <3>3
      <4>2. result[e].keys.received < now /\ now < result[e].keys.received
        BY Zenon, <1>3, <3>1, <4>1 DEF Superseded
      <4> QED
        BY ONLY <1>3, <2>1, <4>1, <4>2
    <3> QED
      BY Zenon, <3>2, <3>3
  <2> QED
    BY <2>3, <2>4, <2>5
<1> QED
  BY <1>6, <1>7, <1>8

\* KeysInv is inductive.
LEMMA KeysStep ==
    ASSUME Z!ConstantsOK
    PROVE  KeysInv /\ [Z!Next]_Z!vars => KeysInv'
<1> SUFFICES ASSUME KeysInv, [Z!Next]_Z!vars PROVE KeysInv'
  OBVIOUS
<1>1. Z!TypeOK' /\ LockHeld' /\ ExpiredWhenAsked' /\ RecordsExpiry'
  BY KeysType, KeysLock
<1>2. result \in [Caller -> [err : {"nil", "ErrFailedToGetDNSKEYs"},
                            keys : Z!Keys \cup {None}, at : 1..MaxTime] \cup {None}]
      /\ emptied \in Nat /\ now \in Nat /\ emptied <= now
  BY DEF Z!ConstantsOK, KeysInv, Z!TypeOK, RecordsExpiry
<1>3. CASE UNCHANGED <<result, dnskeyRecords, emptied>>
  BY <1>1, <1>2, <1>3, ResultsKept DEF KeysInv, Z!Returned
<1>4. ASSUME NEW c \in Caller, Z!dnskeys(c) \/ Z!Fail(c) \/ Z!AnswerEmpty(c) PROVE KeysInv'
  <2>1. dnskeyRecords' = dnskeyRecords /\ emptied' >= emptied
    BY <1>2, <1>4 DEF Z!dnskeys, Z!Fail, Z!AnswerEmpty, Z!zone
  <2>2. \A d \in Caller : Z!Returned(d)' => Z!Returned(d) /\ result'[d] = result[d]
    BY <1>2, <1>4 DEF Z!dnskeys, Z!Fail, Z!AnswerEmpty, Z!Return, Z!Returned
  <2> QED
    BY <1>1, <2>1, <2>2, ResultsKept DEF KeysInv
<1>5. ASSUME NEW c \in Caller, Z!ReturnCached(c) PROVE KeysInv'
  BY <1>1, <1>5, CachedResults DEF KeysInv
<1>6. ASSUME NEW c \in Caller, NEW ttl \in TTLs, Z!Answer(c, ttl) PROVE KeysInv'
  BY <1>1, <1>6, AnswerResults DEF KeysInv
<1>7. \A c \in Caller : Z!Ask(c) => UNCHANGED <<result, dnskeyRecords, emptied>>
  BY DEF Z!Ask
<1>8. Z!Tick \/ UNCHANGED Z!vars => UNCHANGED <<result, dnskeyRecords, emptied>>
  BY DEF Z!Tick, Z!vars, Z!zone
<1> QED
  BY <1>3, <1>4, <1>5, <1>6, <1>7, <1>8 DEF Z!Next, Z!ExchangeReturns

\* The inductive invariant holds throughout.
LEMMA KeysInvariant ==
    ASSUME Z!ConstantsOK
    PROVE  Z!Spec => []KeysInv
<1>1. Z!Init => KeysInv
  BY KeysInit
<1>2. KeysInv /\ [Z!Next]_Z!vars => KeysInv'
  BY KeysStep
<1> QED
  BY <1>1, <1>2, PTL DEF Z!Spec

\* dnskeys hands out keys only within their TTL, but for those that an answer
\* without records has brought back, for any number of callers.
THEOREM KeysFresh ==
    ASSUME Z!ConstantsOK
    PROVE  Z!Spec => []Z!KeysWithinTTL
<1>1. KeysInv => Z!KeysWithinTTL
  BY DEF KeysInv
<1>2. Z!Spec => []KeysInv
  BY KeysInvariant
<1> QED
  BY <1>1, <1>2, PTL

\* Keys are not asked for again while those of an earlier exchange are valid.
THEOREM KeysNotRefetched ==
    ASSUME Z!ConstantsOK
    PROVE  Z!Spec => []Z!NoRefetch
<1>1. KeysInv => Z!NoRefetch
  BY DEF KeysInv
<1>2. Z!Spec => []KeysInv
  BY KeysInvariant
<1> QED
  BY <1>1, <1>2, PTL

=============================================================================
