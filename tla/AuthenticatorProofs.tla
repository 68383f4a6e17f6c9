------------------------- MODULE AuthenticatorProofs -------------------------
(* Proofs about the authenticator, for a name of any number of labels and   *)
(* any responses.                                                           *)
EXTENDS Authenticator, WellFoundedInduction, TLAPS

\* A set of natural numbers that is not empty has a least member: so a claim
\* about all of them holds if there is no least one for which it fails.
LEMMA LeastNatural ==
    ASSUME NEW S, S \subseteq Nat, S # {}
    PROVE  Min(S) \in S /\ \A m \in S : Min(S) <= m
<1>1. PICK x \in S : \A y \in S : <<y, x>> \notin OpToRel(<, Nat)
  BY NatLessThanWellFounded, WFMin, Zenon
<1>2. ASSUME NEW y \in S PROVE x <= y
  <2>1. x \in Nat /\ y \in Nat
    OBVIOUS
  <2>2. ~ (y < x)
    BY <1>1, <2>1, Zenon DEF OpToRel
  <2> QED
    BY <2>1, <2>2
<1> QED
  BY Zenon, <1>2 DEF Min

(***************************************************************************)
(* What verify returns.                                                    *)
(***************************************************************************)

VerdictRecord ==
    [state : State, ds : Position \cup {None}, doe : Doe, err : {"nil", "verify"}]

\* The first proof of an order of proofs is one that the records give, or
\* none (the if-chains of verify_*.go).
LEMMA FirstProofGiven ==
    ASSUME NEW order \in Seq(Doe), NEW proofs \in SUBSET Doe
    PROVE  FirstProof(order, proofs) \in Doe
<1> DEFINE given == {i \in DOMAIN order : order[i] \in proofs}
<1>1. given \subseteq Nat
  OBVIOUS
<1>2. given # {} => Min(given) \in given
  BY <1>1, LeastNatural, Zenon
<1> QED
  BY <1>2 DEF FirstProof, Doe

\* verify gives a result of the declared kind.
LEMMA VerdictType ==
    ASSUME NEW m \in Messages, NEW ds
    PROVE  verify(m, ds) \in VerdictRecord
<1>0. m \in Message
  BY AuthenticatorAssumption DEF ConstantsOK
<1>1. m.proofs \in SUBSET Doe /\ m.ds \in Position \cup {None}
      /\ m.keys \in {"error", "none", "unmatched", "bad", "good"}
  BY <1>0 DEF Message
<1>2. \A doe \in Doe : Proven(doe) \in VerdictRecord
  BY DEF Proven, Plain, Verdict, VerdictRecord, State, Doe
<1>3. \A state \in State : Plain(state) \in VerdictRecord
  BY DEF Plain, Verdict, VerdictRecord, Doe
<1>4. validateDelegatingResponse(m) \in VerdictRecord
  <2>1. <<"NsecMissingDS", "Nsec3MissingDS", "Nsec3OptOut">> \in Seq(Doe)
    BY DEF Doe, MissingDS
  <2>2. Verdict("Secure", m.ds, "NotFound", "nil") \in VerdictRecord
    BY <1>1 DEF Verdict, VerdictRecord, State, Doe
  <2>3. Plain("Bogus") \in VerdictRecord
    BY <1>3 DEF State
  <2> QED
    BY <1>1, <1>2, <2>1, <2>2, <2>3, FirstProofGiven, Zenon DEF validateDelegatingResponse
<1>5. validatePositiveResponse(m) \in VerdictRecord
  <2>1. <<"Nsec3Wildcard", "NsecWildcard">> \in Seq(Doe)
    BY DEF Doe, Wildcard
  <2>2. \A doe \in Doe : /\ Verdict("Secure", m.ds, doe, "nil") \in VerdictRecord
                           /\ Verdict("Bogus", m.ds, doe, "verify") \in VerdictRecord
    BY <1>1 DEF Verdict, VerdictRecord, State
  <2>3. "NotFound" \in Doe
    BY DEF Doe
  <2> QED
    BY <1>1, <2>1, <2>2, <2>3, FirstProofGiven, Zenon DEF validatePositiveResponse
<1>6. validateNegativeResponse(m) \in VerdictRecord
  <2>1. <<"NsecNoData", "NsecNxDomain", "Nsec3NoData", "Nsec3OptOut", "Nsec3NxDomain">> \in Seq(Doe)
    BY DEF Doe, NoData, NxDomain
  <2>2. m.proofs \ {"Nsec3OptOut"} \in SUBSET Doe
    BY <1>1
  <2> QED
    BY <1>1, <1>2, <2>1, <2>2, FirstProofGiven, Zenon DEF validateNegativeResponse
<1>7. Verdict("Insecure", None, "NotFound", "nil") \in VerdictRecord
  BY DEF Verdict, VerdictRecord, State, Doe
<1>8. verifyDNSKEYs(m) \in State /\ verifyRRSETs(m) \in State /\ "Bogus" \in State
  BY <1>1 DEF verifyDNSKEYs, verifyRRSETs, State
<1> QED
  BY <1>3, <1>4, <1>5, <1>6, <1>7, <1>8 DEF verify

\* Only a response whose keys and signatures check, under DS records of the
\* parent, is Secure.
LEMMA SecureVerdict ==
    ASSUME NEW m \in Messages, NEW ds, verify(m, ds).state = "Secure"
    PROVE  ds # None /\ m.keys = "good" /\ m.sigs = "good"
<1>1. m.keys \in {"error", "none", "unmatched", "bad", "good"}
  BY AuthenticatorAssumption DEF ConstantsOK, Message
<1>2. Plain("Insecure").state # "Secure" /\ Plain("Bogus").state # "Secure"
      /\ Verdict("Insecure", None, "NotFound", "nil").state # "Secure"
  BY DEF Plain, Verdict
<1>3. ds # None
  BY <1>2 DEF verify
<1>4. m.keys = "good"
  BY <1>1, <1>2, <1>3 DEF verify, verifyDNSKEYs
<1>5. m.sigs = "good"
  BY <1>2, <1>3, <1>4 DEF verify, verifyDNSKEYs, verifyRRSETs
<1> QED
  BY <1>3, <1>4, <1>5

(***************************************************************************)
(* The chain of results, in every state of the authenticator.              *)
(***************************************************************************)

\* The DS records that the i-th result was verified with.
PrevDS(res, i) == IF i = 1 THEN 0 ELSE res[i - 1].ds

\* The i-th result is what processResponse made of a response.
Linked(res, i) ==
    LET m == res[i].msg
        v == verify(m, PrevDS(res, i)) IN
    /\ m \in Messages
    /\ res[i].state = v.state /\ res[i].doe = v.doe
    /\ m.signer \in {None, PrevDS(res, i)} \/ PrevDS(res, i) = None

\* The inductive invariant: the buffer holds each response at its zone's
\* place, the results are those of the responses below inputBufferIdx, in
\* the order of their zones, and Result concludes from all of them.
ChainInv ==
    /\ buffer \in [Position -> Messages \cup {None}]
    /\ \A p \in Position : buffer[p] # None => buffer[p].zone = p
    /\ idx \in 0..N + 1
    /\ results \in Seq(ResultRecord)
    /\ \A i \in DOMAIN results : Linked(results, i) /\ results[i].msg.zone \in 0..idx - 1
    /\ Descending
    /\ \A p \in Position : p < idx /\ buffer[p] # None =>
           \E i \in DOMAIN results : results[i].msg = buffer[p]
    /\ pc \in {"ready", "adding"} => \A p \in Position : p < idx => buffer[p] # None
    /\ pc = "done" => \/ idx = N + 1 /\ outcome = Concluded(results)
                      \/ outcome.auth = "Unknown"

\* processResponse appends a result that is linked to the last one.
LEMMA ProcessedKeeps ==
    ASSUME ChainInv, pc \in {"adding", "concluding"},
           idx \in Position, buffer[idx] # None, Processed
    PROVE  ChainInv'
<1> DEFINE m == buffer[idx]
           r == NewResult(m, results)
           n == Len(results)
<1>0. N \in Nat /\ Messages \subseteq Message /\ OffPath \notin Int /\ None \notin Int
  BY AuthenticatorAssumption DEF ConstantsOK
<1>1. m \in Messages /\ m.zone = idx /\ idx \in Nat
  BY <1>0 DEF ChainInv, Position
<1>2. /\ results' = Append(results, r) /\ idx' = idx + 1
      /\ UNCHANGED <<buffer, pc, outcome, err>>
  BY DEF Processed
<1>3. r \in ResultRecord
  BY <1>0, <1>1, VerdictType DEF NewResult, ResultRecord, VerdictRecord
<1>4. results \in Seq(ResultRecord) /\ n \in Nat
  BY DEF ChainInv
<1>5. /\ results' \in Seq(ResultRecord) /\ Len(results') = n + 1
      /\ \A i \in 1..n : results'[i] = results[i]
      /\ results'[n + 1] = r
  BY <1>2, <1>3, <1>4
<1>6. DOMAIN results = 1..n /\ DOMAIN results' = 1..n + 1
  BY <1>4, <1>5
<1>7. LastDS(results) = PrevDS(results', n + 1)
  BY <1>4, <1>5 DEF LastDS, PrevDS
<1>8. \A i \in 1..n : PrevDS(results', i) = PrevDS(results, i)
  BY <1>4, <1>5 DEF PrevDS
<1>9. \A i \in DOMAIN results' : Linked(results', i) /\ results'[i].msg.zone \in 0..idx' - 1
  <2>1. \A i \in 1..n : Linked(results', i) /\ results'[i].msg.zone \in 0..idx' - 1
    <3>1. \A i \in 1..n : Linked(results, i) /\ results[i].msg.zone \in 0..idx - 1
      BY Zenon, <1>6 DEF ChainInv
    <3>2. \A i \in 1..n : Linked(results', i)
      BY Zenon, <1>5, <1>8, <3>1 DEF Linked
    <3>3. \A z \in 0..idx - 1 : z \in 0..idx' - 1
      BY <1>1, <1>2
    <3> QED
      BY Zenon, <1>5, <3>1, <3>2, <3>3
  <2>2. m.signer \in {None, LastDS(results)} \/ LastDS(results) = None
    BY DEF Processed, processError
  <2>3. Linked(results', n + 1)
    BY <1>1, <1>5, <1>7, <2>2 DEF Linked, NewResult
  <2>4. results'[n + 1].msg.zone = idx
    BY <1>1, <1>5 DEF NewResult
  <2> QED
    BY <1>1, <1>2, <1>4, <1>6, <2>1, <2>3, <2>4
<1>10. Descending'
  <2>1. \A i \in 1..n : results[i].msg.zone \in 0..idx - 1
    BY Zenon, <1>6 DEF ChainInv
  <2>2. results'[n + 1].msg.zone = idx
    BY <1>1, <1>5 DEF NewResult
  <2>3. Descending
    BY Zenon DEF ChainInv
  <2> QED
    BY SMTT(30), <1>1, <1>4, <1>5, <1>6, <2>1, <2>2, <2>3 DEF Descending
<1>11. \A p \in Position : p < idx' /\ buffer'[p] # None =>
           \E i \in DOMAIN results' : results'[i].msg = buffer'[p]
  <2> SUFFICES ASSUME NEW p \in Position, p < idx + 1, buffer[p] # None
               PROVE  \E i \in 1..n + 1 : results'[i].msg = buffer[p]
    BY <1>2, <1>6
  <2>1. CASE p = idx
    BY <2>1, <1>4, <1>5 DEF NewResult
  <2>2. CASE p < idx
    BY <2>2, <1>4, <1>5, <1>6 DEF ChainInv
  <2> QED
    BY <2>1, <2>2, <1>0, <1>1 DEF Position
<1>12. pc' \in {"ready", "adding"} => \A p \in Position : p < idx' => buffer'[p] # None
  <2>1. pc \in {"ready", "adding"} => \A p \in Position : p < idx => buffer[p] # None
    BY DEF ChainInv
  <2>2. \A p \in Position : p < idx + 1 => p < idx \/ p = idx
    BY <1>0, <1>1 DEF Position
  <2> QED
    BY <1>2, <2>1, <2>2
<1>13. idx' \in 0..N + 1 /\ pc' # "done"
  BY <1>0, <1>2 DEF Position
<1> QED
  BY Zenon, <1>2, <1>5, <1>9, <1>10, <1>11, <1>12, <1>13 DEF ChainInv

LEMMA ChainInit == Init => ChainInv
<1> SUFFICES ASSUME Init PROVE ChainInv
  OBVIOUS
<1>1. N \in Nat
  BY AuthenticatorAssumption DEF ConstantsOK
<1>2. results = <<>> /\ results \in Seq(ResultRecord) /\ DOMAIN results = {}
  BY DEF Init
<1>3. \A p \in Position : buffer[p] = None /\ ~(p < idx)
  BY <1>1 DEF Init, Position
<1>4. /\ buffer \in [Position -> Messages \cup {None}]
      /\ idx \in 0..N + 1 /\ pc = "ready"
  BY <1>1 DEF Init
<1> QED
  BY <1>2, <1>3, <1>4 DEF ChainInv, Descending

LEMMA ChainStep == ChainInv /\ [Next]_vars => ChainInv'
<1> SUFFICES ASSUME ChainInv, [Next]_vars PROVE ChainInv'
  OBVIOUS
<1>0. N \in Nat /\ Messages \subseteq Message /\ OffPath \notin Int /\ None \notin Int
      /\ None \notin Message
  BY AuthenticatorAssumption DEF ConstantsOK
<1>1. ASSUME UNCHANGED <<buffer, idx, results>>,
             pc' \in {"ready", "adding"} => pc \in {"ready", "adding"},
             pc' = "done" => \/ idx = N + 1 /\ outcome' = Concluded(results)
                             \/ outcome'.auth = "Unknown"
      PROVE  ChainInv'
  BY <1>1 DEF ChainInv, Descending
<1>2. ASSUME NEW m \in Messages, AddRefused(m) PROVE ChainInv'
  BY <1>1, <1>2 DEF AddRefused
<1>3. ASSUME NEW m \in Messages, AddResponse(m) PROVE ChainInv'
  <2>1. pc = "ready" /\ pc' = "adding" /\ UNCHANGED <<idx, results>>
        /\ buffer' = [buffer EXCEPT ![m.zone] = m]
    BY <1>3 DEF AddResponse
  <2>2. m.zone \in Position /\ buffer[m.zone] = None
    <3>1. m.zone \in Position \cup {OffPath}
      BY <1>0 DEF Message, Name
    <3> QED
      BY <1>3, <3>1 DEF AddResponse, Refused
  <2>3. /\ buffer \in [Position -> Messages \cup {None}]
        /\ \A p \in Position : p < idx => buffer[p] # None
    BY <2>1 DEF ChainInv
  <2>4. /\ buffer' \in [Position -> Messages \cup {None}]
        /\ buffer'[m.zone] = m
        /\ \A p \in Position \ {m.zone} : buffer'[p] = buffer[p]
        /\ ~(m.zone < idx)
    BY <2>1, <2>2, <2>3
  <2>5. \A p \in Position : buffer'[p] # None => buffer'[p].zone = p
    BY <2>2, <2>4 DEF ChainInv
  <2>6. \A p \in Position : p < idx => buffer'[p] = buffer[p]
    BY <2>4
  <2> QED
    BY <2>1, <2>4, <2>5, <2>6 DEF ChainInv, Descending
<1>4. CASE AddStops
  BY <1>1, <1>4 DEF AddStops
<1>5. CASE AddProcesses
  BY <1>5, ProcessedKeeps DEF AddProcesses, AtGap
<1>6. CASE AddFails
  BY <1>1, <1>6 DEF AddFails
<1>7. CASE Result
  BY <1>1, <1>7 DEF Result
<1>8. CASE ResultSkips
  <2>1. /\ pc = "concluding" /\ idx \in Position /\ buffer[idx] = None
        /\ idx' = idx + 1 /\ UNCHANGED <<buffer, results, pc, outcome>>
    BY <1>0, <1>8 DEF ResultSkips, ChainInv, Position
  <2>2. \A p \in Position : p < idx + 1 => p < idx \/ p = idx
    BY <1>0, <2>1 DEF Position
  <2>3. \A i \in DOMAIN results : results[i].msg.zone \in 0..idx' - 1
    BY <1>0, <2>1 DEF ChainInv, Position
  <2>4. idx' \in 0..N + 1
    BY <1>0, <2>1 DEF Position
  <2> QED
    BY <2>1, <2>2, <2>3, <2>4 DEF ChainInv, Descending
<1>9. CASE ResultProcesses
  <2>1. idx \in Position
    BY <1>0, <1>9 DEF ResultProcesses, ChainInv, Position
  <2> QED
    BY <1>9, <2>1, ProcessedKeeps DEF ResultProcesses
<1>10. CASE ResultFails
  BY <1>1, <1>10 DEF ResultFails, Conclusion
<1>11. CASE ResultConcludes
  BY <1>1, <1>11 DEF ResultConcludes
<1>12. CASE UNCHANGED vars
  BY <1>1, <1>12 DEF vars, ChainInv
<1> QED
  BY <1>2, <1>3, <1>4, <1>5, <1>6, <1>7, <1>8, <1>9, <1>10, <1>11, <1>12 DEF Next, Step

\* A Secure result of the chain is authentic.
LEMMA SecureIsAuthentic ==
    ASSUME ChainInv, NEW i \in DOMAIN results, results[i].state = "Secure"
    PROVE  Authentic(i)
<1>1. Linked(results, i)
  BY DEF ChainInv
<1> DEFINE m == results[i].msg
<1>2. m \in Messages /\ verify(m, PrevDS(results, i)).state = "Secure"
  BY <1>1 DEF Linked
<1>3. PrevDS(results, i) # None /\ m.keys = "good" /\ m.sigs = "good"
  BY <1>2, SecureVerdict
<1>4. m.signer # None
  BY <1>2, <1>3, AuthenticatorAssumption DEF ConstantsOK
<1>5. m.signer = PrevDS(results, i)
  BY <1>1, <1>3, <1>4 DEF Linked
<1> QED
  BY <1>3, <1>5 DEF Authentic, PrevDS

\* When Result draws its conclusion: without a Bogus result, a chain that is
\* not Secure throughout has a first result that is not.
LEMMA FirstBroken ==
    ASSUME NEW res \in Seq(ResultRecord),
           NEW broken, broken = {i \in DOMAIN res : res[i].state # "Secure"}, broken # {}
    PROVE  /\ Min(broken) \in DOMAIN res /\ res[Min(broken)].state # "Secure"
           /\ \A j \in DOMAIN res : j < Min(broken) => res[j].state = "Secure"
<1>1. broken \subseteq Nat
  OBVIOUS
<1>2. Min(broken) \in broken /\ \A j \in broken : Min(broken) <= j
  BY <1>1, LeastNatural
<1>3. ASSUME NEW j \in broken PROVE ~(j < Min(broken))
  <2>1. j \in Nat /\ Min(broken) \in Nat /\ Min(broken) <= j
    BY <1>1, <1>2, Zenon
  <2> QED
    BY <2>1
<1>4. \A j \in DOMAIN res : j \notin broken => res[j].state = "Secure"
  OBVIOUS
<1> QED
  BY <1>2, <1>3, <1>4

LEMMA SecureConclusion ==
    ASSUME ChainInv, pc = "done", outcome.auth = "Secure"
    PROVE  /\ results # <<>> /\ idx = N + 1
           /\ \A i \in DOMAIN results : results[i].state = "Secure"
<1>1. idx = N + 1 /\ outcome = Concluded(results) /\ results \in Seq(ResultRecord)
  BY DEF ChainInv
<1> DEFINE broken == {i \in DOMAIN results : results[i].state # "Secure"}
<1>2. results # <<>>
  BY <1>1 DEF Concluded, Conclusion
<1>3. ASSUME broken # {} PROVE FALSE
  <2>1. results[Min(broken)].state # "Secure"
    BY <1>1, <1>3, FirstBroken
  <2> QED
    BY <1>1, <1>2, <1>3, <2>1 DEF Concluded, Conclusion
<1> QED
  BY <1>1, <1>2, <1>3

LEMMA InsecureConclusion ==
    ASSUME ChainInv, pc = "done", outcome.auth = "Insecure", results[1].state = "Secure"
    PROVE  \E i \in DOMAIN results :
               ProvesNoDS(i) /\ \A j \in 1..i : results[j].state = "Secure"
<1>1. outcome = Concluded(results) /\ results \in Seq(ResultRecord)
  BY DEF ChainInv
<1> DEFINE broken == {i \in DOMAIN results : results[i].state # "Secure"}
           bogus  == {i \in DOMAIN results : results[i].state = "Bogus"}
           k      == Min(broken)
<1>2. results # <<>> /\ bogus = {}
  BY <1>1 DEF Concluded, Conclusion
<1>3. CASE broken = {}
  <2> DEFINE last == results[Len(results)]
  <2>1. LastConclusion(last).auth = "Insecure"
    BY <1>1, <1>2, <1>3 DEF Concluded
  <2>2. last.doe = "Nsec3OptOut"
    BY <2>1 DEF LastConclusion, Conclusion, NxDomain, NoData, MissingDS
  <2>3. Len(results) \in DOMAIN results
    BY <1>1, <1>2
  <2> QED
    BY <1>1, <1>3, <2>2, <2>3 DEF ProvesNoDS
<1>4. CASE broken # {}
  <2>1. /\ k \in DOMAIN results /\ results[k].state # "Secure"
        /\ \A j \in DOMAIN results : j < k => results[j].state = "Secure"
    BY <1>1, <1>4, FirstBroken, Zenon
  <2>2. k # 1
    BY <2>1
  <2>3. DelegationIsInsecure(results[k - 1], results[k])
    BY <1>1, <1>2, <1>4, <2>2 DEF Concluded, Conclusion
  <2>4. k - 1 \in DOMAIN results /\ k - 1 < Len(results) /\ k - 1 + 1 = k
    <3>1. DOMAIN results = 1..Len(results) /\ Len(results) \in Nat
      BY <1>1
    <3> HIDE DEF k
    <3> QED
      BY <2>1, <2>2, <3>1
  <2>5. ProvesNoDS(k - 1)
    BY Zenon, <2>3, <2>4 DEF DelegationIsInsecure, ProvesNoDS
  <2>6. \A j \in 1..k - 1 : j \in DOMAIN results /\ j < k
    BY <1>1, <2>1
  <2> QED
    BY <2>1, <2>4, <2>5, <2>6
<1> QED
  BY <1>3, <1>4

\* Result says Secure only of an unbroken chain of signatures from the
\* root's keys down, which leaves out none of the responses that were added:
\* for a name of any number of labels and any responses.
THEOREM SecureOutcome == Spec => []SecureMeansChain
<1>1. ChainInv => SecureMeansChain
  <2> SUFFICES ASSUME ChainInv, pc = "done", outcome.auth = "Secure"
               PROVE  /\ results # <<>>
                      /\ \A p \in Position : buffer[p] # None =>
                             \E i \in DOMAIN results : results[i].msg = buffer[p]
                      /\ \A i \in DOMAIN results : Authentic(i)
                      /\ Descending
    BY DEF SecureMeansChain
  <2>1. \A p \in Position : p < N + 1
    BY AuthenticatorAssumption DEF ConstantsOK, Position
  <2> QED
    BY <2>1, SecureConclusion, SecureIsAuthentic DEF ChainInv
<1> QED
  BY <1>1, ChainInit, ChainStep, PTL DEF Spec

\* Result says Insecure of a chain that starts Secure only with an authentic
\* proof that the next zone has no DS records.
THEOREM InsecureOutcome == Spec => []InsecureMeansProof
<1>1. ChainInv => InsecureMeansProof
  <2> SUFFICES ASSUME ChainInv, pc = "done", outcome.auth = "Insecure",
                      results[1].state = "Secure"
               PROVE  \E i \in DOMAIN results :
                          ProvesNoDS(i) /\ \A j \in 1..i : Authentic(j)
    BY DEF InsecureMeansProof
  <2>1. PICK i \in DOMAIN results :
            ProvesNoDS(i) /\ \A j \in 1..i : results[j].state = "Secure"
    BY InsecureConclusion
  <2>2. \A j \in 1..i : j \in DOMAIN results
    BY <2>1 DEF ChainInv
  <2> QED
    BY <2>1, <2>2, SecureIsAuthentic
<1> QED
  BY <1>1, ChainInit, ChainStep, PTL DEF Spec

(***************************************************************************)
(* The order of the responses.  The reference chain is a recursive         *)
(* function, so its defining equation is a lemma: the values up to k exist *)
(* for every k, since there is no least k for which they do not.           *)
(***************************************************************************)

EmptyChain == [res |-> <<>>, err |-> "nil"]

\* f gives the reference chain of buf at the positions up to k.
ChainUpTo(f, buf, k) ==
    f = [n \in 0..k |-> IF n = 0 THEN EmptyChain ELSE Extend(f[n - 1], buf[n - 1])]

LEMMA ChainExists ==
    ASSUME NEW buf, NEW k \in Nat
    PROVE  \E f : ChainUpTo(f, buf, k)
<1> DEFINE bad == {j \in Nat : ~ \E f : ChainUpTo(f, buf, j)}
<1> SUFFICES ASSUME bad # {} PROVE FALSE
  OBVIOUS
<1>1. bad \subseteq Nat
  OBVIOUS
<1>2. PICK j \in bad : \A i \in bad : j <= i
  BY <1>1, LeastNatural, Zenon
<1>3. j # 0
  <2> DEFINE f0 == [n \in 0..0 |-> EmptyChain]
  <2>1. \A n \in 0..0 : n = 0
    OBVIOUS
  <2>2. ChainUpTo(f0, buf, 0)
    BY <2>1 DEF ChainUpTo
  <2> QED
    BY <2>2
<1>4. PICK f : ChainUpTo(f, buf, j - 1)
  <2>1. j - 1 \in Nat /\ ~(j <= j - 1)
    BY <1>3
  <2> QED
    BY <1>2, <2>1
<1> DEFINE g == [n \in 0..j |-> IF n = j THEN Extend(f[j - 1], buf[j - 1]) ELSE f[n]]
           h == [n \in 0..j |-> IF n = 0 THEN EmptyChain ELSE Extend(g[n - 1], buf[n - 1])]
<1>5. ASSUME NEW n \in 0..j PROVE g[n] = h[n]
  <2>1. \A i \in 0..j - 1 : f[i] = (IF i = 0 THEN EmptyChain ELSE Extend(f[i - 1], buf[i - 1]))
    BY <1>4 DEF ChainUpTo
  <2>2. CASE n = 0
    BY <1>3, <2>1, <2>2
  <2>3. CASE n # 0
    <3>1. n - 1 \in 0..j /\ n - 1 # j
      BY <2>3
    <3>2. g[n - 1] = f[n - 1]
      BY <3>1
    <3>3. h[n] = Extend(f[n - 1], buf[n - 1])
      BY <2>3, <3>2
    <3>4. n # j => n \in 0..j - 1
      OBVIOUS
    <3> QED
      BY <2>1, <2>3, <3>3, <3>4
  <2> QED
    BY <2>2, <2>3
<1>6. g = h
  BY <1>5
<1>7. ChainUpTo(g, buf, j)
  BY <1>6, Zenon DEF ChainUpTo
<1> QED
  BY <1>7

LEMMA ChainValue ==
    ASSUME NEW buf
    PROVE  /\ Chain(buf)[0] = EmptyChain
           /\ \A n \in 0..N : Chain(buf)[n + 1] = Extend(Chain(buf)[n], buf[n])
<1>0. N \in Nat
  BY AuthenticatorAssumption DEF ConstantsOK
<1>1. \E f : ChainUpTo(f, buf, N + 1)
  BY <1>0, ChainExists
<1>2. ChainUpTo(Chain(buf), buf, N + 1)
  BY <1>1, Zenon DEF ChainUpTo, Chain, EmptyChain
<1> DEFINE c == Chain(buf)
<1> HIDE DEF c
<1>3. \A n \in 0..N + 1 : c[n] = IF n = 0 THEN EmptyChain ELSE Extend(c[n - 1], buf[n - 1])
  BY <1>2, Zenon DEF ChainUpTo, c
<1>4. c[0] = EmptyChain
  BY <1>0, <1>3
<1>5. ASSUME NEW n \in 0..N PROVE c[n + 1] = Extend(c[n], buf[n])
  <2>1. n + 1 \in 0..N + 1 /\ n + 1 # 0 /\ n + 1 - 1 = n
    BY <1>0
  <2> QED
    BY <1>3, <2>1
<1> QED
  BY <1>4, <1>5 DEF c

\* The chain up to k depends on the responses below k only.
LEMMA ChainPrefix ==
    ASSUME NEW b, NEW c, NEW k \in 0..N + 1, \A p \in Position : p < k => b[p] = c[p]
    PROVE  Chain(b)[k] = Chain(c)[k]
<1> DEFINE bad == {j \in 0..k : Chain(b)[j] # Chain(c)[j]}
<1> SUFFICES ASSUME bad # {} PROVE FALSE
  BY AuthenticatorAssumption DEF ConstantsOK
<1>0. N \in Nat
  BY AuthenticatorAssumption DEF ConstantsOK
<1>1. bad \subseteq Nat
  OBVIOUS
<1>2. PICK j \in bad : \A i \in bad : j <= i
  BY <1>1, LeastNatural, Zenon
<1>3. j # 0
  BY ChainValue
<1>4. j - 1 \in 0..N /\ j - 1 < k /\ j - 1 \in 0..k /\ ~(j <= j - 1) /\ j - 1 + 1 = j
  BY <1>0, <1>3
<1>5. Chain(b)[j - 1] = Chain(c)[j - 1]
  BY <1>2, <1>4
<1>6. b[j - 1] = c[j - 1]
  BY <1>4 DEF Position
<1>7. Chain(b)[j] = Extend(Chain(b)[j - 1], b[j - 1])
  BY <1>4, ChainValue
<1>8. Chain(c)[j] = Extend(Chain(c)[j - 1], c[j - 1])
  BY <1>4, ChainValue
<1> QED
  BY <1>5, <1>6, <1>7, <1>8

\* The first error ends the chain.
LEMMA ChainErrorStays ==
    ASSUME NEW b, NEW k \in 0..N + 1, Chain(b)[k].err # "nil"
    PROVE  Chain(b)[N + 1] = Chain(b)[k]
<1> DEFINE bad == {j \in k..N + 1 : Chain(b)[j] # Chain(b)[k]}
<1>0. N \in Nat /\ k \in Nat
  BY AuthenticatorAssumption DEF ConstantsOK
<1> SUFFICES ASSUME bad # {} PROVE FALSE
  BY <1>0
<1>1. bad \subseteq Nat
  BY <1>0
<1>2. PICK j \in bad : \A i \in bad : j <= i
  BY <1>1, LeastNatural, Zenon
<1>3. j # k
  OBVIOUS
<1>4. j - 1 \in 0..N /\ j - 1 \in k..N + 1 /\ ~(j <= j - 1) /\ j - 1 + 1 = j
  BY <1>0, <1>3
<1>5. Chain(b)[j - 1] = Chain(b)[k]
  BY <1>2, <1>4
<1>6. Chain(b)[j] = Extend(Chain(b)[j - 1], b[j - 1])
  BY <1>4, ChainValue
<1> QED
  BY <1>5, <1>6 DEF Extend

\* What has been processed is the reference chain up to inputBufferIdx.
OrderInv ==
    /\ results = Chain(buffer)[idx].res /\ Chain(buffer)[idx].err = "nil"
    /\ OrderIndependent

LEMMA OrderInit == Init => OrderInv
<1> SUFFICES ASSUME Init PROVE OrderInv
  OBVIOUS
<1>1. Chain(buffer)[idx] = EmptyChain
  BY Zenon, ChainValue DEF Init
<1> QED
  BY <1>1 DEF Init, OrderInv, OrderIndependent, EmptyChain

LEMMA OrderProcessed ==
    ASSUME OrderInv, pc \in {"adding", "concluding"},
           idx \in Position, buffer[idx] # None, Processed
    PROVE  OrderInv'
<1> DEFINE above == Chain(buffer)[idx]
<1>1. Chain(buffer)[idx + 1] = Extend(above, buffer[idx])
  BY ChainValue DEF Position
<1>2. processError(buffer[idx], results) = "nil" /\ idx' = idx + 1
      /\ results' = Append(results, NewResult(buffer[idx], results))
      /\ UNCHANGED <<buffer, pc>>
  BY DEF Processed
<1>3. Extend(above, buffer[idx]) = [res |-> results', err |-> "nil"]
  BY <1>2 DEF OrderInv, Extend
<1> QED
  BY <1>1, <1>2, <1>3 DEF OrderInv, OrderIndependent

LEMMA OrderStep == ChainInv /\ OrderInv /\ [Next]_vars => OrderInv'
<1> SUFFICES ASSUME ChainInv, OrderInv, [Next]_vars PROVE OrderInv'
  OBVIOUS
<1>0. N \in Nat /\ idx \in 0..N + 1 /\ N + 1 \in 0..N + 1
  BY AuthenticatorAssumption DEF ConstantsOK, ChainInv
<1>1. ASSUME UNCHANGED <<buffer, idx, results>>, pc' # "done" PROVE OrderInv'
  BY <1>1 DEF OrderInv, OrderIndependent
<1>2. ASSUME NEW m \in Messages, AddRefused(m) PROVE OrderInv'
  BY <1>1, <1>2 DEF AddRefused
<1>3. ASSUME NEW m \in Messages, AddResponse(m) PROVE OrderInv'
  <2>1. pc = "ready" /\ pc' = "adding" /\ UNCHANGED <<idx, results>>
        /\ buffer' = [buffer EXCEPT ![m.zone] = m] /\ ~Refused(m)
    BY <1>3 DEF AddResponse
  <2>2. buffer[m.zone] = None
    BY <2>1 DEF Refused
  <2>3. /\ buffer \in [Position -> Messages \cup {None}]
        /\ \A p \in Position : p < idx => buffer[p] # None
    BY <2>1 DEF ChainInv
  <2>4. \A p \in Position : p < idx => buffer'[p] = buffer[p]
    BY <2>1, <2>2, <2>3
  <2>5. Chain(buffer')[idx] = Chain(buffer)[idx]
    BY <1>0, <2>4, ChainPrefix
  <2> QED
    BY <2>1, <2>5 DEF OrderInv, OrderIndependent
<1>4. CASE AddStops
  BY <1>1, <1>4 DEF AddStops
<1>5. CASE AddProcesses
  BY <1>5, OrderProcessed DEF AddProcesses, AtGap
<1>6. CASE AddFails
  BY <1>1, <1>6 DEF AddFails
<1>7. CASE Result
  BY Zenon, <1>1, <1>7 DEF Result
<1>8. CASE ResultSkips
  <2>1. Chain(buffer)[idx + 1] = Extend(Chain(buffer)[idx], buffer[idx])
    BY <1>0, <1>8, ChainValue DEF ResultSkips
  <2> QED
    BY <1>8, <2>1 DEF ResultSkips, Extend, OrderInv, OrderIndependent
<1>9. CASE ResultProcesses
  <2>1. idx \in Position
    BY <1>0, <1>9 DEF ResultProcesses, Position
  <2> QED
    BY <1>9, <2>1, OrderProcessed DEF ResultProcesses
<1>10. CASE ResultFails
  <2> DEFINE e == processError(buffer[idx], results)
  <2>1. /\ idx \in 0..N /\ buffer[idx] # None /\ e # "nil"
        /\ outcome' = Conclusion("Unknown", "NotFound", e)
        /\ UNCHANGED <<buffer, idx, results>>
    BY <1>0, <1>10 DEF ResultFails
  <2>2. Chain(buffer)[idx + 1] = Extend(Chain(buffer)[idx], buffer[idx])
    BY <2>1, ChainValue
  <2>3. Chain(buffer)[idx + 1].err = e
    BY <2>1, <2>2 DEF Extend, OrderInv
  <2>4. Chain(buffer)[N + 1].err = e
    BY SMTT(30), <1>0, <2>1, <2>3, ChainErrorStays
  <2> QED
    BY <2>1, <2>4 DEF OrderInv, OrderIndependent, ChainTo
<1>11. CASE ResultConcludes
  BY <1>11 DEF ResultConcludes, OrderInv, OrderIndependent, ChainTo
<1>12. CASE UNCHANGED vars
  BY <1>12 DEF vars, OrderInv, OrderIndependent
<1> QED
  BY <1>2, <1>3, <1>4, <1>5, <1>6, <1>7, <1>8, <1>9, <1>10, <1>11, <1>12 DEF Next, Step

\* Responses can be added in any order: what Result returns depends only on
\* which responses are in the buffer, not on the order in which AddResponse
\* got them.
THEOREM OutcomeIndependentOfOrder == Spec => []OrderIndependent
<1>1. OrderInv => OrderIndependent
  BY DEF OrderInv
<1> QED
  BY <1>1, ChainInit, ChainStep, OrderInit, OrderStep, PTL DEF Spec

=============================================================================
