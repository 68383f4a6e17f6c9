---------------------------- MODULE Authenticator ----------------------------
(***************************************************************************)
(* The DNSSEC authenticator of one question (dnssec/authenticator.go,      *)
(* result.go and the verify*.go files).                                    *)
(*                                                                         *)
(* Responses of the zones between the root and the question's name arrive  *)
(* in any order.  AddResponse buffers them by the label count of the zone  *)
(* and processes the ones that have no gap before them; Result processes   *)
(* the rest and draws the conclusion.                                      *)
(*                                                                         *)
(* A name on the path from the root to the question's name is its label    *)
(* count; any other name is OffPath.  A message is abstracted to what the  *)
(* verifier finds out about it: whose signature it carries, how its keys   *)
(* and signatures check, of which kind it is, which name its signed DS     *)
(* records are for and what its NSEC and NSEC3 records prove.              *)
(***************************************************************************)
EXTENDS Integers, Sequences, FiniteSets, FiniteSetsExt

CONSTANTS
    N,          \* the number of labels of the question's name
    Messages,   \* the responses that may be added
    OffPath,    \* a name that is no ancestor of the question's name
    None        \* no message, no signature, no DS records, no outcome

Position == 0..N
Name == Position \cup {OffPath}

State == {"Unknown", "Insecure", "Secure", "Bogus"}
MissingDS == {"NsecMissingDS", "Nsec3MissingDS"}
NoData == {"NsecNoData", "Nsec3NoData"}
NxDomain == {"NsecNxDomain", "Nsec3NxDomain"}
Wildcard == {"NsecWildcard", "Nsec3Wildcard"}
Doe == MissingDS \cup NoData \cup NxDomain \cup Wildcard \cup {"NotFound", "Nsec3OptOut"}

Message ==
    [zone : Name,                  \* the zone that was asked
     qname : Name, qtype : {"DS", "other"},
     signer : Name \cup {None},    \* SignerName of the first RRSIG
     keys : {"error", "none", "unmatched", "bad", "good"},
                                   \* the zone's DNSKEYs, against the parent's DS
     sigs : {"bad", "good"},       \* the signatures of the sections
     kind : {"delegation", "mixed", "positive", "negative", "other"},
                                   \* mixed: the NS records have several owners
     ds : Position \cup {None},    \* the owner of the signed DS records
     wildcards : 0..2,             \* signatures of expanded wildcards
     proofs : SUBSET Doe,          \* what the NSEC and NSEC3 records prove
     answer : {"match", "cname", "other"}]

\* What the constants are: a signature that checks has a signer.
ConstantsOK ==
    /\ N \in Nat
    /\ Messages \subseteq Message
    /\ \A m \in Messages : m.sigs = "good" => m.signer # None
    /\ OffPath \notin Int
    /\ None \notin Int /\ None # OffPath /\ None \notin Message

ASSUME AuthenticatorAssumption == ConstantsOK

VARIABLES
    buffer,    \* inputBuffer
    idx,       \* inputBufferIdx
    results,   \* results
    pc,        \* "ready" for a call, "adding", "concluding" or "done"
    outcome,   \* what Result returned
    err       \* what the last call of AddResponse returned

vars == <<buffer, idx, results, pc, outcome, err>>

-----------------------------------------------------------------------------
(* verify: the state of a response, given the DS records of the parent.    *)

Verdict(state, ds, doe, error) == [state |-> state, ds |-> ds, doe |-> doe, err |-> error]
Plain(state) == Verdict(state, None, "NotFound", IF state = "Secure" THEN "nil" ELSE "verify")

\* The first of a sequence of proofs that the records give, or NotFound.
FirstProof(order, proofs) ==
    LET given == {i \in DOMAIN order : order[i] \in proofs}
    IN  IF given = {} THEN "NotFound" ELSE order[Min(given)]

\* Secure with that proof; without one, Bogus.
Proven(doe) == IF doe = "NotFound" THEN Plain("Bogus") ELSE Verdict("Secure", None, doe, "nil")

validateDelegatingResponse(m) ==
    IF m.ds # None THEN Verdict("Secure", m.ds, "NotFound", "nil")
    ELSE IF m.kind = "mixed" THEN Plain("Bogus")
    ELSE Proven(FirstProof(<<"NsecMissingDS", "Nsec3MissingDS", "Nsec3OptOut">>, m.proofs))

\* The DS records and the proof stay in a result that turns out Bogus.
validatePositiveResponse(m) ==
    LET doe == IF m.wildcards = 0 THEN "NotFound"
               ELSE FirstProof(<<"Nsec3Wildcard", "NsecWildcard">>, m.proofs) IN
    IF m.wildcards = 0 \/ (m.wildcards = 1 /\ doe # "NotFound")
    THEN Verdict("Secure", m.ds, doe, "nil")
    ELSE Verdict("Bogus", m.ds, doe, "verify")

\* An opt-out counts only when the question was for DS records.
validateNegativeResponse(m) ==
    Proven(FirstProof(
        <<"NsecNoData", "NsecNxDomain", "Nsec3NoData", "Nsec3OptOut", "Nsec3NxDomain">>,
        IF m.qtype = "DS" THEN m.proofs ELSE m.proofs \ {"Nsec3OptOut"}))

verifyDNSKEYs(m) ==
    CASE m.keys \in {"none", "unmatched"} -> "Insecure"
      [] m.keys \in {"error", "bad"} -> "Bogus"
      [] m.keys = "good" -> "Unknown"

verifyRRSETs(m) == IF m.sigs = "good" THEN "Unknown" ELSE "Bogus"

verify(m, ds) ==
    IF ds = None THEN Verdict("Insecure", None, "NotFound", "nil")
    ELSE IF verifyDNSKEYs(m) # "Unknown" THEN Plain(verifyDNSKEYs(m))
    ELSE IF verifyRRSETs(m) # "Unknown" THEN Plain(verifyRRSETs(m))
    ELSE CASE m.kind \in {"delegation", "mixed"} -> validateDelegatingResponse(m)
           [] m.kind = "positive" -> validatePositiveResponse(m)
           [] m.kind = "negative" -> validateNegativeResponse(m)
           [] OTHER -> Plain("Bogus")

-----------------------------------------------------------------------------
(* processResponse: check a response against the last result, and verify.  *)

\* The DS records that the next response is verified with.
LastDS(res) == IF res = <<>> THEN 0 ELSE res[Len(res)].ds

\* Mutant: a response of any signer is accepted.
processError_AnySigner(m, res) == "nil"

processError(m, res) ==
    LET zone == IF res = <<>> THEN -1 ELSE res[Len(res)].msg.zone
        ds   == LastDS(res) IN
    IF m.zone < zone THEN "ErrNotSubdomain"
    ELSE IF m.zone = zone THEN "ErrSameName"
    ELSE IF m.signer \in {None, ds} \/ ds = None THEN "nil"
    ELSE IF m.signer = OffPath THEN "ErrNotSubdomain"
    ELSE "MissingDSRecordError"

NewResult(m, res) ==
    LET v == verify(m, LastDS(res))
    IN  [msg |-> m, state |-> v.state, ds |-> v.ds, doe |-> v.doe, err |-> v.err]

-----------------------------------------------------------------------------
(* Result's conclusion from the results of the chain.                      *)

Conclusion(auth, doe, error) == [auth |-> auth, doe |-> doe, err |-> error]

\* Mutant: NoData is accepted whatever the question was.
DelegationIsInsecure_AnyNoData(previous, current) ==
    previous.doe \in MissingDS \cup NoData \cup {"Nsec3OptOut"}

\* The previous result proves that the current zone has no DS records.
DelegationIsInsecure(previous, current) ==
    \/ previous.doe \in MissingDS \cup {"Nsec3OptOut"}
    \/ /\ previous.doe \in NoData
       /\ previous.msg.qtype = "DS" /\ previous.msg.qname = current.msg.zone

LastConclusion(last) ==
    CASE last.doe = "Nsec3OptOut" -> Conclusion("Insecure", last.doe, last.err)
      [] last.doe \in NxDomain \cup NoData -> Conclusion("Secure", last.doe, last.err)
      [] last.doe \in MissingDS -> Conclusion("Bogus", last.doe, last.err)
      [] OTHER -> IF last.msg.kind # "negative" /\ last.msg.answer \in {"match", "cname"}
                  THEN Conclusion("Secure", last.doe, last.err)
                  ELSE Conclusion("Bogus", last.doe, last.err)

Concluded(res) ==
    LET bogus  == {i \in DOMAIN res : res[i].state = "Bogus"}
        broken == {i \in DOMAIN res : res[i].state # "Secure"}
        i      == Min(broken) IN
    IF res = <<>> THEN Conclusion("Unknown", "NotFound", "ErrNoResults")
    ELSE IF bogus # {} THEN Conclusion("Bogus", "NotFound", res[Min(bogus)].err)
    ELSE IF broken = {} THEN LastConclusion(res[Len(res)])
    ELSE IF i = 1 THEN Conclusion(res[1].state, res[1].doe, res[1].err)
    ELSE IF DelegationIsInsecure(res[i - 1], res[i])
         THEN Conclusion("Insecure", res[i - 1].doe, res[i].err)
         ELSE Conclusion("Bogus", res[i - 1].doe, res[i].err)

-----------------------------------------------------------------------------
Init ==
    /\ buffer = [p \in Position |-> None]
    /\ idx = 0
    /\ results = <<>>
    /\ pc = "ready"
    /\ outcome = None
    /\ err = "nil"

\* AddResponse refuses a response before it touches the buffer.
Refused(m) == IF OffPath \in {m.zone, m.qname} THEN TRUE ELSE buffer[m.zone] # None

AddRefused(m) ==
    /\ pc = "ready"
    /\ Refused(m)
    /\ err' = IF OffPath \in {m.zone, m.qname} THEN "ErrNotSubdomain"
              ELSE "ErrDuplicateInputForZone"
    /\ UNCHANGED <<buffer, idx, results, pc, outcome>>

AddResponse(m) ==
    /\ pc = "ready"
    /\ ~Refused(m)
    /\ buffer' = [buffer EXCEPT ![m.zone] = m]
    /\ pc' = "adding"
    /\ UNCHANGED <<idx, results, outcome, err>>

AtGap == idx \notin {p \in Position : buffer[p] # None}

\* Mutant: AddResponse continues behind a gap, as Result does.
AddStops_Skips ==
    /\ pc = "adding"
    /\ AtGap
    /\ idx' = IF idx <= N THEN idx + 1 ELSE idx
    /\ pc' = IF idx <= N THEN "adding" ELSE "ready"
    /\ err' = "nil"
    /\ UNCHANGED <<buffer, results, outcome>>

\* AddResponse's loop stops at the first gap.
AddStops ==
    /\ pc = "adding"
    /\ AtGap
    /\ pc' = "ready"
    /\ err' = "nil"
    /\ UNCHANGED <<buffer, idx, results, outcome>>

\* Both loops pass the next response to processResponse.
Processed ==
    /\ processError(buffer[idx], results) = "nil"
    /\ results' = Append(results, NewResult(buffer[idx], results))
    /\ idx' = idx + 1
    /\ UNCHANGED <<buffer, pc, outcome, err>>

AddProcesses == pc = "adding" /\ ~AtGap /\ Processed

\* Mutant: an error moves the index on.
AddFails_Advances ==
    /\ pc = "adding"
    /\ ~AtGap
    /\ processError(buffer[idx], results) # "nil"
    /\ err' = processError(buffer[idx], results)
    /\ pc' = "ready"
    /\ idx' = idx + 1
    /\ UNCHANGED <<buffer, results, outcome>>

\* An error leaves inputBufferIdx where it is: the next call tries again.
AddFails ==
    /\ pc = "adding"
    /\ ~AtGap
    /\ processError(buffer[idx], results) # "nil"
    /\ err' = processError(buffer[idx], results)
    /\ pc' = "ready"
    /\ UNCHANGED <<buffer, idx, results, outcome>>

Result ==
    /\ pc = "ready"
    /\ pc' = "concluding"
    /\ UNCHANGED <<buffer, idx, results, outcome, err>>

ResultSkips ==
    /\ pc = "concluding" /\ idx <= N
    /\ buffer[idx] = None
    /\ idx' = idx + 1
    /\ UNCHANGED <<buffer, results, pc, outcome, err>>

ResultProcesses == pc = "concluding" /\ idx <= N /\ buffer[idx] # None /\ Processed

ResultFails ==
    /\ pc = "concluding" /\ idx <= N
    /\ buffer[idx] # None
    /\ processError(buffer[idx], results) # "nil"
    /\ outcome' = Conclusion("Unknown", "NotFound", processError(buffer[idx], results))
    /\ pc' = "done"
    /\ UNCHANGED <<buffer, idx, results, err>>

ResultConcludes ==
    /\ pc = "concluding" /\ idx = N + 1
    /\ outcome' = Concluded(results)
    /\ pc' = "done"
    /\ UNCHANGED <<buffer, idx, results, err>>

Step == AddStops \/ AddProcesses \/ AddFails
        \/ ResultSkips \/ ResultProcesses \/ ResultFails \/ ResultConcludes

Next == Step \/ Result \/ \E m \in Messages : AddRefused(m) \/ AddResponse(m)

Spec == Init /\ [][Next]_vars

-----------------------------------------------------------------------------
(* Properties.                                                             *)

ResultRecord ==
    [msg : Message, state : State, ds : Position \cup {None}, doe : Doe, err : {"nil", "verify"}]

\* The type invariant of the authenticator's state.
TypeOK ==
    /\ buffer \in [Position -> Messages \cup {None}]
    /\ idx \in 0..N + 1
    /\ results \in Seq(ResultRecord)
    /\ pc \in {"ready", "adding", "concluding", "done"}
    /\ outcome \in [auth : State, doe : Doe, err : STRING] \cup {None}
    /\ err \in STRING

\* Reference: the results of the responses at positions below n, taken from
\* the root down, as long as none of them is refused by processResponse.
Extend(above, m) ==
    IF m = None \/ above.err # "nil" THEN above
    ELSE IF processError(m, above.res) # "nil"
    THEN [res |-> above.res, err |-> processError(m, above.res)]
    ELSE [res |-> Append(above.res, NewResult(m, above.res)), err |-> "nil"]

Chain(buf) ==
    LET chain[n \in 0..N + 1] ==
            IF n = 0 THEN [res |-> <<>>, err |-> "nil"] ELSE Extend(chain[n - 1], buf[n - 1])
    IN  chain

ChainTo(buf) == Chain(buf)[N + 1]

\* "Responses can be passed in any order and will be buffered ... so they
\* will be processed in the correct order": the outcome depends on which
\* responses are in the buffer and not on the order in which AddResponse
\* got them, nor on how often a failed one was tried again.
OrderIndependent ==
    pc = "done" =>
        LET chain == ChainTo(buffer) IN
        outcome = IF chain.err = "nil" THEN Concluded(chain.res)
                  ELSE Conclusion("Unknown", "NotFound", chain.err)

\* Each result of the chain is of a zone below the one before it.
Descending == \A i, j \in DOMAIN results : i < j => results[i].msg.zone < results[j].msg.zone

Authentic(i) ==
    /\ results[i].state = "Secure"
    /\ results[i].msg.keys = "good" /\ results[i].msg.sigs = "good"
    /\ results[i].msg.signer = (IF i = 1 THEN 0 ELSE results[i - 1].ds)

\* Result says Secure only of an unbroken chain: every response that was
\* added has been processed and is Secure, the first one is signed by the
\* root, and each other one by the zone that the DS records of the one
\* before it are for.
SecureMeansChain ==
    pc = "done" /\ outcome.auth = "Secure" =>
        /\ results # <<>>
        /\ \A p \in Position : buffer[p] # None => \E i \in DOMAIN results : results[i].msg = buffer[p]
        /\ \A i \in DOMAIN results : Authentic(i)
        /\ Descending

ProvesNoDS(i) ==
    \/ results[i].doe \in MissingDS \cup {"Nsec3OptOut"}
    \/ /\ results[i].doe \in NoData
       /\ i < Len(results)
       /\ results[i].msg.qtype = "DS" /\ results[i].msg.qname = results[i + 1].msg.zone

\* "If the chain moved from Secure to Insecure, there must be Denial of
\* Existence on the DS records, otherwise Bogus": an Insecure outcome that
\* has the root's keys rests on an authentic proof, at the end of an
\* authentic chain, that the next zone has no DS records.
InsecureMeansProof ==
    pc = "done" /\ outcome.auth = "Insecure" /\ results[1].state = "Secure" =>
        \E i \in DOMAIN results : ProvesNoDS(i) /\ \A j \in 1..i : Authentic(j)

=============================================================================
