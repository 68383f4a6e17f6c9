------------------------------ MODULE Verifier ------------------------------
(***************************************************************************)
(* The verification of one response of a signed zone, down to its records  *)
(* (dnssec/verify*.go over dnssec/doe and the signatures).  Authenticator  *)
(* has the same steps with the outcome of each as a field of the message.  *)
(*                                                                         *)
(* The zone is the environment.  It has data, is signed with NSEC or with  *)
(* NSEC3 records, and its servers answer with record sets of the zone and  *)
(* any of these records, in which one signature may be missing or wrong.   *)
(***************************************************************************)
EXTENDS Denial, Signatures

CONSTANTS
    Zones,           \* [data : the types at each owner, denial : how it is signed]
    QNames, QTypes,
    KeyAnswers,      \* the DNSKEY answers, as sections
    DelegationKeys,  \* the keys that the parent's DS records are for
    ZoneKey,         \* the key that signs the zone
    Flawed,          \* the zones of which a response may have a wrong signature
    Flaws

ASSUME VerifierAssumption ==
    /\ \A z \in Zones : <<>> \in DOMAIN z.data /\ {"SOA", "NS"} \subseteq z.data[<<>>]
    /\ \A z \in Zones : \A o, p \in DOMAIN z.data :
          "NS" \in z.data[o] /\ o # <<>> => ~IsStrictPrefix(o, p)
    /\ \A n, m \in DOMAIN Hash : Hash[n] = Hash[m] => n = m
    /\ Flawed \subseteq Zones

VARIABLES
    RequireAllSignaturesValid,
    zone,
    qname, qtype,
    keys,                \* the zone's DNSKEYs, once verified
    answer, authority,   \* the sections: [rrs, sigs]
    flaw,                \* what is wrong with the signatures
    pc,
    result               \* [state, doe]

question == <<qname, qtype>>
vars == <<RequireAllSignaturesValid, zone, question, keys, answer, authority, flaw, pc, result>>

-----------------------------------------------------------------------------
(* The zone: its denial records and its answers.                           *)

Owners(z) == DOMAIN z.data

\* The record after x in the circle of S, for the order (a set of pairs).
Following(x, S, order) ==
    LET after == {y \in S : <<x, y>> \in order}
        from  == IF after = {} THEN S ELSE after
    IN  CHOOSE y \in from : \A w \in from : y = w \/ <<y, w>> \in order

NsecChain(z) ==
    LET order == {p \in Owners(z) \X Owners(z) : CanonicalLess(p[1], p[2])} IN
    {[owner |-> o, next |-> Following(o, Owners(z), order), types |-> z.data[o]] :
        o \in Owners(z)}

Exists(z, name) == \E o \in Owners(z) : IsPrefix(name, o)

\* With opt-out, unsigned delegations have no NSEC3 records; empty
\* non-terminals do.
Hashed(z) ==
    UNION {{SubSeq(o, 1, n) : n \in 0..Len(o)} : o \in Owners(z)}
        \ {o \in Owners(z) : z.denial = "OptOut" /\ z.data[o] = {"NS"}}

Nsec3Chain(z) ==
    LET hashes == {Hash[n] : n \in Hashed(z)}
        order  == {p \in hashes \X hashes : p[1] < p[2]} IN
    {[hash |-> Hash[n], next |-> Following(Hash[n], hashes, order),
      types |-> IF n \in Owners(z) THEN z.data[n] ELSE {},
      alg |-> IF z.denial = "Other" THEN "other" ELSE "SHA1",
      flags |-> IF z.denial = "OptOut" THEN 1 ELSE 0] : n \in Hashed(z)}

RR(name, type, data) == [name |-> name, type |-> type, data |-> data]

\* The owner name of an NSEC3 record is none of the zone's other names.
DenialRecords(z) ==
    IF z.denial = "NSEC" THEN {RR(r.owner, "NSEC", r) : r \in NsecChain(z)}
    ELSE {RR(<<1000 + r.hash>>, "NSEC3", r) : r \in Nsec3Chain(z)}

\* The Labels field does not count the asterisk of an owner.
Labels(owner) == IF owner # <<>> /\ Last(owner) = Star THEN Len(owner) - 1 ELSE Len(owner)

RRSIG(name, type, labels) ==
    [name |-> name, rtype |-> type, labels |-> labels, tag |-> ZoneKey.tag, by |-> ZoneKey,
     fault |-> "none"]

Signed(rrs) ==
    [rrs |-> rrs, sigs |-> {RRSIG(rr.name, rr.type, Labels(rr.name)) : rr \in rrs}]

\* A signature of the section that is lost, or fails one of the checks, or
\* comes with another one by a key that is not in the zone, or is there for a
\* name without records, or for other types: then the counts may still agree.
Spoilt(section, sig, f) ==
    LET others == section.sigs \ {sig} IN
    [section EXCEPT !.sigs =
        CASE f = "missing" -> others
          [] f = "extra"   -> section.sigs \cup {[sig EXCEPT !.by = None, !.tag = 0]}
          [] f = "altered" -> others \cup {[sig EXCEPT !.by = None]}
          [] f = "labels"  -> others \cup {[sig EXCEPT !.labels = Len(sig.name) + 1]}
          [] f = "header"  -> others \cup {[sig EXCEPT !.fault = f]}
          [] f = "renamed" -> others \cup {[sig EXCEPT !.name = Append(@, Star), !.by = None]}
          [] f = "retyped" -> others \cup
                {[sig EXCEPT !.rtype = t, !.by = None] : t \in {s.rtype : s \in others} \ {sig.rtype}}]

NoSection == [rrs |-> {}, sigs |-> {}]

-----------------------------------------------------------------------------
Init ==
    /\ RequireAllSignaturesValid \in BOOLEAN
    /\ zone \in Zones
    /\ qname \in QNames /\ qtype \in QTypes
    /\ keys = {}
    /\ answer = NoSection /\ authority = NoSection
    /\ flaw = "none"
    /\ pc = "keys"
    /\ result = None

Return(state, doe) ==
    /\ pc' = "done"
    /\ result' = [state |-> state, doe |-> doe]

KeySigningKeys(zoneKeys) == zoneKeys \cap DelegationKeys

\* The zone's keys must be signed by one that the parent vouches for.
verifyDNSKEYs(section) ==
    LET zoneKeys == {rr.data : rr \in section.rrs}
        ksk      == KeySigningKeys(zoneKeys) IN
    /\ pc = "keys"
    /\ IF ksk = {} THEN Return("Insecure", "NotFound") /\ UNCHANGED keys
       ELSE IF CountsAgree(section, FALSE)
               /\ Verify(Authenticated(section, ksk), RequireAllSignaturesValid)
       THEN pc' = "respond" /\ keys' = zoneKeys /\ UNCHANGED result
       ELSE Return("Bogus", "NotFound") /\ UNCHANGED keys
    /\ UNCHANGED <<RequireAllSignaturesValid, zone, question, answer, authority, flaw>>

\* The response, as it is or with one of its signatures spoilt.
Respond(ans, auth) ==
    /\ pc = "respond"
    /\ pc' = "rrsets"
    /\ \/ answer' = ans /\ authority' = auth /\ UNCHANGED flaw
       \/ /\ zone \in Flawed
          /\ \E f \in Flaws, sig \in ans.sigs \cup auth.sigs :
                /\ flaw' = f
                /\ answer' = IF sig \in ans.sigs THEN Spoilt(ans, sig, f) ELSE ans
                /\ authority' = IF sig \in ans.sigs THEN auth ELSE Spoilt(auth, sig, f)
    /\ UNCHANGED <<RequireAllSignaturesValid, zone, question, keys, result>>

RespondNegative(proof) ==
    Respond(NoSection, Signed(proof \cup {RR(<<>>, "SOA", None)}))

\* A record set of the name, or of a wildcard, under the name.
RespondPositive(owner, type, proof) ==
    /\ \/ owner = qname
       \/ owner # <<>> /\ Last(owner) = Star /\ IsPrefix(Front(owner), qname) /\ Len(owner) <= Len(qname)
    /\ Respond([rrs |-> {RR(qname, type, None)}, sigs |-> {RRSIG(qname, type, Labels(owner))}],
               Signed(proof))

Delegations(z) == {o \in Owners(z) \ {<<>>} : "NS" \in z.data[o]}

\* NS records are not signed; DS records are, and make a proof unnecessary.
\* NS records of other delegations may come along.
RespondDelegation(owner, proof) ==
    LET ds == IF "DS" \in zone.data[owner] THEN {RR(owner, "DS", None)} ELSE {}
        signed == Signed(proof \cup ds) IN
    /\ owner \in Delegations(zone) /\ IsPrefix(owner, qname)
    /\ \E owners \in {{owner}, Delegations(zone)} :
          Respond(NoSection, [signed EXCEPT !.rrs = @ \cup {RR(o, "NS", None) : o \in owners}])

\* Nothing, or nothing but denial records.
RespondBare == \E proof \in {{}, DenialRecords(zone)} : Respond(NoSection, Signed(proof))

-----------------------------------------------------------------------------
(* verify, from the record sets on.                                        *)

verifyRRSETs ==
    LET sigs == Authenticated(answer, keys) \cup Authenticated(authority, keys) IN
    /\ pc = "rrsets"
    /\ IF CountsAgree(answer, FALSE) /\ CountsAgree(authority, TRUE)
          /\ Verify(sigs, RequireAllSignaturesValid)
       THEN pc' = "validate" /\ UNCHANGED result
       ELSE Return("Bogus", "NotFound")
    /\ UNCHANGED <<RequireAllSignaturesValid, zone, question, keys, answer, authority, flaw>>

SectionSigs(section) == Authenticated(section, keys)
nsec == Extract(SectionSigs(authority), "NSEC")
nsec3 == NewDenialOfExistenceNSEC3(Extract(SectionSigs(authority), "NSEC3"))

OfType(section, type) == {rr \in section.rrs : rr.type = type}
HasType(section, type) == OfType(section, type) # {}
recordsHaveTheSameOwner(rrs) == \A rr, other \in rrs : rr.name = other.name

\* The first of the proofs, a sequence of <<name, holds>>, or NotFound.
FirstProof(proofs) ==
    LET given == SelectSeq(proofs, LAMBDA p : p[2])
    IN  IF given = <<>> THEN "NotFound" ELSE given[1][1]

ReturnProof(doe) == Return(IF doe = "NotFound" THEN "Bogus" ELSE "Secure", doe)

validateDelegatingResponse ==
    LET nsRecords == OfType(authority, "NS")
        owner == (CHOOSE ns \in nsRecords : TRUE).name
        unsigned(records) ==
            SeenWith(records, {"NS"}) /\ SeenWithout(records, {"CNAME", "DS", "SOA"}) IN
    /\ pc = "validate"
    /\ ~HasType(authority, "SOA") /\ answer.rrs = {} /\ HasType(authority, "NS")
    /\ IF Extract(SectionSigs(authority), "DS") # {} THEN Return("Secure", "NotFound")
       ELSE IF ~recordsHaveTheSameOwner(nsRecords) THEN Return("Bogus", "NotFound")
       ELSE ReturnProof(FirstProof(<<
            <<"NsecMissingDS", unsigned(NsecOf(nsec, owner))>>,
            <<"Nsec3MissingDS", unsigned(Nsec3Of(nsec3, owner))>>,
            <<"Nsec3OptOut", PerformClosestEncloserProof(nsec3, owner).optedOut>> >>))
    /\ UNCHANGED <<RequireAllSignaturesValid, zone, question, keys, answer, authority, flaw>>

\* An expanded wildcard needs the proof that the name itself is not there.
validatePositiveResponse ==
    LET wildcards == {s \in SectionSigs(answer) : s.wildcard}
        s == CHOOSE w \in wildcards : TRUE
        doe == IF wildcards = {} THEN "NotFound" ELSE FirstProof(<<
            <<"Nsec3Wildcard", Nsec3ExpandedWildcardProof(nsec3, s.name, s.labels)>>,
            <<"NsecWildcard", NsecExpandedWildcardProof(nsec, qname)>> >>) IN
    /\ pc = "validate"
    /\ ~HasType(authority, "SOA") /\ answer.rrs # {}
    /\ IF wildcards = {} THEN Return("Secure", doe)
       ELSE IF Cardinality(wildcards) > 1 THEN Return("Bogus", doe)
       ELSE ReturnProof(doe)
    /\ UNCHANGED <<RequireAllSignaturesValid, zone, question, keys, answer, authority, flaw>>

\* Mutant: a wildcard that is there without the type does not count.
WildcardDenied_Covered(proof) == proof.wildcard

\* The wildcard of the closest encloser is covered, or lacks the type.
WildcardDenied(proof) ==
    \/ proof.wildcard
    \/ /\ proof.closestEncloser
       /\ SeenWithout(Nsec3Of(nsec3, Append(FindClosestEncloser(nsec3, qname), Star)), {"CNAME", qtype})

validateNegativeResponse ==
    LET proof == PerformClosestEncloserProof(nsec3, qname)
        types == {"CNAME", qtype} IN
    /\ pc = "validate"
    /\ HasType(authority, "SOA")
    /\ ReturnProof(FirstProof(<<
            <<"NsecNoData", SeenWithout(NsecOf(nsec, qname), types)>>,
            <<"NsecNxDomain", PerformQNameDoesNotExistProof(nsec, qname)>>,
            <<"Nsec3NoData", SeenWithout(Nsec3Of(nsec3, qname), types)>>,
            <<"Nsec3OptOut", proof.optedOut /\ qtype = "DS">>,
            <<"Nsec3NxDomain", proof.nextCloser /\ WildcardDenied(proof)>> >>))
    /\ UNCHANGED <<RequireAllSignaturesValid, zone, question, keys, answer, authority, flaw>>

\* ErrFailsafeResponse
Failsafe ==
    /\ pc = "validate"
    /\ answer.rrs = {} /\ ~HasType(authority, "SOA") /\ ~HasType(authority, "NS")
    /\ Return("Bogus", "NotFound")
    /\ UNCHANGED <<RequireAllSignaturesValid, zone, question, keys, answer, authority, flaw>>

Next ==
    \/ \E section \in KeyAnswers : verifyDNSKEYs(section)
    \/ \E proof \in SUBSET DenialRecords(zone) :
          \/ RespondNegative(proof)
          \/ \E owner \in Owners(zone) :
                \/ \E type \in zone.data[owner] \cap {qtype, "CNAME"} : RespondPositive(owner, type, proof)
                \/ RespondDelegation(owner, proof)
    \/ RespondBare
    \/ verifyRRSETs
    \/ validateDelegatingResponse \/ validatePositiveResponse \/ validateNegativeResponse \/ Failsafe

Spec == Init /\ [][Next]_vars

-----------------------------------------------------------------------------
(* Properties.                                                             *)

\* Reference: the longest ancestor of a name in the zone, and whether the
\* zone has records for a question, at the name or by a wildcard.
Encloser(z, name) ==
    SubSeq(name, 1, Max({n \in 0..Len(name) : Exists(z, SubSeq(name, 1, n))}))

HasData(z, name, type) == name \in Owners(z) /\ z.data[name] \cap {type, "CNAME"} # {}

HasAnswer(z, name, type) ==
    IF Exists(z, name) THEN HasData(z, name, type)
    ELSE HasData(z, Append(Encloser(z, name), Star), type)

\* The name of a delegation of the zone that the question is at or below.
Delegated == {o \in Delegations(zone) : IsPrefix(o, qname)}

Proven(doe) == result # None /\ result.doe = doe

\* What the records are accepted as proof of is true of the zone, whichever
\* of its records a response has: NODATA and NXDOMAIN mean that the zone has
\* no answer (NSEC: as far as the wildcard of the parent name goes, the only
\* one looked at), an insecure delegation has no DS records, and a wildcard
\* was expanded for a name without records of its own (NSEC3: and is that of
\* the closest encloser, but for names that have been opted out).
ProofsSound ==
    /\ Proven("NsecNoData") \/ Proven("Nsec3NoData") \/ Proven("Nsec3NxDomain")
          => ~HasAnswer(zone, qname, qtype)
    /\ Proven("NsecNxDomain") =>
          ~HasAnswer(zone, qname, qtype) \/ Len(Encloser(zone, qname)) < Len(qname) - 1
    /\ Proven("NsecMissingDS") \/ Proven("Nsec3MissingDS") =>
          \A o \in Delegated : "DS" \notin zone.data[o]
    /\ Proven("Nsec3OptOut") =>
          \A o \in Delegated : "DS" \notin zone.data[o]
    /\ Proven("NsecWildcard") => qname \notin Owners(zone)
    /\ Proven("Nsec3Wildcard") /\ zone.denial # "OptOut" =>
          \A sig \in answer.sigs : sig.labels = Len(Encloser(zone, qname))

\* A negative response that has all of the zone's denial records, and is as
\* the zone signed it, is never Bogus if the zone really has no answer.  Two
\* exceptions: NSEC3 records of an unknown kind, and an NSEC zone with a
\* wildcard beside the name, for which no NODATA proof is looked for.
TrueDenialAccepted ==
    /\ result # None /\ flaw = "none" /\ HasType(authority, "SOA")
    /\ DenialRecords(zone) \subseteq authority.rrs
    /\ ~HasAnswer(zone, qname, qtype)
    /\ Delegated \subseteq (IF qtype = "DS" THEN {qname} ELSE {})
    /\ zone.denial # "Other"
    /\ zone.denial = "NSEC" => qname \in Owners(zone) \/ wildcardName(qname) \notin Owners(zone)
    => result.state = "Secure"

\* The signatures of a response that were made by a key of the DNSKEY set
\* over records that the section of the signature has.
OwnSigs(section) ==
    {sig \in section.sigs :
        sig.by \in keys /\ \E rr \in section.rrs : rr.name = sig.name /\ rr.type = sig.rtype}

\* Sections are compared with their signatures by number only, and yet with
\* RequireAllSignaturesValid verifyRRSETs lets a response pass only if each
\* of its record sets (but for the NS records of an authority section) has a
\* signature of its own, made by a key of the DNSKEY set.  Without it there
\* only is such a signature for one record set of each type that signatures
\* are for: another set of the type, or of a type without signatures, may
\* have none.
RRsetsSigned ==
    pc = "validate" \/ (pc = "done" /\ result.state = "Secure") =>
        /\ RequireAllSignaturesValid =>
              \A section \in {answer, authority} : \A rr \in section.rrs :
                 \/ rr.type = "NS" /\ section = authority
                 \/ \E sig \in OwnSigs(section) : sig.name = rr.name /\ sig.rtype = rr.type
        /\ \A sig \in answer.sigs \cup authority.sigs :
              \E own \in OwnSigs(answer) \cup OwnSigs(authority) : own.rtype = sig.rtype

=============================================================================
