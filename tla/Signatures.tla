----------------------------- MODULE Signatures -----------------------------
(***************************************************************************)
(* The signatures of a section of a response (dnssec/authenticate_rrset.go *)
(* and dnssec/signatures.go).                                              *)
(*                                                                         *)
(* A record is its name, its type and its data.  An RRSIG has the name and *)
(* the type it covers, its Labels field, the tag of its key, the key that  *)
(* made it over the record set as it stands ("by", None if there is none), *)
(* and the check of its header that it fails ("fault", "none" if none).    *)
(***************************************************************************)
EXTENDS Integers, Sequences, FiniteSets

\* Each key with the tag is tried; the library refuses an empty record set.
VerifiedBy(sig, rrset, keys) ==
    rrset # {} /\ \E k \in keys : k.tag = sig.tag /\ k = sig.by

RRset(rrs, sig) == {rr \in rrs : rr.name = sig.name /\ rr.type = sig.rtype}

\* The signer's name, the labels and the period are checked before the keys.
HeaderOK(sig) == sig.fault = "none" /\ Len(sig.name) >= sig.labels

Signature(sig, rrs, keys) ==
    [name |-> sig.name, rtype |-> sig.rtype, labels |-> sig.labels, rrset |-> RRset(rrs, sig),
     wildcard |-> HeaderOK(sig) /\ Len(sig.name) > sig.labels,
     verified |-> HeaderOK(sig) /\ VerifiedBy(sig, RRset(rrs, sig), keys)]

\* The signatures of a section [rrs, sigs].
Authenticated(section, keys) == {Signature(sig, section.rrs, keys) : sig \in section.sigs}

countNameTypeCombinations(sigs) == Cardinality({<<s.name, s.rtype>> : s \in sigs})

\* The record sets that must be signed: all but the NS records of an
\* authority section, unless it has a signature for NS records.
MustBeSigned(section, authority) ==
    {rr \in section.rrs :
        authority /\ rr.type = "NS" => \E sig \in section.sigs : sig.rtype = "NS"}

\* Mutant: record sets are told apart by their types only.
CountsAgree_Types(section, authority) ==
    Cardinality({rr.type : rr \in MustBeSigned(section, authority)})
        = Cardinality({sig.rtype : sig \in section.sigs})

CountsAgree(section, authority) ==
    Cardinality({<<rr.name, rr.type>> : rr \in MustBeSigned(section, authority)})
        = countNameTypeCombinations(section.sigs)

filterOnType(sigs, rtype) == {s \in sigs : s.rtype = rtype}

\* The states of the signatures are kept by type.
verifyOneOrMoreRRSigPerRRSet(sigs) ==
    /\ sigs # {}
    /\ \A s \in sigs : \E v \in filterOnType(sigs, s.rtype) : v.verified

verifyAllRRSigsPerRRSet(sigs) == sigs # {} /\ \A s \in sigs : s.verified

Verify(sigs, RequireAllSignaturesValid) ==
    IF RequireAllSignaturesValid THEN verifyAllRRSigsPerRRSet(sigs)
    ELSE verifyOneOrMoreRRSigPerRRSet(sigs)

\* extractDSRecords, extractNSECRecords and extractNSEC3Records
Extract(sigs, rtype) == UNION {{rr.data : rr \in s.rrset} : s \in filterOnType(sigs, rtype)}

=============================================================================
