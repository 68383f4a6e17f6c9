------------------------------- MODULE Denial -------------------------------
(***************************************************************************)
(* Denial of existence by NSEC and NSEC3 records (dnssec/doe).             *)
(*                                                                         *)
(* A name of a zone is the sequence of its labels below the apex, the one  *)
(* nearest to the apex first, so that the apex is <<>>, an ancestor is a   *)
(* prefix, and the canonical order of names is the order of sequences.     *)
(* Labels are numbers in the order of their octets.  The zone is not the   *)
(* root: its own labels come before all these and do not matter.           *)
(*                                                                         *)
(* An NSEC record is its owner, the next owner and the types at the owner. *)
(* An NSEC3 record has hashes in the place of names, an algorithm and a    *)
(* flag.                                                                   *)
(***************************************************************************)
EXTENDS Integers, Sequences, FiniteSets, FiniteSetsExt, SequencesExt

CONSTANTS
    Hash,     \* the hash of each name, a function into the naturals
    None

Star == 0

-----------------------------------------------------------------------------
(* doe/functions.go                                                        *)

\* canonicalCmp(a, b) < 0
CanonicalLess(a, b) ==
    \E n \in 0..Len(b) - 1 :
        /\ n <= Len(a) /\ SubSeq(a, 1, n) = SubSeq(b, 1, n)
        /\ IF n = Len(a) THEN TRUE ELSE a[n + 1] < b[n + 1]

\* The first label is replaced.  Of the apex this is a name outside the zone,
\* which no proof gets to: no record covers the apex.
wildcardName(name) == Append(Front(name), Star)

-----------------------------------------------------------------------------
(* doe/nsec.go                                                             *)

\* Mutant: the end of the interval counts as covered.
NsecCovers_Next(r, name) ==
    /\ CanonicalLess(r.owner, name)
    /\ r.next = <<>> \/ ~CanonicalLess(r.next, name)

\* The last record of a zone leads back to the apex.
NsecCovers(r, name) ==
    /\ CanonicalLess(r.owner, name)
    /\ r.next = <<>> \/ CanonicalLess(name, r.next)

verifyQNameCovered(nsec, qname) == \E r \in nsec : NsecCovers(r, qname)

NsecWildcardCovered(nsec, qname) == \E r \in nsec : NsecCovers(r, wildcardName(qname))

PerformQNameDoesNotExistProof(nsec, qname) ==
    verifyQNameCovered(nsec, qname) /\ NsecWildcardCovered(nsec, qname)

NsecExpandedWildcardProof(nsec, qname) ==
    verifyQNameCovered(nsec, qname) /\ ~NsecWildcardCovered(nsec, qname)

\* TypeBitMapContainsAnyOf, given the records of the name: the name is seen
\* and none, or one, of the types is.
SeenWithout(records, types) ==
    records # {} /\ \A r \in records : r.types \cap types = {}

SeenWith(records, types) == \E r \in records : r.types \cap types # {}

NsecOf(nsec, name) == {r \in nsec : r.owner = name}

-----------------------------------------------------------------------------
(* NSEC3.Match and NSEC3.Cover of the dns library.                         *)

Match(r, name) == r.hash = Hash[name]

Cover(r, name) ==
    LET h == Hash[name] IN
    IF r.hash = r.next THEN h # r.hash
    ELSE IF r.hash > r.next THEN h > r.hash \/ h < r.next
    ELSE h >= r.hash /\ h < r.next

-----------------------------------------------------------------------------
(* doe/nsec3.go                                                            *)

\* Records with an unknown algorithm or flag are ignored.
NewDenialOfExistenceNSEC3(records) ==
    {r \in records : r.alg = "SHA1" /\ r.flags \in 0..1}

Nsec3Of(nsec3, name) == {r \in nsec3 : Match(r, name)}

\* Covered by one record and matched by none.
Covered(nsec3, name) ==
    Nsec3Of(nsec3, name) = {} /\ \E r \in nsec3 : Cover(r, name)

OptedOut(nsec3, name) ==
    Nsec3Of(nsec3, name) = {} /\ \E r \in nsec3 : Cover(r, name) /\ r.flags = 1

Eligible(r) == "DNAME" \notin r.types /\ ("NS" \in r.types => "SOA" \in r.types)

\* The longest ancestor of the name (or itself) that an eligible record
\* matches, or None.
FindClosestEncloser(nsec3, qname) ==
    LET lengths == {n \in 0..Len(qname) :
                       \E r \in Nsec3Of(nsec3, SubSeq(qname, 1, n)) : Eligible(r)}
    IN  IF lengths = {} THEN None ELSE SubSeq(qname, 1, Max(lengths))

\* One label more than the encloser, unless that is the whole name.
NextCloser(qname, encloser) == SubSeq(qname, 1, Min({Len(qname), Len(encloser) + 1}))

PerformClosestEncloserProof(nsec3, name) ==
    LET ce == FindClosestEncloser(nsec3, name)
        ok == ce # None IN
    [closestEncloser |-> ok,
     optedOut   |-> ok /\ OptedOut(nsec3, NextCloser(name, ce)),
     nextCloser |-> ok /\ Covered(nsec3, NextCloser(name, ce)),
     wildcard   |-> ok /\ Covered(nsec3, Append(ce, Star))]

\* labels: of the signature of the expanded record set.  The wildcard must be
\* neither denied nor, being the source of the answer, proved again.
Nsec3ExpandedWildcardProof(nsec3, name, labels) ==
    LET ce == SubSeq(name, 1, labels)
        wildcard == Append(ce, Star) IN
    /\ ~Covered(nsec3, wildcard) /\ Nsec3Of(nsec3, wildcard) = {}
    /\ Covered(nsec3, NextCloser(name, ce))

=============================================================================
