----------------------------- MODULE MCVerifier -----------------------------
(* Zones of the apex and up to two owners, with the labels * < 1 < 2.       *)
EXTENDS Verifier, TLC

MCNames == {<<Star>>, <<1>>, <<1, Star>>, <<1, 1>>, <<1, 2>>, <<2>>}
MCQNames == MCNames \cup {<<>>, <<1, 1, 1>>}
MCQTypes == {"A", "DS"}

TypeSets(name) ==
    IF Last(name) = Star THEN {{"A"}, {"TXT"}}
    ELSE {{"A"}, {"NS"}} \cup IF Len(name) = 1 THEN {{"CNAME"}, {"NS", "DS"}} ELSE {}

Data ==
    {<<>> :> {"SOA", "NS"} @@ f :
        f \in UNION {UNION {{n :> t @@ m :> u : t \in TypeSets(n), u \in TypeSets(m)} : n, m \in MCNames}}}

WellFormed(data) ==
    \A o, p \in DOMAIN data : "NS" \in data[o] /\ o # <<>> => ~IsStrictPrefix(o, p)

MCZones == [data : {d \in Data : WellFormed(d)}, denial : {"NSEC", "NSEC3", "OptOut"}]
           \cup [data : {<<>> :> {"SOA", "NS"}}, denial : {"NSEC", "NSEC3", "Other"}]

\* A scattering of the names of up to four labels.
MCHash ==
    [n \in UNION {[1..k -> 0..2] : k \in 0..4} |->
        (FoldFunction(LAMBDA l, h : 3 * h + l + 1, 0, n) * 50) % 127]

Key(id, tag) == [id |-> id, tag |-> tag]
MCZoneKey == Key("zsk", 2)
MCDelegationKeys == {Key("ksk", 1), Key("old", 1)}

\* The keys of the zone, of which two have one tag, signed by some of them.
KeySection(ids, signers) ==
    LET all == {Key("ksk", 1), MCZoneKey, Key("twin", 2)} IN
    [rrs  |-> {RR(<<>>, "DNSKEY", k) : k \in {a \in all : a.id \in ids}},
     sigs |-> {[name |-> <<>>, rtype |-> "DNSKEY", labels |-> 0, tag |-> k.tag, by |-> k, fault |-> "none"] :
                  k \in {a \in all : a.id \in signers}}]

MCKeyAnswers ==
    {KeySection({"ksk", "zsk", "twin"}, {"ksk"}), KeySection({"ksk", "zsk", "twin"}, {"zsk"}),
     KeySection({"zsk"}, {"zsk"}), KeySection({"ksk", "zsk"}, {})}

MCFlawed ==
    {z \in MCZones : z.denial \in {"NSEC", "NSEC3"} /\ DOMAIN z.data = {<<>>, <<Star>>, <<1>>}
                     /\ z.data[<<Star>>] = {"A"}}
MCFlaws == {"missing", "extra", "altered", "labels", "header", "renamed", "retyped"}
=============================================================================
