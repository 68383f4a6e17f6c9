-------------------------- MODULE ResolverExchange --------------------------
(***************************************************************************)
(* The resolution of queries (resolver_exchange.go, domain.go) over the    *)
(* zone store that they share (zones.go, zone.go).                         *)
(*                                                                         *)
(* A query takes from the store the chain of zones it knows for its name,  *)
(* asks for their DS records, and then goes down the labels of the name:   *)
(* it skips a label whose zone is in the store, and otherwise asks the     *)
(* zone it has reached, whose answer is a referral to a zone below (that   *)
(* goes into the store) or the end.  Queries run concurrently, and zones   *)
(* expire.                                                                 *)
(*                                                                         *)
(* The queries' names are ancestors of each other, so a name is its label  *)
(* count, as in Authenticator.  Servers are honest: they answer from the   *)
(* deepest of their zones that holds the name.  A pool is abstracted to    *)
(* its expiry time, and createZone to its success or failure               *)
(* (NameserverPool has the details).                                       *)
(***************************************************************************)
EXTENDS Integers, Sequences, FiniteSets, FiniteSetsExt

CONSTANTS
    Query,                 \* goroutines that call exchange
    N,                     \* the label count of the longest name
    QNames,                \* the names that are queried
    Flags,                 \* "DO" and "plain", or one of them
    Cuts,                  \* the names that are zones
    Servers,               \* the nameservers of each zone
    Lifetimes,             \* for how long a referral may be kept
    MaxQueriesPerRequest,
    MaxTime,               \* bound on the clock
    None                   \* no zone

Position == 0..N

ASSUME ExchangeAssumption ==
    /\ N \in Nat
    /\ QNames \subseteq Position
    /\ Flags \subseteq {"DO", "plain"}
    /\ Cuts \subseteq Position /\ 0 \in Cuts
    /\ DOMAIN Servers = Cuts
    /\ Lifetimes \subseteq Nat \ {0}
    /\ MaxQueriesPerRequest \in Nat
    /\ MaxTime \in Nat
    /\ None \notin [name : Position, parent : Position, expires : Nat]

VARIABLES
    now,
    store,     \* zones.zones
    pc,        \* where each query is
    qname,     \* the name it is about
    do,        \* "DO" if it has an authenticator, else "plain"
    at,        \* domain.currentIdx (in getZoneList: the next label to look up)
    zone,      \* z: the zone it has reached
    counter,   \* the loop iterations it has used
    response,  \* the response it is working on: kind and deepest owner name
    inputs,    \* what it gave to its authenticator: the zone that was asked,
               \* and the name that was asked about or referred to
    unlinked,  \* history: the zones whose DS query for it failed
    skipped,   \* history: the queries that skipped a label without an input
    soaFailed  \* history: whether a SOA query about an existing zone failed

session == <<qname, do>>
history == <<unlinked, skipped, soaFailed>>
vars == <<now, store, pc, qname, do, at, zone, counter, response, inputs, history>>

Zone(name, parent, expires) == [name |-> name, parent |-> parent, expires |-> expires]

\* zone.expired, that is pool.expired: the root's expiry is 0.
Expired(z) == z.expires > 0 /\ z.expires < now

\* zones.get
get(name) == IF store[name] = None \/ Expired(store[name]) THEN None ELSE store[name]

-----------------------------------------------------------------------------
(* domain.go: the labels of a query's name.                                *)

current(q) == Min({at[q], qname[q]})
more(q) == at[q] <= qname[q] + 1
last(q) == at[q] >= qname[q]

\* gap: the names from the current one up to a longer one.
gap(q, owner) == IF owner > current(q) THEN at[q]..owner - 1 ELSE {}

-----------------------------------------------------------------------------
(* The servers: what an exchange with zone z brings for a name.            *)

Hosted(z) == {c \in Cuts : Servers[c] = Servers[z]}
Deepest(z, name) == Max({c \in Hosted(z) : c <= name})
Below(z, name) == {c \in Cuts : Deepest(z, name) < c /\ c <= name}

\* A negative response has the SOA record of its zone, and NSEC records of
\* the queried name, or of names that are not on the path (0: gap is empty).
Responses(z, name) ==
    IF Below(z, name) # {} THEN [kind : {"referral"}, owner : {Min(Below(z, name))}]
    ELSE [kind : {"positive"}, owner : {name}]
         \cup [kind : {"negative"}, owner : {0, Deepest(z, name), name}]

-----------------------------------------------------------------------------
Init ==
    /\ now = 1
    /\ store = [p \in Position |-> IF p = 0 THEN Zone(0, 0, 0) ELSE None]
    /\ pc = [q \in Query |-> "idle"]
    /\ qname = [q \in Query |-> 0]
    /\ do = [q \in Query |-> "plain"]
    /\ at = [q \in Query |-> 0]
    /\ zone = [q \in Query |-> None]
    /\ counter = [q \in Query |-> 0]
    /\ response = [q \in Query |-> None]
    /\ inputs = [q \in Query |-> <<>>]
    /\ unlinked = [q \in Query |-> {}]
    /\ skipped = {}
    /\ soaFailed = FALSE

Tick ==
    /\ now < MaxTime
    /\ now' = now + 1
    /\ UNCHANGED <<store, pc, session, at, zone, counter, response, inputs, history>>

Goto(q, label) == pc' = [pc EXCEPT ![q] = label]

\* A query may follow an earlier one: the store is what remains of it.
Begin(q, name, flag) ==
    /\ pc[q] \in {"idle", "answered", "failed"}
    /\ Goto(q, "listing")
    /\ qname' = [qname EXCEPT ![q] = name]
    /\ do' = [do EXCEPT ![q] = flag]
    /\ at' = [at EXCEPT ![q] = 0]
    /\ zone' = [zone EXCEPT ![q] = None]
    /\ counter' = [counter EXCEPT ![q] = 0]
    /\ response' = [response EXCEPT ![q] = None]
    /\ inputs' = [inputs EXCEPT ![q] = <<>>]
    /\ unlinked' = [unlinked EXCEPT ![q] = {}]
    /\ skipped' = skipped \ {q}
    /\ UNCHANGED <<now, store, soaFailed>>

\* addResponse
GiveAuth(q, asked, about) ==
    inputs' = IF do[q] = "DO" THEN [inputs EXCEPT ![q] = Append(@, <<asked, about>>)] ELSE inputs

\* addDelegationSignerLink: its input is what the DS query to the zone
\* brings, if that succeeds.
LinkDS(q, asked, about) ==
    \/ GiveAuth(q, asked, about) /\ UNCHANGED unlinked
    \/ /\ do[q] = "DO"
       /\ unlinked' = [unlinked EXCEPT ![q] = @ \cup {asked}]
       /\ UNCHANGED inputs

\* Mutant: the labels of the known zones are not wound past.
Wind_Root(q) == Goto(q, "looping") /\ at' = [at EXCEPT ![q] = 0]

\* The end of getZoneList: wind to the deepest known zone.
Wind(q) == Goto(q, "looping") /\ at' = [at EXCEPT ![q] = zone'[q].name]

\* On to the next label, or to the end of getZoneList.
NextListed(q) ==
    IF at[q] = qname[q] THEN Wind(q) ELSE at' = [at EXCEPT ![q] = @ + 1] /\ UNCHANGED pc

\* Mutant: getZoneList does not look at the parents.
Joins_Any(q, z) == TRUE

\* The zone continues the list: its parent is the last zone of the list.
Joins(q, z) == IF zone[q] = None THEN TRUE ELSE z.parent = zone[q].name

\* One label of getZoneList: skip a missing or expired zone, stop at one
\* that does not continue the list.  For every two zones of the list,
\* exchange then starts addDelegationSignerLink.
ListZone(q) ==
    LET z == get(at[q]) IN
    /\ pc[q] = "listing"
    /\ CASE z = None -> UNCHANGED <<zone, inputs, unlinked>> /\ NextListed(q)
         [] z # None /\ ~Joins(q, z) -> UNCHANGED <<zone, inputs, unlinked>> /\ Wind(q)
         [] z # None /\ Joins(q, z) ->
                /\ zone' = [zone EXCEPT ![q] = z]
                /\ IF zone[q] = None THEN UNCHANGED <<inputs, unlinked>>
                   ELSE LinkDS(q, zone[q].name, z.name)
                /\ NextListed(q)
    /\ UNCHANGED <<now, store, session, counter, response, skipped, soaFailed>>

-----------------------------------------------------------------------------
(* The loop of exchange.                                                   *)

\* The end of the labels, or of the budget.
GiveUp(q) ==
    /\ pc[q] = "looping"
    /\ ~more(q) \/ counter[q] + 1 > MaxQueriesPerRequest
    /\ Goto(q, "failed")
    /\ counter' = [counter EXCEPT ![q] = IF more(q) THEN @ + 1 ELSE @]
    /\ UNCHANGED <<now, store, session, at, zone, response, inputs, history>>

Iterates(q) ==
    /\ pc[q] = "looping"
    /\ more(q) /\ counter[q] + 1 <= MaxQueriesPerRequest
    /\ counter' = [counter EXCEPT ![q] = @ + 1]

\* Mutant: the last label is skipped as well when the store has its zone.
SkipLabel_Last(q) ==
    LET next == get(current(q)) IN
    /\ Iterates(q)
    /\ next # None
    /\ zone' = [zone EXCEPT ![q] = next]
    /\ at' = [at EXCEPT ![q] = @ + 1]
    /\ skipped' = IF next.name = zone[q].name THEN skipped ELSE skipped \cup {q}
    /\ UNCHANGED <<now, store, pc, session, response, inputs, unlinked, soaFailed>>

\* The store has the zone of this label: continue from there.
SkipLabel(q) ==
    LET next == get(current(q)) IN
    /\ Iterates(q)
    /\ next # None /\ ~last(q)
    /\ zone' = [zone EXCEPT ![q] = next]
    /\ at' = [at EXCEPT ![q] = @ + 1]
    /\ skipped' = IF next.name = zone[q].name THEN skipped ELSE skipped \cup {q}
    /\ UNCHANGED <<now, store, pc, session, response, inputs, unlinked, soaFailed>>

ResolveLabel(q) ==
    /\ Iterates(q)
    /\ get(current(q)) = None \/ last(q)
    /\ Goto(q, "asking")
    /\ UNCHANGED <<now, store, session, at, zone, response, inputs, history>>

-----------------------------------------------------------------------------
(* resolveLabel: ask the zone, check for missing zones, go on or finish.   *)

\* The exchange fails or is empty.
AskFails(q) ==
    /\ pc[q] = "asking"
    /\ Goto(q, "failed")
    /\ UNCHANGED <<now, store, session, at, zone, counter, response, inputs, history>>

Ask(q) ==
    /\ pc[q] = "asking"
    /\ \E r \in Responses(zone[q].name, qname[q]) :
          /\ response' = [response EXCEPT ![q] = r]
          /\ Goto(q, IF gap(q, r.owner) = {} THEN "responded" ELSE "missing")
    /\ UNCHANGED <<now, store, session, at, zone, counter, inputs, history>>

\* checkForMissingZones goes on to the next name of the gap.
NextMissing(q) ==
    /\ at' = [at EXCEPT ![q] = @ + 1]
    /\ Goto(q, IF at[q] + 1 = response[q].owner THEN "responded" ELSE "missing")

\* No SOA record is found at the name: it is no zone of these servers, or
\* the exchange failed.
NoZoneMissing(q) ==
    /\ pc[q] = "missing"
    /\ NextMissing(q)
    /\ soaFailed' = (soaFailed \/ at[q] \in Hosted(zone[q].name))
    /\ UNCHANGED <<now, store, session, zone, counter, response, inputs, unlinked, skipped>>

\* Mutant: clone without its check.
MissingZone_Unchecked(q) ==
    LET z == zone[q]
        new == Zone(at[q], z.name, z.expires) IN
    /\ pc[q] = "missing" /\ at[q] \in Hosted(z.name)
    /\ LinkDS(q, z.name, new.name)
    /\ store' = [store EXCEPT ![new.name] = new]
    /\ zone' = [zone EXCEPT ![q] = new]
    /\ NextMissing(q)
    /\ UNCHANGED <<now, session, counter, response, skipped, soaFailed>>

\* Mutant: the walk does not go on from the clone.
MissingZone_Stays(q) ==
    LET z == zone[q]
        new == Zone(at[q], z.name, z.expires) IN
    /\ pc[q] = "missing" /\ at[q] \in Hosted(z.name)
    /\ at[q] > z.name
    /\ LinkDS(q, z.name, new.name)
    /\ store' = [store EXCEPT ![new.name] = new]
    /\ NextMissing(q)
    /\ UNCHANGED <<now, session, zone, counter, response, skipped, soaFailed>>

\* The SOA record is found: clone the zone, which shares the pool.
MissingZone(q) ==
    LET z == zone[q]
        new == Zone(at[q], z.name, z.expires) IN
    /\ pc[q] = "missing" /\ at[q] \in Hosted(z.name)
    /\ at[q] > z.name
    /\ LinkDS(q, z.name, new.name)
    /\ store' = [store EXCEPT ![new.name] = new]
    /\ zone' = [zone EXCEPT ![q] = new]
    /\ NextMissing(q)
    /\ UNCHANGED <<now, session, counter, response, skipped, soaFailed>>

\* clone panics when the new zone is no child of the zone.
InvalidClone(q) ==
    /\ pc[q] = "missing" /\ at[q] \in Hosted(zone[q].name)
    /\ at[q] <= zone[q].name
    /\ Goto(q, "panic")
    /\ UNCHANGED <<now, store, session, at, zone, counter, response, inputs, history>>

\* Mutant: the loop stays at the label of the new zone.
processDelegation_SameLabel(q, life) ==
    LET new == Zone(response[q].owner, zone[q].name, now + life) IN
    /\ pc[q] = "responded" /\ response[q].kind = "referral"
    /\ new.name > zone[q].name
    /\ GiveAuth(q, zone[q].name, new.name)
    /\ store' = [store EXCEPT ![new.name] = new]
    /\ zone' = [zone EXCEPT ![q] = new]
    /\ Goto(q, "looping")
    /\ UNCHANGED <<now, session, at, counter, response, history>>

processDelegation(q, life) ==
    LET new == Zone(response[q].owner, zone[q].name, now + life) IN
    /\ pc[q] = "responded" /\ response[q].kind = "referral"
    /\ new.name > zone[q].name
    /\ GiveAuth(q, zone[q].name, new.name)
    /\ store' = [store EXCEPT ![new.name] = new]
    /\ zone' = [zone EXCEPT ![q] = new]
    /\ at' = [at EXCEPT ![q] = @ + 1]
    /\ Goto(q, "looping")
    /\ UNCHANGED <<now, session, counter, response, history>>

\* The referral does not lead down, or createZone fails.
DelegationFails(q) ==
    /\ pc[q] = "responded" /\ response[q].kind = "referral"
    /\ GiveAuth(q, zone[q].name, response[q].owner)
    /\ Goto(q, "failed")
    /\ UNCHANGED <<now, store, session, at, zone, counter, response, history>>

\* finaliseResponse, as far as it is about this query alone.
Finalise(q) ==
    /\ pc[q] = "responded" /\ response[q].kind # "referral"
    /\ GiveAuth(q, zone[q].name, qname[q])
    /\ Goto(q, "answered")
    /\ UNCHANGED <<now, store, session, at, zone, counter, response, history>>

-----------------------------------------------------------------------------
Step(q) ==
    \/ ListZone(q)
    \/ GiveUp(q) \/ SkipLabel(q) \/ ResolveLabel(q)
    \/ AskFails(q) \/ Ask(q)
    \/ NoZoneMissing(q) \/ MissingZone(q) \/ InvalidClone(q)
    \/ \E life \in Lifetimes : processDelegation(q, life)
    \/ DelegationFails(q) \/ Finalise(q)

Next ==
    \/ Tick
    \/ \E q \in Query : Step(q) \/ \E name \in QNames, flag \in Flags : Begin(q, name, flag)

Spec == Init /\ [][Next]_vars

-----------------------------------------------------------------------------
(* Properties.                                                             *)

ZoneRecord == [name : Position, parent : Position, expires : Nat]

\* The type invariant of the store and of the queries.
TypeOK ==
    /\ now \in Nat
    /\ store \in [Position -> ZoneRecord \cup {None}]
    /\ pc \in [Query -> {"idle", "listing", "looping", "asking", "missing", "responded",
                         "answered", "failed", "panic"}]
    /\ qname \in [Query -> Position]
    /\ do \in [Query -> {"DO", "plain"}]
    /\ at \in [Query -> 0..N + 1]
    /\ zone \in [Query -> ZoneRecord \cup {None}]
    /\ counter \in [Query -> 0..MaxQueriesPerRequest + 1]
    /\ response \in [Query -> [kind : {"referral", "positive", "negative"}, owner : Position] \cup {None}]
    /\ inputs \in [Query -> Seq(Position \X Position)]
    /\ unlinked \in [Query -> SUBSET Position]
    /\ skipped \subseteq Query /\ soaFailed \in BOOLEAN

\* The store holds zones only, each under its own name and below its
\* parent, and the root with its pool that never expires ("The last element
\* will always be the root"): no interleaving of queries files a zone wrongly.
StoreSound ==
    /\ store[0] = Zone(0, 0, 0)
    /\ \A p \in Position \ {0} :
          store[p] # None => p \in Cuts /\ store[p].name = p
                             /\ store[p].parent \in Cuts /\ store[p].parent < p

\* "Ensure we are not passed more than one response for any given zone": no
\* query gives its authenticator two inputs of one zone.
OneInputPerZone ==
    \A q \in Query : \A i, j \in DOMAIN inputs[q] : inputs[q][i][1] = inputs[q][j][1] => i = j

\* The inputs of q's authenticator cover the zones from the root to c, but
\* for those whose DS query failed.
Covered(q, c) ==
    \A z \in {x \in Cuts : x <= c} \ unlinked[q] :
        \E i \in DOMAIN inputs[q] : inputs[q][i][1] = z

\* No servers have a zone and one further down without those in between.
Contiguous ==
    \A c, d, e \in Cuts : c < d /\ d < e /\ Servers[c] = Servers[e] => Servers[d] = Servers[c]

\* There are only five ways to miss a zone of the chain: its DS query fails
\* (addDelegationSignerLink then gives no input, and no other zone is
\* missed), a label is skipped because the store has its zone although the
\* list did not, a SOA query for a missing zone fails, the last zone is on
\* the servers of the one above it, or servers leave out a zone between two
\* of theirs.  In particular neither the gaps that referrals leave nor zones
\* that expire on the way make a hole by themselves.
GapExcused ==
    \A q \in Query :
        Contiguous /\ pc[q] = "answered" /\ do[q] = "DO" /\ q \notin skipped /\ ~soaFailed =>
            Covered(q, zone[q].name)

\* A query goes down: the zone it asks is never above one it asked before,
\* and is an ancestor of its name and of the label it has reached.
WalkDescends ==
    /\ [][\A q \in Query : pc[q] \in {"looping", "missing", "responded"} =>
             zone'[q].name >= zone[q].name]_vars
    /\ [](\A q \in Query : pc[q] \in {"looping", "asking"} =>
             zone[q].name <= at[q] /\ zone[q].name <= qname[q])

\* clone: panic("invalid clone") never happens.
NoInvalidClone == \A q \in Query : pc[q] # "panic"

\* clone is invalid at most where the list ended: in the first iteration of
\* the loop, for the zone that windTo stopped at and that zones.get no
\* longer returns.  On the way down it is always a child that is cloned,
\* whatever expires or is replaced in the meantime.
PanicOnlyAtFirstLabel ==
    \A q \in Query : pc[q] = "panic" => counter[q] = 1 /\ at[q] = zone[q].name

\* The loop of exchange never runs out of labels, so its last line
\* (ErrUnableToResolveAnswer) is not reached: a query ends with a response,
\* a failed exchange, the panic of clone or the end of its budget.  And every
\* iteration leads to another label, so no walk spends more of the budget
\* than its name has labels and one, whatever the others put into the store.
LabelsSuffice ==
    \A q \in Query : pc[q] = "looping" => more(q) /\ counter[q] <= at[q]

=============================================================================
