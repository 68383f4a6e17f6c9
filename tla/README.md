# A TLA+ model of the resolver

The repository is a recursive DNS resolver in Go with DNSSEC validation, and a
server with a cache and prefetching on top of it. This directory holds TLA+
modules for its concurrent and protocol parts, TLC configurations that check
them on small instances, and TLAPS proofs of the safety properties of nine of
the components.

## 1. The system

| Part | Source | State | Operations |
|---|---|---|---|
| DNS cache | server.go 31-92, 366-614 | 32 shards: two maps and a recency list, each shard with an RWMutex | get, set, setNegative, ensureCapacity, evictEntry, Clear, cleaner |
| Nameserver pool | pool.go, pool_exchange.go, nameserver.go, ipv6.go | address slices, atomic counters and round-robin indexes, expiry | newNameserverPool, enrich, status, exchange |
| Zone creation | zone_factory.go | the goroutine and channel of an enrichment | createZone, enrichPool |
| Chain authenticator | dnssec/ | buffer of responses by position in the chain, results | AddResponse, processResponse, verify, Result |
| Authentication queue | auth.go | channel, WaitGroup, errors | addResponse, addDelegationSignerLink, start, result, close |
| Zone walk | resolver_exchange.go, domain.go, zone.go, zones.go | the shared, expiring store of zones; position, zone and counter of a query | exchange, getZoneList, resolveLabel, checkForMissingZones, processDelegation |
| CNAME following | cname.go, resolver_exchange.go 256-387 | goroutines and channels of one response, the cache | finaliseResponse, cname |
| Server | server.go | queue, workers, popularity counters, shared validator | handleDNS, worker, processQuery, recordAccess, prefetchRecord, prefetchAllDomains |
| Signatures, denial of existence | dnssec/signatures.go, dnssec/authenticate_rrset.go, dnssec/doe/, dnssec/verify*.go | none | checks on the records of a response |
| DNSKEY cache of a zone | zone.go 133-171 | keys and expiry under a mutex | dnskeys |
| Fast resolver and pool | fast_resolver.go, fast_pool.go, cmd/optimized_server_main.go | channels, wait group, prefetch queue, a cache | ExchangeWithOptimization, prefetchWorker, exchangeWithFallback, selectBestServers |
| Configuration, hints, helpers, other commands | config.go, root.go, functions.go, trace.go, cmd/ | constants | - |

How they interact: a worker of the server looks in the cache and otherwise runs
a zone walk. The walk takes known zones from the store, asks their pools, makes
zones (and so pools) from referrals, and hands every response to the
authentication queue, which feeds the chain authenticator. At the end the
response is finalised, which follows CNAMEs by walks of their own and through
the same cache. Prefetches run the same walk in the background. Authentication
needs the DNSKEY records of a zone, which every query that passes through the
zone shares. The fast resolver is a second, forwarding resolver with a server of
its own.

What is hard in it: list updates under a read lock; counters read apart from
the slices they count; responses that reach the authenticator in any order;
zones that expire between two looks at the store; channels that are closed
while goroutines may still send; a lock that is held across an exchange; a
prefetch queue that its own consumer fills; intervals of names and hashes that
wrap around; one cache entry that serves queries with and without the DO bit.
`PROJECT.json` lists these hazards with their lines.

## 2. The modules

Each component has a module, an `MC` module with the values for TLC, and its
`.cfg` files. State variables bear the names of the fields they stand for where
TLA+ allows it, and an action bears the name of its function or of the step of
it. The map in `PROJECT.json` gives the source lines of every definition.
Operators with an underscore in their names and the comment "Mutant" are
variants of a definition with a plausible bug. No specification uses them; each
property is known to fail when one of them takes the definition's place.

**DnsCache.** An entry is its expiry time. A call is a process that takes the
shard's lock and works in steps. `get` changes the list while it holds the lock
for reading, so its updates are two steps (`TouchBegin`/`TouchEnd`,
`EvictBegin`/`EvictEnd`), and when two of them overlap the list becomes any of
`ListOutcomes` and the shard is recorded in `raced`. All properties but
`CapacityHeld` speak of shards without such an overlap; what the overlap does is
left open, as in Go.

**LruCache** is the abstract specification of a cache: per shard a sequence of
keys in the order of their last use, and what may be done to it (use a key,
drop keys, insert one at the front while there is room). `DnsCache` has an
`INSTANCE` of it whose sequences are its lists, and `ImplementsLru` is the
abstract specification as a property of the detailed one.

**NameserverPool.** A slice is its length. `createZone`, the goroutine of
`enrichPool` and its select interleave with readers, whose `exchange` is split
at each atomic load and store.

**Authenticator.** Names are label counts along the name of the question. A
message carries what its signatures, keys, DS records and denial records
establish; the module has all decisions that the code takes from there.

**AuthQueue** extends Authenticator with the goroutines of auth.go; its own
state machine is `QueueInit`, `QueueNext` and `QueueSpec`. Channel operations, WaitGroup operations and each step of AddResponse
are steps of their own.

**ResolverExchange.** Zones and names are label counts; a pool is its expiry.
The servers are the environment: they answer from the deepest zone they hold. A
DS link (`LinkDS`) gives the authenticator an input only if its query succeeds;
`unlinked`, `skipped` and `soaFailed` record why a zone may be missing.

**CnameFollow.** A response is its authentication result, Rcode, AA and AD bits
(that of the name server, at first) and the set of parts it has been merged from.

**Server.** The cache is a map of messages with an expiry, from which entries
may also be evicted at any time (module DnsCache has the mechanism). An exchange
is an outcome, an answer or an error: a panic in it would end the process, so
that `EveryRequestReplied` holds as long as none panics (see `NoInvalidClone`).
The CNAME look-ups of an exchange may fill the cache too.

**ZoneKeys.** The DNSKEY records are their smallest TTL and the time they came.
A caller waits for the lock, finds the records valid or asks with the lock held,
and leaves by one of the returns of `dnskeys`. `emptied` is a history variable.

**FastPool.** One call, either of exchangeWithFallback or of selectBestServers,
with a goroutine per server, the goroutine that closes the channels, and both
channels with their buffers. A `select` with several cases ready takes any.

**FastResolver.** Clients and the prefetch worker run the same call. Answers are
successes or failures; the cache may lose entries, as its interface allows.

**Denial** and **Signatures** have the record-level checks as operators. A name
is the sequence of its labels below the apex, an NSEC3 hash a number, and a
signature the key that made it. **Verifier** applies them, in the order of
verify.go, to the responses of a signed zone: the zone has data and a chain of
denial records, its servers put any of these into a response, and one signature
may be missing, altered, doubled by another, wrong in its header, or there for
another name or type than that of its records. The reference
definitions are those of the zone: what exists in it, which name is the closest
encloser, what a wildcard answers.

## 3. What is checked

Bounds are small sets of goroutines, two being enough for each pairwise race
named above, and a clock that runs just past the shortest lifetimes.

| Run | Instance | Shows |
|---|---|---|
| cache | 2 callers, 2 questions (4 keys) in 1 shard of 2, times 0-2 | `IndexesAgree`: without an overlap the three structures of a shard agree; `CapacityHeld`: the size is kept, even with one; `ImplementsLru`: eviction takes the least recently used; `ExpiredCleaned`: the cleaner gets to every expired entry |
| pool | 2 readers, 2 hosts, one or both families | `ExchangeNeverPanics`, `ReturnedZoneHasServers`, `ExpiryBounded`; `EnrichmentFinishes` unless the timeout has won |
| authenticator | chain of 3 zones, 32 messages | `OrderIndependent`, `SecureMeansChain`, `InsecureMeansProof` |
| auth_queue | chain of 3 zones that is complete or lacks a DS record, channel of 1 | `NoSendAfterClose`, `ErrorsPrivate`, `ScheduleIndependent`, `ErrorReported`, `QueryReturns`, `StartEventuallyEnds` |
| exchange | 2 walks, 4 names, 3 zones of which two share servers, 3 queries per request, times 0-3 | `StoreSound`, `OneInputPerZone`, `GapExcused`, `PanicOnlyAtFirstLabel`, `WalkDescends`, `LabelsSuffice` |
| cname | 4 CNAMEs, two with one target, one known | `OrderIndependent`, `ADMeansAllSecure`, `Returns` |
| server | 3 requests for two questions, 2 workers, queue of 1, threshold 2, one round, a validator | `EachRequestOnce`, `PrefetchesBounded`, `EveryRequestReplied` |
| zone_keys | 3 callers, TTLs 1 and 3 with at most 2 allowed, 1 for no records, times 1-5 | `KeysWithinTTL`, `NoRefetch`, `CallReturns` |
| fast_pool | no, one or three servers, at most 2 best ones | `SilentOnlyAtEnd`, `AllEnd` |
| fast_resolver | 1 client and the worker, 2 servers, a popular name and a plain one, queue of 1 | `FailureMeansAllFailed`, `CallReturns` |
| verifier | 108 zones with one or two owners below the apex (wildcards, delegations, empty non-terminals), each with NSEC, NSEC3 and opt-out; 8 names, 2 types, both policies | `ProofsSound`, `TrueDenialAccepted`, `RRsetsSigned` |

Three labels, one of them the asterisk, put names before, in and after each
interval, the last one included, which wraps around; and names of up to three
labels put them below a wildcard's parent, an empty non-terminal or a delegation.
Wrong signatures are tried in the zones with a wildcard beside an
owner, where all kinds of response occur. All nine kinds of proof are reached.

Lists and queues are as short as lets them be full, and the pool runs without
LazyEnrichment, the default, which allows more interleavings than with it (the
proofs are for both).

The `TypeOK` of DnsCache and NameserverPool is proved (section 4). That of the other
modules is a definition for the reader, and holds in their runs when added; the
invariants of their proofs contain the types that the steps need.

Deadlock checking is off where the system comes to rest by itself (all requests
replied to, a query returned, the clock at its bound); it is on for the cache,
the DNSKEYs of a zone and the fast resolver, whose callers never stop: there it
also shows that nobody waits for ever for a lock or for room in a queue that
nobody frees.

**Fairness.** Weak fairness of a goroutine's steps: the Go scheduler runs every
runnable goroutine. Strong fairness of the cleaner's `Lock`: a waiting writer of
a `sync.RWMutex` holds off new readers, so it gets the lock although readers
come and go. Strong fairness also for a caller that waits for the mutex of a
zone: `sync.Mutex` hands itself to a waiter that has starved for 1 ms. Timeouts of
exchanges justify that every exchange ends. Nothing is assumed about clients, and the clock is never forced to run.

### Disagreements between the code and its text

| Run | What the text says | What the run shows |
|---|---|---|
| exchange_clone, `NoInvalidClone` | zone.go:50-53, an assertion | it panics when the first listed zone expires before the walk looks it up again |

Some more that the models reproduce and no run is kept for:

- With two readers a retry (pool_exchange.go:36) may repeat the server of the
  first try: another exchange moves the shared round-robin index.
- With 0 < CacheSize < 32 a shard has size 0 (server.go:507), the loop at
  server.go:509 stays true on an empty shard, and `set` never returns; config.go:64
  says that CacheSize is the number of entries the cache can hold. The loop also
  turns for ever in a full shard whose list an overlap has emptied.
- A prefetch asks with the DO bit (server.go:178) and caches the message for plain
  queries too, whose replies then have the AD bit, against dnssec_test.go:99.
- An answer without DNSKEY records (zone.go:156-160) renews the expiry but leaves
  the old records, which are then returned for as long as such answers come:
  the exception of `KeysWithinTTL`.
- signatures.go:41 speaks of one valid signature per RRSet, and
  authenticate_rrset.go:96-99 of one RRSIG for each; the code keeps its state per
  type (68-95), and compares the number of record sets with that of signatures
  (authenticate_rrset.go:131) rather than the sets. Unless
  RequireAllSignaturesValid is set, and by default it is not, a signature for a
  name without records makes up the number, and a record set that has none
  passes if another one of its type, or of the type of that signature, is signed.
  `RRsetsSigned` has the full statement for the strict policy only.
- For NSEC only the wildcard beside the name is looked at, and there is no proof
  of NODATA at a wildcard (verify_negative.go:17-27): the exceptions of
  `ProofsSound` and `TrueDenialAccepted`.
- An NSEC3 proof of an expanded wildcard is refused when the response also holds
  the record that matches the wildcard (nsec3.go:70-74).
- concurrentExchange may receive from a closed channel and return neither a
  message nor an error (fast_pool.go:79-82); exchangeWithFallback allows for it.
- A query for a name whose first label is an asterisk is taken for an expanded
  wildcard (authenticate_rrset.go:41), since the Labels field does not count it.
- When the timeout of an enrichment wins (zone_factory.go:103), its goroutine waits
  for ever to send on `done`: the exception of `EnrichmentFinishes`.
- finaliseResponse leaves the AD bit of a response as the name server sent it when
  the query is without DO or with CD (resolver_exchange.go:367-382).
- `enrich` (pool.go:214) also moves the expiry of a pool later, against
  config.go:28 ("Shorter TTLs on received records will still be respected").
- The record that `MissingDSRecordError` asks for (dnssec/authenticator.go:134)
  is refused as a duplicate (61-63) when it comes from a zone that has given a
  response already.
- The exceptions of `GapExcused` do occur: the authenticator then has no
  response for a zone of the chain (dnssec/authenticator.go:36 expects one).
- Negative entries (server.go:469) are stored under a key that `get` never asks
  for; a reply from the cache to a query with the DO bit always has AD
  (server.go:313); and the server's validator, made for the empty question
  (server.go:121), finds no response secure.

## 4. What is proved

Eight modules hold theorems that TLAPS has checked, for all values of the
constants that satisfy the named assumptions of the modules (finite sets of
questions, hosts or servers, sizes and times that are naturals, names on one
path). The theorem on a component that a proof module reaches by `INSTANCE` has
that component's `ConstantsOK` as its hypothesis. Each argument is an inductive
invariant with one step per action:

- `DnsCacheProofs`: `TypeCorrect`, `CacheInvariant` (`IndexesAgree`),
  `CapacityRespected` (`CapacityHeld`). `CacheInv` adds `ClashKnown`: a caller whose list
  update was overlapped is still in it, and its shard is marked. Without that, the
  end of an update in a damaged shard could not be told from one in a sound shard.
  The steps rest on lemmas on what delete, touch and insert do to one shard, and
  those on lemmas on lists.
- `NameserverPoolProofs`: `PoolTypeCorrect`, `ExchangeSafe`
  (`ExchangeNeverPanics`), `ReturnedZoneUsable`, `PoolExpiryBounded`. `PoolInv`
  says that the counters trail the slices and never shrink, and what a reader
  may rely on at each step of `exchange` (`ReaderKnows`): a family it has seen
  stays available, and after two tries it has had a server.
- `CnameProofs`, on the keys of a zone: `KeysFresh` (`KeysWithinTTL`) and `KeysNotRefetched`
  (`NoRefetch`). `KeysInv` adds that the lock is held exactly by the caller in
  the exchange (`LockHeld`), so that what it found expired still is when its
  answer comes (`ExpiredWhenAsked`); how the expiry relates to the records
  (`RecordsExpiry`); and that the records kept are the newest ever returned, all
  others having expired before they came (`NewestKept`).
- `AuthenticatorProofs`: `SecureOutcome` (`SecureMeansChain`),
  `InsecureOutcome` (`InsecureMeansProof`) and `OutcomeIndependentOfOrder`
  (`OrderIndependent`). `ChainInv` says that the buffer has every response at its
  zone's place and that the results are what `processResponse` makes of the
  responses below `inputBufferIdx`, each from the DS records of the one before;
  `OrderInv`, that they are the reference chain up to there. `Chain` is a
  recursive function, so both go from one index to the next.
- `AuthQueueProofs`, on the goroutines around the authenticator: `ChannelSafe`
  (`NoSendAfterClose`) and `ErrorsReadAlone` (`ErrorsPrivate`) from `CountInv`,
  which says that the WaitGroup counts exactly the goroutines and sends that are
  under way; `AnswerIndependentOfSchedule` (`ScheduleIndependent`) and
  `NoErrorLost` (`ErrorReported`) from that, `PlaceInv` (each response handed
  over waits, is in the buffer, or was refused) and `ErrorInv` (where each error
  comes from). `QueueImplementsAuthenticator` is the refinement: every step of the
  queue is a step of the authenticator or leaves it as it is, so that all that
  is proved of the authenticator holds in the queue.
- `ResolverWalkProofs` (the steps of the walk) and `ResolverProofs` (those of
  referrals, and the theorems): `ZoneStoreSound` (`StoreSound`),
  `AuthenticatorInputsDistinct` (`OneInputPerZone`), `ChainComplete`
  (`GapExcused`), `PanicConfined` (`PanicOnlyAtFirstLabel`), `WalkGoesDown`
  (`WalkDescends`) and `LabelsNeverRunOut` (`LabelsSuffice`), for any tree, number of queries and lifetimes. `ResolverInv`
  has five parts for each query: where it is on its way down (`WalkInv`), that each
  iteration has led to another label (`CountInv`), that
  its inputs are of zones above the one it has reached (`InputInv`), that no zone
  lies between its zone and its label once SOA queries have tested them
  (`TestedInv`), and that no zone is missing from the inputs while there is no
  excuse but a failed DS query of its own (`ChainInv`); and one on the store, whose zones leave out none between
  them and their parents (`StoreInv`), since a query starts from what others left.
- `CnameProofs`, on CNAME records: `CnameOrderIrrelevant` (`OrderIndependent`) and
  `ADVouchesForAll` (`ADMeansAllSecure`). What each look-up got is given: one that
  finds the cache filled by another has no authentication result. `CnameInv` says that while the
  goroutines run the channel has the successes of those that are done
  (`PhaseInv`), and that afterwards what is merged and what still is in the channel
  make up all of them (`MergeInv`), where a partial merge is described by the
  worst result and the largest Rcode of the set merged so far.
- `ServerProofs`: `AnsweredOnce` (`EachRequestOnce`) from `OnceInv` (a request
  without a reply is once in the channel, or with one worker), and
  `PrefetchesRationed` (`PrefetchesBounded`) from `AccessInv` (the prefetches of a
  question, times the threshold, and its counter are at most its accesses). On the
  fast resolver `GivesUpLast` (`FailureMeansAllFailed`), from `CallsInv`: what a
  call has read are distinct failures, as many as it counts. On the fast pool
  `NoSendOnClosed` (`SilentOnlyAtEnd`): the wait group counts the goroutines that
  run (`Counted`), so the channels are closed after the last (`ClosedLast`).

Minima and maxima, and arguments from the least counterexample, rest on
`LeastNatural`: a set of naturals that is not empty has a least member, by the
well-foundedness of the naturals. It is stated in each module that needs it.

Only model-checked:

- all liveness properties (`ExpiredCleaned`, `EnrichmentFinishes`, `QueryReturns`,
  `StartEventuallyEnds`, `Returns`, `EveryRequestReplied`,
  `CallReturns`, `AllEnd`), since the prover handles neither fairness nor ENABLED;
- `ImplementsLru`, whose abstract lists are made with `SelectSeq`, a recursive
  operator about which nothing can be proved for lists of any length;
- `ProofsSound`, `TrueDenialAccepted` and `RRsetsSigned`: they compare the
  verdict on every response with what a whole zone holds. For zones of any size
  this needs the chain of denial records as a cyclic order of names of any length,
  an induction over data; TLC goes through all small zones instead.

## 5. What is not modelled

- Cryptography and hashing: a signature names its key, a hash is an injective
  function given by the instance. TTLs of signatures and of validated answers.
- Escaped octets in labels (doe/functions.go:55) and denial of existence in the
  root zone, where nsec3.go:65 would take an index past the end for a wildcard of
  the root.
- In the walk, the counter of queries is kept per walk, whereas the code shares
  one among a request's enrichment look-ups and CNAME targets; the nesting of the
  walks itself is beyond TLC's reach.
- Metrics, statistics, logging and tracing, which steer nothing; configuration and
  root hints, whose limits are constants of the modules; listeners, signals and
  flags of the commands, which hold no state that the rest reads.
- NewFastResolver without a cache: ExchangeWithOptimization calls the interface
  unconditionally (fast_resolver.go:49), so the model always has one.

## 6. Plan

1. LruCache in the place of the cache of Server, and the proof of `ImplementsLru`.
2. CNAME recursion with the shared counter of queries, on one level of nesting.
