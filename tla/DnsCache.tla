------------------------------ MODULE DnsCache ------------------------------
(***************************************************************************)
(* The sharded response cache of server.go (DNSCache, cacheShard).         *)
(*                                                                         *)
(* A shard keeps two maps, items and lruMap, and a recency list, lruList,  *)
(* that must always describe the same set of entries.  set, setNegative,   *)
(* Clear and cleanExpired change them under the shard's write lock; get    *)
(* changes them too (MoveToFront, evictEntry), but holds the lock for      *)
(* READING only, so two gets of one shard may overlap.                     *)
(*                                                                         *)
(* An entry is abstracted to its expiry time.  The counters of CacheStats  *)
(* and cacheEntry.frequency feed a log line only and are left out.         *)
(***************************************************************************)
EXTENDS Integers, Sequences, FiniteSets, FiniteSetsExt

CONSTANTS
    Proc,          \* goroutines that call get, set, setNegative and Clear
    Question,      \* questions (name, type, class)
    NShards,       \* number of shards (32 in the code)
    ShardOf,       \* the shard that a key hashes to
    MaxSize,       \* DNSCache.maxSize
    Messages,      \* messages, each abstracted to the set of its records' TTLs
    DefaultTTL, ZeroTTL, CeilingTTL, FloorTTL, NegativeTTL,
                   \* 3600, 300, 86400, 60 and 300 seconds in the code
    MaxTime,       \* bound on the clock
    None           \* an absent value: no key, no entry

Shard == 1..NShards

\* get and set build "name-type-class", setNegative appends "-negative".
Key == Question \X {"positive", "negative"}

ASSUME CacheAssumption ==
    /\ IsFiniteSet(Question)
    /\ NShards \in Nat \ {0}
    /\ ShardOf \in [Key -> Shard]
    /\ MaxSize \in Nat
    /\ Messages \subseteq SUBSET Nat
    /\ \A m \in Messages : IsFiniteSet(m)
    /\ {DefaultTTL, ZeroTTL, CeilingTTL, FloorTTL, NegativeTTL} \subseteq Nat \ {0}
    /\ MaxTime \in Nat
    /\ None \notin Key /\ None \notin Nat

VARIABLES
    now,       \* the clock
    items,     \* cacheShard.items: key -> expiry, per shard
    lruMap,    \* cacheShard.lruMap: key -> expiry of the element's entry
    lruList,   \* cacheShard.lruList: keys, most recently used first
    pc,        \* where each goroutine is
    key,       \* the key its call is about
    ttl,       \* the lifetime its set will give
    clearAt,   \* the shard its Clear has reached, or 0
    cleaner,   \* cleanExpired: the shard it has reached (0 between two rounds),
               \* whether it holds its lock, and the time it read at the start
    clash,     \* goroutines whose update overlaps another one's
    raced      \* history: shards in which two updates have overlapped

maps == <<items, lruMap, lruList>>
locals == <<pc, key, ttl, clearAt>>
vars == <<now, maps, locals, cleaner, clash, raced>>

-----------------------------------------------------------------------------
(* Data: lists, lifetimes, capacity.                                       *)

Listed(list) == {list[i] : i \in DOMAIN list}
Distinct(list) == \A i, j \in DOMAIN list : i # j => list[i] # list[j]

\* list.Remove of the element that holds k; nothing when it is not linked.
Unlink(list, k) ==
    IF k \in Listed(list)
    THEN LET i == CHOOSE j \in DOMAIN list : list[j] = k
         IN  SubSeq(list, 1, i - 1) \o SubSeq(list, i + 1, Len(list))
    ELSE list

MoveToFront(list, k) == IF k \in Listed(list) THEN <<k>> \o Unlink(list, k) ELSE list

\* A Go map is a function on Key whose value at an absent key is None.
EmptyMap == [k \in Key |-> None]
Held(map) == {k \in Key : map[k] # None}

\* set's lifetime of a message whose records have the TTLs in ttls.
Lifetime(ttls) ==
    LET least  == Min(ttls \cup {DefaultTTL})
        nozero == IF least = 0 THEN ZeroTTL ELSE least
        capped == IF nozero > CeilingTTL THEN CeilingTTL ELSE nozero
    IN  IF capped < FloorTTL THEN FloorTTL ELSE capped

MaxShardSize == MaxSize \div NShards

-----------------------------------------------------------------------------
(* The shard lock, as a view of who is where.                              *)

Reading == {"locked", "hit", "touch", "expired", "evict"}

ReadersOf(s) == {t \in Proc : pc[t] \in Reading /\ ShardOf[key[t]] = s}
SettersOf(s) == {t \in Proc : pc[t] = "ensure" /\ ShardOf[key[t]] = s}
CleanerIn(s) == cleaner.locked /\ cleaner.shard = s

\* A writer that waits for the lock, as the cleaner may, keeps new readers out.
CanRLock(s) == SettersOf(s) = {} /\ cleaner.shard # s
CanLock(s) == SettersOf(s) = {} /\ ~CleanerIn(s) /\ ReadersOf(s) = {}

\* Goroutines inside an update of shard s under the read lock.
Touching(s) == {t \in ReadersOf(s) : pc[t] = "touch"}
Evicting(s) == {t \in ReadersOf(s) : pc[t] = "evict"}

Init ==
    /\ now = 0
    /\ items = [s \in Shard |-> EmptyMap]
    /\ lruMap = [s \in Shard |-> EmptyMap]
    /\ lruList = [s \in Shard |-> <<>>]
    /\ pc = [t \in Proc |-> "idle"]
    /\ key = [t \in Proc |-> None]
    /\ ttl = [t \in Proc |-> 0]
    /\ clearAt = [t \in Proc |-> 0]
    /\ cleaner = [shard |-> 0, locked |-> FALSE, now |-> 0]
    /\ clash = {}
    /\ raced = {}

Tick ==
    /\ now < MaxTime
    /\ now' = now + 1
    /\ UNCHANGED <<maps, locals, cleaner, clash, raced>>

-----------------------------------------------------------------------------
(* get: everything below the lookup happens under the read lock.           *)

Goto(t, label) == pc' = [pc EXCEPT ![t] = label]

Return(t) == Goto(t, "idle") /\ key' = [key EXCEPT ![t] = None]

Get(t, q) ==
    LET k == <<q, "positive">> IN
    /\ pc[t] = "idle"
    /\ CanRLock(ShardOf[k])
    /\ Goto(t, "locked")
    /\ key' = [key EXCEPT ![t] = k]
    /\ UNCHANGED <<now, maps, ttl, clearAt, cleaner, clash, raced>>

\* The map read: a hit, an expired entry, or a miss.  It races with a
\* goroutine that is deleting from the map.
Lookup(t) ==
    LET k == key[t]
        s == ShardOf[k] IN
    /\ pc[t] = "locked"
    /\ raced' = IF Evicting(s) # {} THEN raced \cup {s} ELSE raced
    /\ \/ k \notin Held(lruMap[s]) /\ Return(t)
       \/ k \in Held(lruMap[s]) /\ now < lruMap[s][k] /\ Goto(t, "hit") /\ UNCHANGED key
       \/ k \in Held(lruMap[s]) /\ now >= lruMap[s][k] /\ Goto(t, "expired") /\ UNCHANGED key
    /\ UNCHANGED <<now, maps, ttl, clearAt, cleaner, clash>>

\* Entering an update of shard s while another goroutine is inside one.
EnterUpdate(t, s) ==
    LET others == Touching(s) \cup Evicting(s) IN
    /\ clash' = IF others # {} THEN clash \cup others \cup {t} ELSE clash
    /\ raced' = IF others # {} THEN raced \cup {s} ELSE raced

\* What an update may leave in the list: the intended list or, when it
\* overlapped another update of the same links, that list with an element
\* unlinked.  (A fatal error of the runtime ends the behaviour instead.)
ListOutcomes(t, intended) ==
    {intended} \cup
    IF t \in clash THEN {Unlink(intended, k) : k \in Listed(intended)} ELSE {}

TouchBegin(t) ==
    /\ pc[t] = "hit"
    /\ Goto(t, "touch")
    /\ EnterUpdate(t, ShardOf[key[t]])
    /\ UNCHANGED <<now, maps, key, ttl, clearAt, cleaner>>

TouchEnd(t) ==
    LET s == ShardOf[key[t]] IN
    /\ pc[t] = "touch"
    /\ \E list \in ListOutcomes(t, MoveToFront(lruList[s], key[t])) :
          lruList' = [lruList EXCEPT ![s] = list]
    /\ Return(t)
    /\ clash' = clash \ {t}
    /\ UNCHANGED <<now, items, lruMap, ttl, clearAt, cleaner, raced>>

EvictBegin(t) ==
    /\ pc[t] = "expired"
    /\ Goto(t, "evict")
    /\ EnterUpdate(t, ShardOf[key[t]])
    /\ UNCHANGED <<now, maps, key, ttl, clearAt, cleaner>>

\* Mutant: evictEntry forgets the items map.
DeleteFromMaps_KeepsItems(s, k) ==
    /\ UNCHANGED items
    /\ lruMap' = [lruMap EXCEPT ![s][k] = None]

\* evictEntry on the maps.
DeleteFromMaps(s, k) ==
    /\ items' = [items EXCEPT ![s][k] = None]
    /\ lruMap' = [lruMap EXCEPT ![s][k] = None]

EvictEnd(t) ==
    LET s == ShardOf[key[t]] IN
    /\ pc[t] = "evict"
    /\ DeleteFromMaps(s, key[t])
    /\ \E list \in ListOutcomes(t, Unlink(lruList[s], key[t])) :
          lruList' = [lruList EXCEPT ![s] = list]
    /\ Return(t)
    /\ clash' = clash \ {t}
    /\ UNCHANGED <<now, ttl, clearAt, cleaner, raced>>

-----------------------------------------------------------------------------
(* set and setNegative: under the write lock, make room, then insert.      *)

BeginSet(t, k, life) ==
    /\ pc[t] = "idle"
    /\ CanLock(ShardOf[k])
    /\ Goto(t, "ensure")
    /\ key' = [key EXCEPT ![t] = k]
    /\ ttl' = [ttl EXCEPT ![t] = life]
    /\ UNCHANGED <<now, maps, clearAt, cleaner, clash, raced>>

Set(t, q, m) == BeginSet(t, <<q, "positive">>, Lifetime(m))

SetNegative(t, q) == BeginSet(t, <<q, "negative">>, NegativeTTL)

\* Mutant: the capacity test is off by one.
Full_OffByOne(s) == Cardinality(Held(items[s])) > MaxShardSize

Full(s) == Cardinality(Held(items[s])) >= MaxShardSize

\* Mutant: evictOldest takes the front of the list.
EvictOldest_Front(t) ==
    LET s == ShardOf[key[t]]
        list == lruList[s] IN
    /\ pc[t] = "ensure"
    /\ Full(s)
    /\ IF list = <<>>
       THEN UNCHANGED maps
       ELSE /\ DeleteFromMaps(s, list[1])
            /\ lruList' = [lruList EXCEPT ![s] = Tail(list)]
    /\ UNCHANGED <<now, locals, cleaner, clash, raced>>

\* One round of ensureCapacity's loop.  evictOldest does nothing when the
\* list is empty: the loop then turns for ever with the lock held.
EvictOldest(t) ==
    LET s == ShardOf[key[t]]
        list == lruList[s] IN
    /\ pc[t] = "ensure"
    /\ Full(s)
    /\ IF list = <<>>
       THEN UNCHANGED maps
       ELSE /\ DeleteFromMaps(s, list[Len(list)])
            /\ lruList' = [lruList EXCEPT ![s] = SubSeq(list, 1, Len(list) - 1)]
    /\ UNCHANGED <<now, locals, cleaner, clash, raced>>

Insert(t) ==
    LET k == key[t]
        s == ShardOf[k]
        expires == now + ttl[t] IN
    /\ pc[t] = "ensure"
    /\ ~Full(s)
    /\ items' = [items EXCEPT ![s][k] = expires]
    /\ lruMap' = [lruMap EXCEPT ![s][k] = expires]
    /\ lruList' = [lruList EXCEPT
           ![s] = <<k>> \o (IF k \in Held(lruMap[s]) THEN Unlink(@, k) ELSE @)]
    /\ Return(t)
    /\ ttl' = [ttl EXCEPT ![t] = 0]
    /\ UNCHANGED <<now, clearAt, cleaner, clash, raced>>

-----------------------------------------------------------------------------
(* Clear and cleanExpired walk the shards, one write lock after another.   *)

Clear(t) ==
    /\ pc[t] = "idle"
    /\ Goto(t, "clear")
    /\ clearAt' = [clearAt EXCEPT ![t] = 1]
    /\ UNCHANGED <<now, maps, key, ttl, cleaner, clash, raced>>

ClearShard(t) ==
    LET s == clearAt[t] IN
    /\ pc[t] = "clear"
    /\ CanLock(s)
    /\ items' = [items EXCEPT ![s] = EmptyMap]
    /\ lruMap' = [lruMap EXCEPT ![s] = EmptyMap]
    /\ lruList' = [lruList EXCEPT ![s] = <<>>]
    /\ clearAt' = [clearAt EXCEPT ![t] = IF s = NShards THEN 0 ELSE s + 1]
    /\ Goto(t, IF s = NShards THEN "idle" ELSE "clear")
    /\ UNCHANGED <<now, key, ttl, cleaner, clash, raced>>

CleanStart ==
    /\ cleaner.shard = 0
    /\ cleaner' = [shard |-> 1, locked |-> FALSE, now |-> now]
    /\ UNCHANGED <<now, maps, locals, clash, raced>>

CleanLock ==
    /\ cleaner.shard # 0
    /\ ~cleaner.locked
    /\ CanLock(cleaner.shard)
    /\ cleaner' = [cleaner EXCEPT !.locked = TRUE]
    /\ UNCHANGED <<now, maps, locals, clash, raced>>

\* Mutant: the comparison with now is the wrong way round.
Overdue_Swapped(s) == {k \in Held(items[s]) : cleaner.now < items[s][k]}

\* The items that cleanExpired deletes: now.After(expires) is strict.
Overdue(s) == {k \in Held(items[s]) : cleaner.now > items[s][k]}

CleanEntry(k) ==
    LET s == cleaner.shard IN
    /\ cleaner.locked
    /\ k \in Overdue(s)
    /\ items' = [items EXCEPT ![s][k] = None]
    /\ IF k \in Held(lruMap[s])
       THEN /\ lruMap' = [lruMap EXCEPT ![s][k] = None]
            /\ lruList' = [lruList EXCEPT ![s] = Unlink(@, k)]
       ELSE UNCHANGED <<lruMap, lruList>>
    /\ UNCHANGED <<now, locals, cleaner, clash, raced>>

CleanUnlock ==
    LET s == cleaner.shard IN
    /\ cleaner.locked
    /\ Overdue(s) = {}
    /\ cleaner' = IF s = NShards
                  THEN [shard |-> 0, locked |-> FALSE, now |-> 0]
                  ELSE [shard |-> s + 1, locked |-> FALSE, now |-> cleaner.now]
    /\ UNCHANGED <<now, maps, locals, clash, raced>>

-----------------------------------------------------------------------------
GetStep(t) ==
    Lookup(t) \/ TouchBegin(t) \/ TouchEnd(t) \/ EvictBegin(t) \/ EvictEnd(t)

Next ==
    \/ Tick
    \/ \E t \in Proc :
          \/ \E q \in Question : Get(t, q) \/ SetNegative(t, q)
          \/ \E q \in Question, m \in Messages : Set(t, q, m)
          \/ GetStep(t)
          \/ EvictOldest(t) \/ Insert(t)
          \/ Clear(t) \/ ClearShard(t)
    \/ CleanStart \/ CleanLock \/ CleanUnlock
    \/ \E k \in Key : CleanEntry(k)

Spec == Init /\ [][Next]_vars

\* A goroutine that holds a lock keeps running, the cleaner's ticker keeps
\* firing, and a sync.RWMutex that is free again and again lets a waiting
\* writer in.
Fairness ==
    /\ \A t \in Proc : WF_vars(GetStep(t) \/ EvictOldest(t) \/ Insert(t))
    /\ WF_vars(CleanStart \/ CleanUnlock \/ \E k \in Key : CleanEntry(k))
    /\ SF_vars(CleanLock)

FairSpec == Spec /\ Fairness

-----------------------------------------------------------------------------
(* Properties.                                                             *)

PartialMap == [Key -> Nat \cup {None}]

MapsOK ==
    /\ items \in [Shard -> PartialMap]
    /\ lruMap \in [Shard -> PartialMap]
    /\ lruList \in [Shard -> Seq(Key)]

LocalsOK ==
    /\ pc \in [Proc -> Reading \cup {"idle", "ensure", "clear"}]
    /\ key \in [Proc -> Key \cup {None}]
    /\ ttl \in [Proc -> Nat]
    /\ clearAt \in [Proc -> 0..NShards]
    /\ \A t \in Proc : pc[t] \in Reading \cup {"ensure"} => key[t] \in Key
    /\ \A t \in Proc : pc[t] = "clear" => clearAt[t] # 0

CleanerOK ==
    /\ cleaner \in [shard : 0..NShards, locked : BOOLEAN, now : Nat]
    /\ cleaner.locked => cleaner.shard # 0

\* The type invariant of the cache's state.
TypeOK ==
    /\ now \in Nat
    /\ clash \subseteq Proc
    /\ raced \subseteq Shard
    /\ MapsOK
    /\ LocalsOK
    /\ CleanerOK

Agree(s) ==
    /\ items[s] = lruMap[s]
    /\ Listed(lruList[s]) = Held(items[s])
    /\ Distinct(lruList[s])

\* Unless two gets of a shard have overlapped inside an update, the shard's
\* two maps hold the same entries and its list links each of them once:
\* set, setNegative, evictEntry, cleanExpired and Clear keep the three
\* structures in step.
IndexesAgree == \A s \in Shard \ raced : Agree(s)

\* ensureCapacity runs before the insertion, so a shard never holds more
\* than its share of maxSize, whatever the interleaving and even after a race.
CapacityHeld == \A s \in Shard : Cardinality(Held(items[s])) <= MaxShardSize

\* A shard as the abstract cache has it: its keys in order of use, each with
\* the expiry of its item.
Recency(s) ==
    IF s \in raced THEN None
    ELSE [i \in DOMAIN lruList[s] |->
             [key |-> lruList[s][i], expires |-> items[s][lruList[s][i]]]]

Lru == INSTANCE LruCache WITH
    Capacity <- MaxShardSize,
    Lifetimes <- FloorTTL..CeilingTTL \cup {NegativeTTL},
    Undefined <- None,
    entries <- [s \in Shard |-> Recency(s)]

\* The cache implements a least-recently-used cache with atomic operations:
\* get, set, setNegative, Clear and the cleaner, whose steps interleave,
\* amount to one step of LruCache each, on every shard in which no two gets
\* have overlapped inside an update.
ImplementsLru == Lru!Spec

\* cacheCleaner gets to every entry: an expired entry is removed or replaced,
\* unless an overlap has damaged some shard.  (A set that then turns for ever
\* in that shard stops the cleaner there, and no shard is cleaned any more.)
ExpiredCleaned ==
    \A k \in Key :
        LET s == ShardOf[k]
            Due == k \in Held(items[s]) /\ items[s][k] < now
        IN  Due ~> (~Due \/ raced # {})

=============================================================================
