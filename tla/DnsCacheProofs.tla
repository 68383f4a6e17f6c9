--------------------------- MODULE DnsCacheProofs ---------------------------
(* Proofs about the response cache, for every number of goroutines, shards *)
(* and keys, every maxSize and every choice of the TTL constants.          *)
EXTENDS DnsCache, FiniteSetTheorems, SequenceTheorems,
        WellFoundedInduction, TLAPS

\* A set of natural numbers that is not empty has a least member: the smallest
\* TTL of the records of a message is that of one of them.
LEMMA LeastNatural ==
    ASSUME NEW S, S \subseteq Nat, S # {}
    PROVE  Min(S) \in S /\ \A m \in S : Min(S) <= m
<1>1. PICK x \in S : \A y \in S : <<y, x>> \notin OpToRel(<, Nat)
  BY NatLessThanWellFounded, WFMin, Zenon
<1>2. ASSUME NEW y \in S PROVE x <= y
  <2>1. x \in Nat /\ y \in Nat
    OBVIOUS
  <2>2. ~ (y < x)
    BY <1>1, <2>1, Zenon DEF OpToRel
  <2> QED
    BY <2>1, <2>2
<1> QED
  BY Zenon, <1>2 DEF Min

(***************************************************************************)
(* Lists.                                                                  *)
(***************************************************************************)

\* list.Remove unlinks exactly the element it is given.
LEMMA UnlinkProperties ==
    ASSUME NEW list \in Seq(Key), NEW k
    PROVE  /\ Unlink(list, k) \in Seq(Key)
           /\ Distinct(list) => /\ Listed(Unlink(list, k)) = Listed(list) \ {k}
                                /\ Distinct(Unlink(list, k))
<1>1. CASE k \notin Listed(list)
  BY <1>1 DEF Unlink
<1>2. CASE k \in Listed(list)
  <2> DEFINE n == Len(list)
             i == CHOOSE j \in DOMAIN list : list[j] = k
             new == SubSeq(list, 1, i - 1) \o SubSeq(list, i + 1, n)
  <2>1. n \in Nat /\ DOMAIN list = 1..n /\ i \in 1..n /\ list[i] = k
    BY <1>2 DEF Listed
  <2>2. Unlink(list, k) = new
    BY Zenon, <1>2 DEF Unlink
  <2> HIDE DEF n, i
  <2>3. /\ SubSeq(list, 1, i - 1) \in Seq(Key) /\ Len(SubSeq(list, 1, i - 1)) = i - 1
        /\ SubSeq(list, i + 1, n) \in Seq(Key) /\ Len(SubSeq(list, i + 1, n)) = n - i
        /\ \A j \in 1..(i - 1) : SubSeq(list, 1, i - 1)[j] = list[j]
        /\ \A j \in 1..(n - i) : SubSeq(list, i + 1, n)[j] = list[j + i]
    <3>1. \A j \in 1..n : list[j] \in Key
      BY <2>1
    <3>2. \A j \in 1..(i - 1) : list[j] \in Key
      BY <2>1, <3>1
    <3>3. \A j \in (i + 1)..n : list[j] \in Key
      BY <2>1, <3>1
    <3>4. /\ SubSeq(list, 1, i - 1) \in Seq(Key)
          /\ Len(SubSeq(list, 1, i - 1)) = IF 1 <= i - 1 THEN i - 1 - 1 + 1 ELSE 0
          /\ \A j \in 1..(i - 1 - 1 + 1) : SubSeq(list, 1, i - 1)[j] = list[1 + j - 1]
      BY <2>1, <3>2, SubSeqProperties
    <3>5. /\ SubSeq(list, i + 1, n) \in Seq(Key)
          /\ Len(SubSeq(list, i + 1, n)) = IF i + 1 <= n THEN n - (i + 1) + 1 ELSE 0
          /\ \A j \in 1..(n - (i + 1) + 1) : SubSeq(list, i + 1, n)[j] = list[(i + 1) + j - 1]
      BY <2>1, <3>3, SubSeqProperties
    <3> QED
      BY <2>1, <3>4, <3>5
  <2>4. /\ new \in Seq(Key)
        /\ Len(new) = n - 1
        /\ DOMAIN new = 1..(n - 1)
        /\ \A j \in 1..(n - 1) : new[j] = IF j < i THEN list[j] ELSE list[j + 1]
    <3> DEFINE p == SubSeq(list, 1, i - 1)
               q == SubSeq(list, i + 1, n)
    <3>1. p \in Seq(Key) /\ q \in Seq(Key) /\ new = p \o q
      BY <2>3
    <3>2. Len(p) = i - 1 /\ Len(q) = n - i
      BY <2>3
    <3>3. \A j \in 1..(i - 1) : p[j] = list[j]
      BY <2>3
    <3>4. \A j \in 1..(n - i) : q[j] = list[j + i]
      BY <2>3
    <3> HIDE DEF p, q, new
    <3>5. /\ new \in Seq(Key)
          /\ Len(new) = Len(p) + Len(q)
          /\ DOMAIN new = 1..Len(new)
          /\ \A j \in 1..Len(p) + Len(q) : new[j] = IF j <= Len(p) THEN p[j] ELSE q[j - Len(p)]
      BY <3>1, ConcatProperties
    <3>6. Len(new) = n - 1
      BY <2>1, <3>2, <3>5
    <3>7. ASSUME NEW j \in 1..(n - 1)
          PROVE  new[j] = IF j < i THEN list[j] ELSE list[j + 1]
      <4>1. CASE j < i
        BY <4>1, <2>1, <3>2, <3>3, <3>5
      <4>2. CASE ~(j < i)
        <5>1. j - (i - 1) \in 1..(n - i) /\ (j - (i - 1)) + i = j + 1
          BY <4>2, <2>1
        <5>2. new[j] = q[j - (i - 1)]
          BY <4>2, <2>1, <3>2, <3>5
        <5> QED
          BY <4>2, <5>1, <5>2, <3>4
      <4> QED
        BY <4>1, <4>2
    <3> QED
      BY <3>5, <3>6, <3>7
  <2> HIDE DEF new
  <2>5. ASSUME Distinct(list)
        PROVE  Listed(new) = Listed(list) \ {k} /\ Distinct(new)
    <3> DEFINE at(j) == IF j < i THEN j ELSE j + 1
    <3>0. \A j \in 1..(n - 1) : at(j) \in 1..n /\ at(j) # i /\ new[j] = list[at(j)]
      BY <2>1, <2>4
    <3>1. ASSUME NEW a \in 1..(n - 1), NEW b \in 1..(n - 1), a # b
          PROVE  new[a] # new[b]
      <4>1. at(a) # at(b)
        BY <3>1, <2>1
      <4> QED
        BY Zenon, <4>1, <3>0, <2>1, <2>5 DEF Distinct
    <3>2. ASSUME NEW x \in Listed(new) PROVE x \in Listed(list) \ {k}
      <4>1. PICK j \in 1..(n - 1) : new[j] = x
        BY <2>4 DEF Listed
      <4>2. at(j) \in 1..n /\ at(j) # i /\ list[at(j)] = x
        BY <4>1, <3>0
      <4> HIDE DEF at
      <4> QED
        BY <4>2, <2>1, <2>5 DEF Distinct, Listed
    <3>3. ASSUME NEW x \in Listed(list) \ {k} PROVE x \in Listed(new)
      <4>1. PICK j \in 1..n : list[j] = x
        BY <2>1 DEF Listed
      <4>2. CASE j < i
        BY <4>1, <4>2, <2>1, <2>4 DEF Listed
      <4>3. CASE j > i
        <5>1. j - 1 \in 1..(n - 1) /\ new[j - 1] = x
          BY <4>1, <4>3, <2>1, <2>4
        <5> QED
          BY <5>1, <2>4 DEF Listed
      <4> QED
        BY <4>1, <4>2, <4>3, <2>1
    <3> QED
      BY <3>1, <3>2, <3>3, <2>4 DEF Distinct
  <2> QED
    BY <2>2, <2>4, <2>5
<1> QED
  BY <1>1, <1>2

\* PushFront of an element that is not linked.
LEMMA PushFrontProperties ==
    ASSUME NEW list \in Seq(Key), NEW k \in Key
    PROVE  /\ <<k>> \o list \in Seq(Key)
           /\ Listed(<<k>> \o list) = Listed(list) \cup {k}
           /\ Distinct(list) /\ k \notin Listed(list) => Distinct(<<k>> \o list)
<1> DEFINE n == Len(list)
           new == <<k>> \o list
<1>1. /\ n \in Nat /\ DOMAIN list = 1..n
      /\ new \in Seq(Key) /\ DOMAIN new = 1..(n + 1)
      /\ new[1] = k
      /\ \A j \in 2..(n + 1) : new[j] = list[j - 1]
  OBVIOUS
<1> HIDE DEF n, new
<1>2. Listed(new) = Listed(list) \cup {k}
  <2>1. ASSUME NEW x \in Listed(list) PROVE x \in Listed(new)
    <3>1. PICK j \in 1..n : list[j] = x
      BY <1>1 DEF Listed
    <3>2. j + 1 \in DOMAIN new /\ j + 1 \in 2..(n + 1) /\ (j + 1) - 1 = j
      BY <1>1
    <3>3. new[j + 1] = x
      BY <3>1, <3>2, <1>1
    <3> QED
      BY <3>2, <3>3 DEF Listed
  <2>2. k \in Listed(new)
    BY <1>1 DEF Listed
  <2>3. ASSUME NEW x \in Listed(new) PROVE x \in Listed(list) \cup {k}
    <3>1. PICK j \in 1..(n + 1) : new[j] = x
      BY <1>1 DEF Listed
    <3>2. CASE j = 1
      BY <3>1, <3>2, <1>1
    <3>3. CASE j # 1
      <4>1. j - 1 \in 1..n /\ list[j - 1] = x
        BY <3>1, <3>3, <1>1
      <4> QED
        BY Zenon, <4>1, <1>1 DEF Listed
    <3> QED
      BY <3>2, <3>3
  <2> QED
    BY <2>1, <2>2, <2>3
<1>3. ASSUME Distinct(list), k \notin Listed(list)
      PROVE  Distinct(new)
  <2>1. \A j \in 2..(n + 1) : j - 1 \in 1..n /\ new[j] = list[j - 1] /\ new[j] # k
    <3> TAKE j \in 2..(n + 1)
    <3>1. j - 1 \in 1..n
      BY <1>1
    <3>2. list[j - 1] \in Listed(list)
      BY <3>1, <1>1 DEF Listed
    <3> QED
      BY <3>1, <3>2, <1>1, <1>3
  <2>2. ASSUME NEW a \in 1..(n + 1), NEW b \in 1..(n + 1), a # b
        PROVE  new[a] # new[b]
    <3>1. CASE a = 1 \/ b = 1
      BY <3>1, <2>1, <2>2, <1>1
    <3>2. CASE a # 1 /\ b # 1
      <4>1. a - 1 \in 1..n /\ b - 1 \in 1..n /\ a - 1 # b - 1
        BY <3>2, <2>2, <1>1
      <4>2. list[a - 1] # list[b - 1]
        BY Zenon, <4>1, <1>1, <1>3 DEF Distinct
      <4> QED
        BY <3>2, <4>2, <2>1, <1>1
    <3> QED
      BY <3>1, <3>2
  <2> QED
    BY <2>2, <1>1 DEF Distinct
<1> QED
  BY <1>1, <1>2, <1>3 DEF new

\* evictOldest takes a key from the list and leaves a list of keys.
LEMMA DropLastType ==
    ASSUME NEW list \in Seq(Key), list # <<>>
    PROVE  list[Len(list)] \in Key /\ SubSeq(list, 1, Len(list) - 1) \in Seq(Key)
OBVIOUS

\* Dropping the last element, as evictOldest does.
LEMMA DropLastProperties ==
    ASSUME NEW list \in Seq(Key), list # <<>>, Distinct(list)
    PROVE  LET front == SubSeq(list, 1, Len(list) - 1)
               last == list[Len(list)]
           IN  /\ front \in Seq(Key)
               /\ last \in Key
               /\ Listed(front) = Listed(list) \ {last}
               /\ Distinct(front)
<1> DEFINE n == Len(list)
           front == SubSeq(list, 1, n - 1)
<1>1. /\ n \in Nat \ {0} /\ DOMAIN list = 1..n
      /\ front \in Seq(Key) /\ DOMAIN front = 1..(n - 1)
      /\ \A j \in 1..(n - 1) : front[j] = list[j]
  OBVIOUS
<1> HIDE DEF n, front
<1>2. Listed(front) = Listed(list) \ {list[n]}
  BY <1>1 DEF Distinct, Listed
<1>3. Distinct(front)
  BY <1>1 DEF Distinct
<1>4. list[n] \in Key
  BY <1>1
<1> QED
  BY <1>1, <1>2, <1>3, <1>4 DEF n, front

(***************************************************************************)
(* Lifetimes, keys and maps.                                               *)
(***************************************************************************)

\* The lifetime that set gives is a positive number, for every message.
LEMMA LifetimeType ==
    ASSUME NEW m \in Messages
    PROVE  Lifetime(m) \in Nat
<1>1. m \cup {DefaultTTL} \subseteq Nat
  BY CacheAssumption
<1>2. Min(m \cup {DefaultTTL}) \in Nat
  BY <1>1, LeastNatural
<1> QED
  BY <1>2, CacheAssumption DEF Lifetime

\* There are finitely many cache keys, so a shard's size is a number.
LEMMA KeysFinite == IsFiniteSet(Key)
<1>1. IsFiniteSet({"positive", "negative"})
  <2>1. IsFiniteSet({"positive"})
    BY Zenon, FS_Singleton
  <2>2. IsFiniteSet({"positive"} \cup {"negative"})
    BY <2>1, FS_AddElement
  <2>3. {"positive", "negative"} = {"positive"} \cup {"negative"}
    OBVIOUS
  <2> QED
    BY <2>2, <2>3
<1> QED
  BY <1>1, FS_Product, CacheAssumption DEF Key

\* The entries of a shard are finitely many: len(shard.items) is a number.
LEMMA HeldFinite ==
    ASSUME NEW map
    PROVE  IsFiniteSet(Held(map)) /\ Cardinality(Held(map)) \in Nat
<1>1. Held(map) \subseteq Key
  BY DEF Held
<1> QED
  BY <1>1, KeysFinite, FS_Subset, FS_CardinalityType

(***************************************************************************)
(* The type invariant.                                                     *)
(***************************************************************************)

\* A write to or a delete from one of a shard's Go maps leaves a map.
LEMMA MapUpdate ==
    ASSUME NEW f \in [Shard -> PartialMap], NEW s \in Shard, NEW k \in Key,
           NEW v \in Nat \cup {None}
    PROVE  [f EXCEPT ![s][k] = v] \in [Shard -> PartialMap]
BY Zenon DEF PartialMap

\* Every step of the cache keeps its state well typed.
LEMMA TypeStep == TypeOK /\ [Next]_vars => TypeOK'
<1> SUFFICES ASSUME TypeOK, [Next]_vars PROVE TypeOK'
  OBVIOUS
<1> USE CacheAssumption DEF TypeOK
<1>m. UNCHANGED maps => MapsOK'
  BY DEF MapsOK, maps
<1>l. UNCHANGED locals => LocalsOK'
  BY DEF LocalsOK, locals
<1>c. UNCHANGED cleaner => CleanerOK'
  BY DEF CleanerOK
<1>r. ASSUME NEW t \in Proc, Return(t), UNCHANGED clearAt, ttl' \in [Proc -> Nat],
             pc[t] # "clear"
      PROVE  LocalsOK'
  BY <1>r DEF Return, Goto, LocalsOK, Reading
<1>1. CASE Tick
  <2>1. now' \in Nat
    BY <1>1 DEF Tick
  <2> QED
    BY <1>1, <2>1, <1>m, <1>l, <1>c DEF Tick
<1>2. ASSUME NEW t \in Proc, NEW q \in Question, Get(t, q)
      PROVE  TypeOK'
  <2>1. <<q, "positive">> \in Key
    BY DEF Key
  <2>2. LocalsOK'
    BY ZenonT(10), <1>2, <2>1 DEF Get, Goto, Reading, LocalsOK
  <2> QED
    BY <1>2, <2>2, <1>m, <1>c DEF Get
<1>3. ASSUME NEW t \in Proc, Lookup(t)
      PROVE  TypeOK'
  <2> DEFINE s == ShardOf[key[t]]
  <2>1. key[t] \in Key /\ s \in Shard /\ pc[t] # "clear"
    BY <1>3 DEF Lookup, LocalsOK, Reading
  <2>l. ttl' = ttl /\ clearAt' = clearAt /\ ttl' \in [Proc -> Nat]
    BY Zenon, <1>3 DEF Lookup, LocalsOK
  <2>4. LocalsOK'
    <3>1. CASE Return(t)
      BY <2>l, <2>1, <3>1, <1>r
    <3>2. CASE UNCHANGED key /\ (Goto(t, "hit") \/ Goto(t, "expired"))
      BY <2>l, <2>1, <3>2 DEF Goto, LocalsOK, Reading
    <3> QED
      BY <1>3, <3>1, <3>2 DEF Lookup
  <2> QED
    BY Zenon, <1>3, <2>1, <2>4, <1>m, <1>c DEF Lookup
<1>4. ASSUME NEW t \in Proc, TouchBegin(t)
      PROVE  TypeOK'
  <2>1. LocalsOK'
    BY <1>4 DEF TouchBegin, Goto, Reading, LocalsOK
  <2>2. ShardOf[key[t]] \in Shard
    BY <1>4 DEF TouchBegin, LocalsOK, Reading
  <2>3. clash' \subseteq Proc /\ raced' \subseteq Shard
    BY <1>4, <2>2 DEF TouchBegin, EnterUpdate, Touching, Evicting, ReadersOf
  <2> QED
    BY <1>4, <2>1, <2>3, <1>m, <1>c DEF TouchBegin
<1>5. ASSUME NEW t \in Proc, TouchEnd(t)
      PROVE  TypeOK'
  <2> DEFINE s == ShardOf[key[t]]
  <2>1. key[t] \in Key /\ s \in Shard /\ lruList[s] \in Seq(Key) /\ pc[t] # "clear"
    BY <1>5 DEF TouchEnd, Reading, LocalsOK, MapsOK
  <2>2. MoveToFront(lruList[s], key[t]) \in Seq(Key)
    BY <2>1, UnlinkProperties, PushFrontProperties DEF MoveToFront
  <2>3. ListOutcomes(t, MoveToFront(lruList[s], key[t])) \subseteq Seq(Key)
    BY <2>2, UnlinkProperties DEF ListOutcomes
  <2>4. PICK list \in ListOutcomes(t, MoveToFront(lruList[s], key[t])) :
            lruList' = [lruList EXCEPT ![s] = list]
    BY Zenon, <1>5 DEF TouchEnd
  <2>5. MapsOK'
    BY <1>5, <2>1, <2>3, <2>4 DEF TouchEnd, MapsOK
  <2>6. LocalsOK'
    BY Zenon, <1>5, <2>1, <1>r DEF TouchEnd, LocalsOK
  <2> QED
    BY Zenon, <1>5, <2>5, <2>6, <1>c DEF TouchEnd
<1>6. ASSUME NEW t \in Proc, EvictBegin(t)
      PROVE  TypeOK'
  <2>1. LocalsOK'
    BY <1>6 DEF EvictBegin, Goto, Reading, LocalsOK
  <2>2. ShardOf[key[t]] \in Shard
    BY <1>6 DEF EvictBegin, LocalsOK, Reading
  <2>3. clash' \subseteq Proc /\ raced' \subseteq Shard
    BY <1>6, <2>2 DEF EvictBegin, EnterUpdate, Touching, Evicting, ReadersOf
  <2> QED
    BY <1>6, <2>1, <2>3, <1>m, <1>c DEF EvictBegin
<1>7. ASSUME NEW t \in Proc, EvictEnd(t)
      PROVE  TypeOK'
  <2> DEFINE s == ShardOf[key[t]]
  <2>1. key[t] \in Key /\ s \in Shard /\ lruList[s] \in Seq(Key) /\ pc[t] # "clear"
    BY <1>7 DEF EvictEnd, Reading, LocalsOK, MapsOK
  <2>2. Unlink(lruList[s], key[t]) \in Seq(Key)
    BY <2>1, UnlinkProperties
  <2>3. ListOutcomes(t, Unlink(lruList[s], key[t])) \subseteq Seq(Key)
    BY <2>2, UnlinkProperties DEF ListOutcomes
  <2>4. PICK list \in ListOutcomes(t, Unlink(lruList[s], key[t])) :
            lruList' = [lruList EXCEPT ![s] = list]
    BY Zenon, <1>7 DEF EvictEnd
  <2>5. MapsOK'
    BY Zenon, <1>7, <2>1, <2>3, <2>4, MapUpdate DEF EvictEnd, DeleteFromMaps, MapsOK
  <2>6. LocalsOK'
    BY Zenon, <1>7, <2>1, <1>r DEF EvictEnd, LocalsOK
  <2> QED
    BY Zenon, <1>7, <2>5, <2>6, <1>c DEF EvictEnd
<1>s. ASSUME NEW t \in Proc, NEW k \in Key, NEW life \in Nat, BeginSet(t, k, life)
      PROVE  TypeOK'
  <2>1. LocalsOK'
    BY <1>s DEF BeginSet, Goto, Reading, LocalsOK
  <2> QED
    BY <1>s, <2>1, <1>m, <1>c DEF BeginSet
<1>8. ASSUME NEW t \in Proc, NEW q \in Question, NEW m \in Messages, Set(t, q, m)
      PROVE  TypeOK'
  <2>1. <<q, "positive">> \in Key /\ Lifetime(m) \in Nat
    BY LifetimeType DEF Key
  <2> QED
    BY <1>8, <2>1, <1>s DEF Set
<1>9. ASSUME NEW t \in Proc, NEW q \in Question, SetNegative(t, q)
      PROVE  TypeOK'
  <2>1. <<q, "negative">> \in Key
    BY DEF Key
  <2> QED
    BY <1>9, <2>1, <1>s DEF SetNegative
<1>10. ASSUME NEW t \in Proc, EvictOldest(t)
       PROVE  TypeOK'
  <2> DEFINE s == ShardOf[key[t]]
             list == lruList[s]
  <2>1. s \in Shard /\ list \in Seq(Key)
    BY <1>10 DEF EvictOldest, LocalsOK, MapsOK
  <2>2. CASE list = <<>>
    BY Zenon, <1>10, <2>2, <1>m, <1>l, <1>c DEF EvictOldest
  <2>3. CASE list # <<>>
    <3>1. list[Len(list)] \in Key /\ SubSeq(list, 1, Len(list) - 1) \in Seq(Key)
      BY Zenon, <2>1, <2>3, DropLastType
    <3>2. MapsOK'
      <4> DEFINE k == list[Len(list)]
      <4>1. /\ items' = [items EXCEPT ![s][k] = None]
            /\ lruMap' = [lruMap EXCEPT ![s][k] = None]
            /\ lruList' = [lruList EXCEPT ![s] = SubSeq(list, 1, Len(list) - 1)]
        BY Zenon, <1>10, <2>3 DEF EvictOldest, DeleteFromMaps
      <4> HIDE DEF k, s
      <4>2. items' \in [Shard -> PartialMap] /\ lruMap' \in [Shard -> PartialMap]
        BY Zenon, <2>1, <3>1, <4>1, MapUpdate DEF MapsOK, k
      <4> QED
        BY Zenon, <2>1, <3>1, <4>1, <4>2 DEF MapsOK
    <3> QED
      BY <1>10, <3>2, <1>l, <1>c DEF EvictOldest
  <2> QED
    BY Zenon, <2>2, <2>3
<1>11. ASSUME NEW t \in Proc, Insert(t)
       PROVE  TypeOK'
  <2> DEFINE s == ShardOf[key[t]]
             old == IF key[t] \in Held(lruMap[s]) THEN Unlink(lruList[s], key[t])
                                                  ELSE lruList[s]
  <2>1. key[t] \in Key /\ s \in Shard /\ lruList[s] \in Seq(Key) /\ pc[t] # "clear"
    BY <1>11 DEF Insert, LocalsOK, MapsOK
  <2>2. <<key[t]>> \o old \in Seq(Key)
    BY Zenon, <2>1, UnlinkProperties, PushFrontProperties
  <2>3. lruList' = [lruList EXCEPT ![s] = <<key[t]>> \o old]
    BY <1>11 DEF Insert
  <2>4. now + ttl[t] \in Nat /\ ttl' \in [Proc -> Nat]
    <3>1. now \in Nat /\ ttl \in [Proc -> Nat] /\ ttl' = [ttl EXCEPT ![t] = 0]
      BY Zenon, <1>11 DEF Insert, LocalsOK
    <3>2. ttl[t] \in Nat /\ \A m, n \in Nat : m + n \in Nat
      BY <3>1
    <3>3. ttl' \in [Proc -> Nat]
      BY <3>1
    <3> QED
      BY Zenon, <3>1, <3>2, <3>3
  <2> HIDE DEF old
  <2>5. MapsOK'
    <3>1. /\ items' = [items EXCEPT ![s][key[t]] = now + ttl[t]]
          /\ lruMap' = [lruMap EXCEPT ![s][key[t]] = now + ttl[t]]
      BY <1>11 DEF Insert
    <3>2. items' \in [Shard -> PartialMap] /\ lruMap' \in [Shard -> PartialMap]
      BY Zenon, <2>1, <2>4, <3>1, MapUpdate DEF MapsOK
    <3> QED
      BY Zenon, <2>1, <2>2, <2>3, <3>2 DEF MapsOK
  <2>6. LocalsOK'
    BY Zenon, <1>11, <2>1, <2>4, <1>r DEF Insert
  <2> QED
    BY Zenon, <1>11, <2>5, <2>6, <1>c DEF Insert
<1>12. ASSUME NEW t \in Proc, Clear(t)
       PROVE  TypeOK'
  <2>1. LocalsOK'
    BY <1>12 DEF Clear, Goto, Reading, LocalsOK
  <2> QED
    BY Zenon, <1>12, <2>1, <1>m, <1>c DEF Clear
<1>13. ASSUME NEW t \in Proc, ClearShard(t)
       PROVE  TypeOK'
  <2>1. LocalsOK'
    BY <1>13 DEF ClearShard, Goto, Reading, LocalsOK
  <2>2. EmptyMap \in PartialMap /\ <<>> \in Seq(Key)
    BY DEF EmptyMap, PartialMap
  <2>3. MapsOK'
    BY Zenon, <1>13, <2>2 DEF ClearShard, MapsOK
  <2> QED
    BY Zenon, <1>13, <2>1, <2>3, <1>c DEF ClearShard
<1>14. CASE CleanStart
  <2>1. CleanerOK'
    BY <1>14 DEF CleanStart, CleanerOK
  <2> QED
    BY <1>14, <2>1, <1>m, <1>l DEF CleanStart
<1>15. CASE CleanLock
  <2>1. CleanerOK'
    BY Zenon, <1>15 DEF CleanLock, CleanerOK
  <2> QED
    BY <1>15, <2>1, <1>m, <1>l DEF CleanLock
<1>16. CASE CleanUnlock
  <2>1. CleanerOK'
    BY <1>16 DEF CleanUnlock, CleanerOK
  <2> QED
    BY Zenon, <1>16, <2>1, <1>m, <1>l DEF CleanUnlock
<1>17. ASSUME NEW k \in Key, CleanEntry(k)
       PROVE  TypeOK'
  <2> DEFINE s == cleaner.shard
  <2>1. s \in Shard
    BY <1>17 DEF CleanEntry, CleanerOK, Shard
  <2>2. Unlink(lruList[s], k) \in Seq(Key)
    BY <2>1, UnlinkProperties DEF MapsOK
  <2>3. MapsOK'
    <3>1. /\ items' = [items EXCEPT ![s][k] = None]
          /\ \/ /\ lruMap' = [lruMap EXCEPT ![s][k] = None]
                /\ lruList' = [lruList EXCEPT ![s] = Unlink(lruList[s], k)]
             \/ lruMap' = lruMap /\ lruList' = lruList
      BY <1>17 DEF CleanEntry
    <3> HIDE DEF s
    <3>2. [items EXCEPT ![s][k] = None] \in [Shard -> PartialMap]
      BY Zenon, <2>1, MapUpdate DEF MapsOK
    <3>3. [lruMap EXCEPT ![s][k] = None] \in [Shard -> PartialMap]
      BY Zenon, <2>1, MapUpdate DEF MapsOK
    <3>4. [lruList EXCEPT ![s] = Unlink(lruList[s], k)] \in [Shard -> Seq(Key)]
      BY <2>1, <2>2 DEF MapsOK
    <3> QED
      BY Zenon, <3>1, <3>2, <3>3, <3>4 DEF MapsOK
  <2> QED
    BY Zenon, <1>17, <2>3, <1>l, <1>c DEF CleanEntry
<1>18. CASE UNCHANGED vars
  BY <1>18, <1>m, <1>l, <1>c DEF vars
<1> QED
  BY Zenon, <1>1, <1>2, <1>3, <1>4, <1>5, <1>6, <1>7, <1>8, <1>9, <1>10, <1>11, <1>12,
     <1>13, <1>14, <1>15, <1>16, <1>17, <1>18 DEF Next, GetStep

\* Every reachable state of the cache is well typed: in particular a
\* goroutine inside get or set always has a key, and the walks of Clear and
\* cleanExpired stay within the shards.
THEOREM TypeCorrect == Spec => []TypeOK
<1>1. Init => TypeOK
  BY CacheAssumption DEF Init, TypeOK, MapsOK, LocalsOK, CleanerOK, PartialMap, EmptyMap,
                         Shard, Reading
<1> QED
  BY <1>1, TypeStep, PTL DEF Spec

(***************************************************************************)
(* The indexes agree and the capacity is held.                             *)
(***************************************************************************)

\* A goroutine's update is exposed to another one's only in a raced shard.
ClashKnown ==
    \A t \in clash : pc[t] \in {"touch", "evict"} /\ ShardOf[key[t]] \in raced

CacheInv == TypeOK /\ ClashKnown /\ IndexesAgree /\ CapacityHeld

\* delete(map, k) removes k and nothing else.
LEMMA HeldDelete ==
    ASSUME NEW map \in PartialMap, NEW k \in Key
    PROVE  Held([map EXCEPT ![k] = None]) = Held(map) \ {k}
BY DEF Held, PartialMap

\* map[k] = v adds k and nothing else.
LEMMA HeldInsert ==
    ASSUME NEW map \in PartialMap, NEW k \in Key, NEW v \in Nat
    PROVE  Held([map EXCEPT ![k] = v]) = Held(map) \cup {k}
BY CacheAssumption DEF Held, PartialMap

\* The history variables: an update that overlaps no other is not in clash, so a
\* shard outside raced is touched by undisturbed updates only.
LEMMA ClashStep == TypeOK /\ ClashKnown /\ [Next]_vars => ClashKnown' /\ raced \subseteq raced'
<1> SUFFICES ASSUME TypeOK, ClashKnown, [Next]_vars PROVE ClashKnown' /\ raced \subseteq raced'
  OBVIOUS
<1> USE DEF ClashKnown
<1>0. clash \subseteq Proc /\ pc \in [Proc -> Reading \cup {"idle", "ensure", "clear"}]
        /\ key \in [Proc -> Key \cup {None}]
  BY DEF TypeOK, LocalsOK
<1>1. ASSUME NEW t \in Proc, NEW label, Goto(t, label), pc[t] \notin {"touch", "evict"},
             UNCHANGED clash, raced \subseteq raced',
             \A u \in Proc \ {t} : key'[u] = key[u]
      PROVE  ClashKnown'
  BY <1>0, <1>1 DEF Goto
<1>2. ASSUME NEW t \in Proc, EnterUpdate(t, ShardOf[key[t]]), UNCHANGED key,
             Goto(t, "touch") \/ Goto(t, "evict"), pc[t] \in Reading
      PROVE  ClashKnown' /\ raced \subseteq raced'
  <2> DEFINE s == ShardOf[key[t]]
             others == Touching(s) \cup Evicting(s)
  <2>1. \A u \in others : u \in Proc /\ pc[u] \in {"touch", "evict"} /\ ShardOf[key[u]] = s
    BY Zenon DEF Touching, Evicting, ReadersOf
  <2>2. raced \subseteq raced' /\ (others # {} => s \in raced')
    BY <1>2 DEF EnterUpdate
  <2>3. clash' \subseteq clash \cup others \cup {t} /\ (others = {} => clash' = clash)
    BY <1>2 DEF EnterUpdate
  <2>4. pc'[t] \in {"touch", "evict"} /\ \A u \in Proc \ {t} : pc'[u] = pc[u]
    BY <1>0, <1>2 DEF Goto
  <2>5. ASSUME NEW u \in clash'
        PROVE  pc'[u] \in {"touch", "evict"} /\ ShardOf[key'[u]] \in raced'
    <3>1. CASE u \in clash
      BY Zenon, <3>1, <2>2, <2>4, <1>0, <1>2
    <3>2. CASE u \notin clash
      <4>1. others # {} /\ u \in others \cup {t}
        BY <3>2, <2>3, <2>5
      <4> QED
        BY Zenon, <4>1, <2>1, <2>2, <2>4, <1>2
    <3> QED
      BY <3>1, <3>2
  <2> QED
    BY <2>2, <2>5
<1>3. ASSUME NEW t \in Proc, Return(t), clash' = clash \ {t}, UNCHANGED raced
      PROVE  ClashKnown'
  BY <1>0, <1>3 DEF Return, Goto
<1>4. CASE Tick
  BY <1>4 DEF Tick, locals
<1>5. ASSUME NEW t \in Proc, NEW q \in Question, Get(t, q)
      PROVE  ClashKnown' /\ raced \subseteq raced'
  BY Zenon, <1>5, <1>1, <1>0 DEF Get
<1>6. ASSUME NEW t \in Proc, Lookup(t)
      PROVE  ClashKnown' /\ raced \subseteq raced'
  <2>1. /\ pc[t] = "locked" /\ raced \subseteq raced' /\ UNCHANGED clash
        /\ Goto(t, "idle") \/ Goto(t, "hit") \/ Goto(t, "expired")
        /\ \A u \in Proc \ {t} : key'[u] = key[u]
    BY <1>6, <1>0 DEF Lookup, Return
  <2> QED
    BY Zenon, <2>1, <1>1
<1>7. ASSUME NEW t \in Proc, TouchBegin(t) \/ EvictBegin(t)
      PROVE  ClashKnown' /\ raced \subseteq raced'
  BY Zenon, <1>7, <1>2 DEF TouchBegin, EvictBegin, Reading
<1>8. ASSUME NEW t \in Proc, TouchEnd(t) \/ EvictEnd(t)
      PROVE  ClashKnown' /\ raced \subseteq raced'
  BY <1>8, <1>3 DEF TouchEnd, EvictEnd
<1>9. ASSUME NEW t \in Proc, NEW k \in Key, NEW life, BeginSet(t, k, life)
      PROVE  ClashKnown' /\ raced \subseteq raced'
  BY Zenon, <1>9, <1>1, <1>0 DEF BeginSet
<1>10. ASSUME NEW t \in Proc, NEW q \in Question,
              SetNegative(t, q) \/ \E m \in Messages : Set(t, q, m)
       PROVE  ClashKnown' /\ raced \subseteq raced'
  <2>1. <<q, "positive">> \in Key /\ <<q, "negative">> \in Key
    BY DEF Key
  <2> QED
    BY <1>10, <2>1, <1>9 DEF Set, SetNegative
<1>11. ASSUME NEW t \in Proc, EvictOldest(t)
       PROVE  ClashKnown' /\ raced \subseteq raced'
  BY <1>11 DEF EvictOldest, locals
<1>12. ASSUME NEW t \in Proc, Insert(t)
       PROVE  ClashKnown' /\ raced \subseteq raced'
  BY Zenon, <1>12, <1>1, <1>0 DEF Insert, Return
<1>13. ASSUME NEW t \in Proc, Clear(t) \/ ClearShard(t)
       PROVE  ClashKnown' /\ raced \subseteq raced'
  BY <1>13, <1>1 DEF Clear, ClearShard
<1>14. CASE CleanStart \/ CleanLock \/ CleanUnlock \/ \E k \in Key : CleanEntry(k)
  BY Zenon, <1>14 DEF CleanStart, CleanLock, CleanUnlock, CleanEntry, locals
<1>15. CASE UNCHANGED vars
  BY Zenon, <1>15 DEF vars, locals
<1> QED
  BY Zenon, <1>4, <1>5, <1>6, <1>7, <1>8, <1>10, <1>11, <1>12, <1>13, <1>14, <1>15
     DEF Next, GetStep

\* What a step does to the three structures of one shard is one of six
\* things; the rest of the proof is about these.
LEMMA ShardKept ==
    ASSUME NEW s \in Shard, items'[s] = items[s], lruMap'[s] = lruMap[s],
           lruList'[s] = lruList[s]
    PROVE  /\ Agree(s) => Agree(s)'
           /\ Cardinality(Held(items[s])) <= MaxShardSize
                  => Cardinality(Held(items'[s])) <= MaxShardSize
BY DEF Agree

\* Deleting a key from both maps and the list (evictEntry, cleanExpired) keeps the
\* shard's structures in agreement and does not make it larger.
LEMMA ShardDelete ==
    ASSUME NEW s \in Shard, NEW k \in Key, TypeOK,
           items'[s] = [items[s] EXCEPT ![k] = None]
    PROVE  /\ Cardinality(Held(items[s])) <= MaxShardSize
                  => Cardinality(Held(items'[s])) <= MaxShardSize
           /\ /\ lruMap'[s] = [lruMap[s] EXCEPT ![k] = None]
              /\ lruList'[s] = Unlink(lruList[s], k)
              /\ Agree(s)
              => Agree(s)'
<1>1. items[s] \in PartialMap /\ lruList[s] \in Seq(Key)
  BY DEF TypeOK, MapsOK
<1>2. Held(items'[s]) = Held(items[s]) \ {k}
  BY Zenon, <1>1, HeldDelete
<1>3. Cardinality(Held(items'[s])) <= Cardinality(Held(items[s]))
  BY <1>2, HeldFinite, FS_RemoveElement
<1>4. /\ Cardinality(Held(items'[s])) \in Nat
      /\ Cardinality(Held(items[s])) \in Nat
      /\ MaxShardSize \in Int
  BY HeldFinite, CacheAssumption DEF MaxShardSize
<1>5. ASSUME lruMap'[s] = [lruMap[s] EXCEPT ![k] = None],
             lruList'[s] = Unlink(lruList[s], k),
             Agree(s)
      PROVE  Agree(s)'
  BY ZenonT(10), <1>1, <1>2, <1>5, UnlinkProperties DEF Agree
<1> QED
  BY <1>3, <1>4, <1>5

\* MoveToFront keeps the structures of a shard in agreement.
LEMMA ShardTouch ==
    ASSUME NEW s \in Shard, NEW k \in Key, TypeOK,
           items'[s] = items[s], lruMap'[s] = lruMap[s],
           lruList'[s] = MoveToFront(lruList[s], k), Agree(s)
    PROVE  Agree(s)'
<1>1. lruList[s] \in Seq(Key)
  BY DEF TypeOK, MapsOK
<1>2. CASE k \notin Listed(lruList[s])
  BY <1>2 DEF MoveToFront, Agree
<1>3. CASE k \in Listed(lruList[s])
  <2> DEFINE rest == Unlink(lruList[s], k)
  <2>1. rest \in Seq(Key) /\ Listed(rest) = Listed(lruList[s]) \ {k} /\ Distinct(rest)
    BY <1>1, UnlinkProperties DEF Agree
  <2>2. lruList'[s] = <<k>> \o rest
    BY <1>3 DEF MoveToFront
  <2> HIDE DEF rest
  <2>3. /\ Listed(<<k>> \o rest) = Listed(rest) \cup {k}
        /\ Distinct(<<k>> \o rest)
    BY Zenon, <2>1, PushFrontProperties
  <2> QED
    BY Zenon, <1>3, <2>1, <2>2, <2>3 DEF Agree
<1> QED
  BY <1>2, <1>3

\* set's insertion after ensureCapacity keeps the structures in agreement and the
\* shard within its share, whether or not the key was there before.
LEMMA ShardInsert ==
    ASSUME NEW s \in Shard, NEW k \in Key, NEW v \in Nat, TypeOK, ~Full(s),
           items'[s] = [items[s] EXCEPT ![k] = v],
           lruMap'[s] = [lruMap[s] EXCEPT ![k] = v],
           lruList'[s] = <<k>> \o (IF k \in Held(lruMap[s]) THEN Unlink(lruList[s], k)
                                                            ELSE lruList[s])
    PROVE  /\ Cardinality(Held(items'[s])) <= MaxShardSize
           /\ Agree(s) => Agree(s)'
<1>1. items[s] \in PartialMap /\ lruList[s] \in Seq(Key)
  BY DEF TypeOK, MapsOK
<1>2. Held(items'[s]) = Held(items[s]) \cup {k}
  BY <1>1, HeldInsert
<1>3. Cardinality(Held(items'[s])) <= Cardinality(Held(items[s])) + 1
  <2>1. IsFiniteSet(Held(items[s])) /\ Cardinality(Held(items[s])) \in Nat
    BY HeldFinite
  <2>2. Cardinality(Held(items[s]) \cup {k}) =
            IF k \in Held(items[s]) THEN Cardinality(Held(items[s]))
                                    ELSE Cardinality(Held(items[s])) + 1
    BY Zenon, <2>1, FS_AddElement
  <2>3. Cardinality(Held(items[s]) \cup {k}) <= Cardinality(Held(items[s])) + 1
    BY <2>1, <2>2
  <2> QED
    BY Zenon, <1>2, <2>3
<1>4. /\ Cardinality(Held(items'[s])) \in Nat
      /\ Cardinality(Held(items[s])) \in Nat
      /\ MaxShardSize \in Int
  BY HeldFinite, CacheAssumption DEF MaxShardSize
<1>5. ASSUME Agree(s)
      PROVE  Agree(s)'
  <2> DEFINE rest == IF k \in Held(lruMap[s]) THEN Unlink(lruList[s], k) ELSE lruList[s]
  <2>1. rest \in Seq(Key) /\ Listed(rest) = Listed(lruList[s]) \ {k} /\ Distinct(rest)
    BY <1>1, <1>5, UnlinkProperties DEF Agree
  <2>2. lruList'[s] = <<k>> \o rest
    BY Zenon
  <2> HIDE DEF rest
  <2>3. /\ Listed(<<k>> \o rest) = Listed(rest) \cup {k}
        /\ Distinct(<<k>> \o rest)
    BY <2>1, PushFrontProperties
  <2> QED
    BY ZenonT(10), <1>2, <1>5, <2>1, <2>2, <2>3 DEF Agree
<1> QED
  BY <1>3, <1>4, <1>5 DEF Full

\* Every step of the cache preserves the inductive invariant.
LEMMA InvStep == CacheInv /\ [Next]_vars => CacheInv'
<1> SUFFICES ASSUME CacheInv, [Next]_vars PROVE CacheInv'
  OBVIOUS
<1> USE DEF CacheInv
<1>1. TypeOK' /\ ClashKnown' /\ raced \subseteq raced'
  BY Zenon, TypeStep, ClashStep
<1> DEFINE Fits(s) == Cardinality(Held(items[s])) <= MaxShardSize
           Kept(s) == /\ items'[s] = items[s]
                      /\ lruMap'[s] = lruMap[s]
                      /\ lruList'[s] = lruList[s]
           Good(s) == Fits(s)' /\ (s \notin raced => Agree(s)')
<1>2. SUFFICES \A s \in Shard : Good(s)
  BY <1>1 DEF IndexesAgree, CapacityHeld
<1>3. \A s \in Shard : Fits(s) /\ (s \notin raced => Agree(s))
  BY DEF IndexesAgree, CapacityHeld
<1>4. \A s \in Shard : Kept(s) => Good(s)
  BY Zenon, <1>3, ShardKept
<1>5. /\ items \in [Shard -> PartialMap]
      /\ lruMap \in [Shard -> PartialMap]
      /\ lruList \in [Shard -> Seq(Key)]
      /\ \A t \in Proc : pc[t] \in Reading \cup {"ensure"} =>
             key[t] \in Key /\ ShardOf[key[t]] \in Shard
  BY CacheAssumption DEF TypeOK, MapsOK, LocalsOK
<1>6. CASE UNCHANGED maps
  BY <1>4, <1>6 DEF maps
<1>7. ASSUME NEW t \in Proc, TouchEnd(t)
      PROVE  \A s \in Shard : Good(s)
  <2>1. PICK k \in Key, s \in Shard : k = key[t] /\ s = ShardOf[key[t]]
    BY <1>7, <1>5 DEF TouchEnd, Reading
  <2>2. PICK list \in ListOutcomes(t, MoveToFront(lruList[s], k)) :
            lruList' = [lruList EXCEPT ![s] = list]
    BY Zenon, <1>7, <2>1 DEF TouchEnd
  <2>3. items' = items /\ lruMap' = lruMap
    BY Zenon, <1>7 DEF TouchEnd
  <2>4. \A r \in Shard \ {s} : Kept(r)
    BY Zenon, <2>2, <2>3, <1>5
  <2>5. lruList'[s] = list
    BY <2>1, <2>2, <1>5
  <2>6. Fits(s)'
    BY Zenon, <2>1, <2>3, <1>3
  <2>7. ASSUME s \notin raced PROVE Agree(s)'
    <3>1. t \notin clash
      BY <2>1, <2>7 DEF ClashKnown
    <3>2. list = MoveToFront(lruList[s], k)
      BY <3>1, <2>2 DEF ListOutcomes
    <3> QED
      BY Zenon, <2>3, <2>5, <2>7, <3>2, <1>3, ShardTouch
  <2> QED
    BY Zenon, <2>4, <2>6, <2>7, <1>4
<1>8. ASSUME NEW t \in Proc, EvictEnd(t)
      PROVE  \A s \in Shard : Good(s)
  <2>1. PICK k \in Key, s \in Shard : k = key[t] /\ s = ShardOf[key[t]]
    BY Zenon, <1>8, <1>5 DEF EvictEnd, Reading
  <2>2. PICK list \in ListOutcomes(t, Unlink(lruList[s], k)) :
            lruList' = [lruList EXCEPT ![s] = list]
    BY Zenon, <1>8, <2>1 DEF EvictEnd
  <2>3. /\ items' = [items EXCEPT ![s][k] = None]
        /\ lruMap' = [lruMap EXCEPT ![s][k] = None]
    BY Zenon, <1>8, <2>1 DEF EvictEnd, DeleteFromMaps
  <2>4. ASSUME s \notin raced PROVE list = Unlink(lruList[s], k)
    BY Zenon, <2>1, <2>2, <2>4 DEF ClashKnown, ListOutcomes
  <2>5. \A r \in Shard \ {s} : Kept(r)
    BY <2>2, <2>3, <1>5
  <2>6. /\ items'[s] = [items[s] EXCEPT ![k] = None]
        /\ lruMap'[s] = [lruMap[s] EXCEPT ![k] = None]
        /\ lruList'[s] = list
    BY Zenon, <2>1, <2>2, <2>3, <1>5
  <2>7. Good(s)
    BY Zenon, <2>1, <2>4, <2>6, <1>3, ShardDelete
  <2> QED
    BY Zenon, <2>5, <2>7, <1>4
<1>9. ASSUME NEW t \in Proc, EvictOldest(t)
      PROVE  \A s \in Shard : Good(s)
  <2>1. PICK s \in Shard, list \in Seq(Key) : s = ShardOf[key[t]] /\ list = lruList[s]
    BY Zenon, <1>9, <1>5 DEF EvictOldest
  <2>2. CASE list = <<>>
    BY Zenon, <1>9, <2>1, <2>2, <1>4 DEF EvictOldest, maps
  <2>3. CASE list # <<>>
    <3>2. PICK k \in Key : k = list[Len(list)]
      BY <2>3
    <3>1. /\ items' = [items EXCEPT ![s][k] = None]
          /\ lruMap' = [lruMap EXCEPT ![s][k] = None]
          /\ lruList' = [lruList EXCEPT ![s] = SubSeq(list, 1, Len(list) - 1)]
      BY Zenon, <1>9, <2>1, <2>3, <3>2 DEF EvictOldest, DeleteFromMaps
    <3>3. ASSUME s \notin raced
          PROVE  /\ Listed(SubSeq(list, 1, Len(list) - 1)) = Listed(list) \ {k}
                 /\ Distinct(SubSeq(list, 1, Len(list) - 1))
      BY Zenon, <2>1, <2>3, <3>2, <3>3, <1>3, DropLastProperties DEF Agree
    <3> DEFINE front == SubSeq(list, 1, Len(list) - 1)
    <3> HIDE DEF front
    <3>4. \A r \in Shard \ {s} : Kept(r)
      BY <3>1, <1>5
    <3>5. /\ items'[s] = [items[s] EXCEPT ![k] = None]
          /\ lruMap'[s] = [lruMap[s] EXCEPT ![k] = None]
          /\ lruList'[s] = front
      BY Zenon, <2>1, <3>1, <1>5 DEF front
    <3>6. Fits(s)'
      BY Zenon, <2>1, <3>2, <3>5, <1>3, ShardDelete
    <3>7. ASSUME s \notin raced PROVE Agree(s)'
      <4>1. Held(items'[s]) = Held(items[s]) \ {k}
        <5>1. Held([items[s] EXCEPT ![k] = None]) = Held(items[s]) \ {k}
          BY Zenon, <1>5, HeldDelete
        <5> QED
          BY <5>1, <3>5
      <4>2. Listed(front) = Listed(lruList[s]) \ {k} /\ Distinct(front)
        BY Zenon, <2>1, <3>3, <3>7 DEF front
      <4>3. items[s] = lruMap[s] /\ Listed(lruList[s]) = Held(items[s])
        BY <3>7, <2>1, <1>3 DEF Agree
      <4>4. items'[s] = lruMap'[s]
        BY <3>5, <4>3
      <4>5. Listed(lruList'[s]) = Held(items'[s]) /\ Distinct(lruList'[s])
        BY Zenon, <3>5, <4>1, <4>2, <4>3
      <4> QED
        BY <4>4, <4>5 DEF Agree
    <3> QED
      BY <3>4, <3>6, <3>7, <1>4
  <2> QED
    BY <2>2, <2>3
<1>10. ASSUME NEW t \in Proc, Insert(t)
       PROVE  \A s \in Shard : Good(s)
  <2>1. PICK k \in Key, s \in Shard, v \in Nat :
            k = key[t] /\ s = ShardOf[key[t]] /\ v = now + ttl[t] /\ ~Full(s)
    <3>1. /\ key[t] \in Key /\ ShardOf[key[t]] \in Shard /\ ~Full(ShardOf[key[t]])
          /\ now \in Nat /\ ttl \in [Proc -> Nat]
      BY Zenon, <1>10, <1>5 DEF Insert, TypeOK, LocalsOK
    <3>2. now + ttl[t] \in Nat
      BY <3>1
    <3> QED
      BY Zenon, <3>1, <3>2
  <2> DEFINE list == <<k>> \o (IF k \in Held(lruMap[s]) THEN Unlink(lruList[s], k)
                                                        ELSE lruList[s])
  <2>2. /\ items' = [items EXCEPT ![s][k] = v]
        /\ lruMap' = [lruMap EXCEPT ![s][k] = v]
        /\ lruList' = [lruList EXCEPT ![s] = list]
    BY <1>10, <2>1 DEF Insert
  <2> HIDE DEF list
  <2>3. \A r \in Shard \ {s} : Kept(r)
    BY Zenon, <2>2, <1>5
  <2>4. /\ items'[s] = [items[s] EXCEPT ![k] = v]
        /\ lruMap'[s] = [lruMap[s] EXCEPT ![k] = v]
        /\ lruList'[s] = list
    BY Zenon, <2>1, <2>2, <1>5
  <2>5. /\ Cardinality(Held(items'[s])) <= MaxShardSize
        /\ Agree(s) => Agree(s)'
    <3>1. lruList'[s] = <<k>> \o (IF k \in Held(lruMap[s]) THEN Unlink(lruList[s], k)
                                                            ELSE lruList[s])
      BY <2>4 DEF list
    <3>2. TypeOK /\ ~Full(s)
      BY <2>1
    <3> HIDE DEF CacheInv, Fits, Good, Kept
    <3> QED
      BY Zenon, <2>4, <3>1, <3>2, ShardInsert
  <2>6. Good(s)
    BY Zenon, <2>5, <1>3
  <2> QED
    BY Zenon, <2>3, <2>6, <1>4
<1>11. ASSUME NEW t \in Proc, ClearShard(t)
       PROVE  \A s \in Shard : Good(s)
  <2>1. PICK s \in Shard : s = clearAt[t]
    BY <1>11 DEF ClearShard, TypeOK, LocalsOK, Shard
  <2>2. /\ items' = [items EXCEPT ![s] = EmptyMap]
        /\ lruMap' = [lruMap EXCEPT ![s] = EmptyMap]
        /\ lruList' = [lruList EXCEPT ![s] = <<>>]
    BY <1>11, <2>1 DEF ClearShard
  <2>3. \A r \in Shard \ {s} : Kept(r)
    BY <2>2, <1>5
  <2>4. items'[s] = EmptyMap /\ lruMap'[s] = EmptyMap /\ lruList'[s] = <<>>
    BY <2>1, <2>2, <1>5
  <2>5. Held(EmptyMap) = {}
    BY DEF Held, EmptyMap
  <2>6. Listed(<<>>) = {} /\ Distinct(<<>>)
    BY DEF Listed, Distinct
  <2>7. Cardinality({}) = 0 /\ MaxShardSize \in Nat
    BY FS_EmptySet, CacheAssumption DEF MaxShardSize
  <2>8. Good(s)
    BY <2>4, <2>5, <2>6, <2>7 DEF Agree
  <2> QED
    BY Zenon, <2>3, <2>8, <1>4
<1>12. ASSUME NEW k \in Key, CleanEntry(k)
       PROVE  \A s \in Shard : Good(s)
  <2>1. PICK s \in Shard : s = cleaner.shard
    BY <1>12 DEF CleanEntry, TypeOK, CleanerOK, Shard
  <2>2. items' = [items EXCEPT ![s][k] = None]
    BY <1>12, <2>1 DEF CleanEntry
  <2>3. \/ /\ lruMap' = [lruMap EXCEPT ![s][k] = None]
           /\ lruList' = [lruList EXCEPT ![s] = Unlink(lruList[s], k)]
        \/ lruMap' = lruMap /\ lruList' = lruList /\ k \notin Held(lruMap[s])
    BY <1>12, <2>1 DEF CleanEntry
  <2>4. k \in Held(items[s])
    BY Zenon, <1>12, <2>1 DEF CleanEntry, Overdue
  <2>5. \A r \in Shard \ {s} : Kept(r)
    BY Zenon, <2>2, <2>3, <1>5
  <2>6. items'[s] = [items[s] EXCEPT ![k] = None]
    BY Zenon, <2>1, <2>2, <1>5
  <2>7. ASSUME s \notin raced
        PROVE  /\ lruMap'[s] = [lruMap[s] EXCEPT ![k] = None]
               /\ lruList'[s] = Unlink(lruList[s], k)
    <3>1. k \in Held(lruMap[s])
      BY Zenon, <2>1, <2>4, <2>7, <1>3 DEF Agree
    <3> QED
      BY <3>1, <2>1, <2>3, <1>5
  <2>8. Good(s)
    BY Zenon, <2>1, <2>6, <2>7, <1>3, ShardDelete
  <2> QED
    BY <2>5, <2>8, <1>4
<1>13. ASSUME NEW t \in Proc, NEW q \in Question,
              Get(t, q) \/ SetNegative(t, q) \/ \E m \in Messages : Set(t, q, m)
       PROVE  UNCHANGED maps
  BY Zenon, <1>13 DEF Get, SetNegative, Set, BeginSet
<1>14. ASSUME NEW t \in Proc, Lookup(t) \/ TouchBegin(t) \/ EvictBegin(t) \/ Clear(t)
       PROVE  UNCHANGED maps
  BY <1>14 DEF Lookup, TouchBegin, EvictBegin, Clear
<1>15. CASE Tick \/ CleanStart \/ CleanLock \/ CleanUnlock \/ UNCHANGED vars
  BY <1>15, <1>6 DEF Tick, CleanStart, CleanLock, CleanUnlock, vars
<1> HIDE DEF CacheInv, Good
<1> QED
  BY Zenon, <1>6, <1>7, <1>8, <1>9, <1>10, <1>11, <1>12, <1>13, <1>14, <1>15 DEF Next, GetStep

\* The structures of every shard agree as long as no two gets have
\* overlapped in it, and no shard ever exceeds its share of maxSize.
THEOREM CacheInvariant == Spec => [](IndexesAgree /\ CapacityHeld)
<1>1. Init => CacheInv
  <2> SUFFICES ASSUME Init PROVE CacheInv
    BY Zenon
  <2>1. TypeOK
    BY CacheAssumption DEF Init, TypeOK, MapsOK, LocalsOK, CleanerOK, PartialMap, EmptyMap,
                           Shard, Reading
  <2>2. Held(EmptyMap) = {} /\ Listed(<<>>) = {} /\ Distinct(<<>>)
    BY DEF Held, EmptyMap, Listed, Distinct
  <2>3. Cardinality({}) = 0 /\ MaxShardSize \in Nat
    BY FS_EmptySet, CacheAssumption DEF MaxShardSize
  <2>4. \A s \in Shard : items[s] = EmptyMap /\ lruMap[s] = EmptyMap /\ lruList[s] = <<>>
    BY DEF Init
  <2>5. IndexesAgree
    BY Zenon, <2>2, <2>4 DEF IndexesAgree, Agree
  <2>6. CapacityHeld
    <3> SUFFICES ASSUME NEW s \in Shard PROVE Cardinality(Held(items[s])) <= MaxShardSize
      BY DEF CapacityHeld
    <3>1. Held(items[s]) = {}
      BY <2>2, <2>4
    <3>2. Cardinality(Held(items[s])) = 0
      BY <2>3, <3>1
    <3> QED
      BY <2>3, <3>2
  <2>7. ClashKnown
    BY DEF Init, ClashKnown
  <2> QED
    BY <2>1, <2>5, <2>6, <2>7 DEF CacheInv
<1>2. CacheInv => IndexesAgree /\ CapacityHeld
  BY DEF CacheInv
<1>3. Spec => []CacheInv
  BY <1>1, InvStep, PTL DEF Spec
<1> QED
  BY <1>2, <1>3, PTL

\* set and setNegative make room before they insert, so that no shard exceeds
\* its share of maxSize, races of list updates included.
THEOREM CapacityRespected == Spec => []CapacityHeld
  BY CacheInvariant, PTL

=============================================================================
