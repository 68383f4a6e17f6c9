------------------------------ MODULE LruCache ------------------------------
(***************************************************************************)
(* What the response cache of server.go promises, without its maps, locks  *)
(* and goroutines: a shard is a list of entries, most recently used first, *)
(* every operation on it is one step, and                                  *)
(*   - a shard never has two entries for one key, nor more than Capacity;  *)
(*   - to make room, the least recently used entry of a full shard goes;   *)
(*   - nothing else goes before it expires, unless the cache is cleared;   *)
(*   - an entry lives for one of the given lifetimes from its insertion,   *)
(*     and a use moves it to the front but does not prolong its life.      *)
(* A shard that is used without synchronisation is Undefined from then on. *)
(***************************************************************************)
EXTENDS Integers, Sequences

CONSTANTS
    Key,
    Shard,
    ShardOf,     \* the shard of each key
    Capacity,    \* of one shard
    Lifetimes,
    Undefined

VARIABLES
    now,
    entries      \* per shard: a sequence of records [key, expires], or Undefined

vars == <<now, entries>>

Init == now = 0 /\ entries = [s \in Shard |-> <<>>]

Tick == now' = now + 1 /\ UNCHANGED entries

Without(list, k) == SelectSeq(list, LAMBDA e : e.key # k)

\* Shard s is defined, and its list becomes list.
Becomes(s, list) ==
    /\ entries[s] # Undefined
    /\ entries' = [entries EXCEPT ![s] = list]
    /\ UNCHANGED now

Use(s, i) == Becomes(s, <<entries[s][i]>> \o Without(entries[s], entries[s][i].key))

Put(k, life) ==
    LET s == ShardOf[k] IN
    /\ Len(entries[s]) < Capacity
    /\ Becomes(s, <<[key |-> k, expires |-> now + life]>> \o Without(entries[s], k))

DropOldest(s) ==
    /\ entries[s] # <<>> /\ Len(entries[s]) = Capacity
    /\ Becomes(s, SubSeq(entries[s], 1, Capacity - 1))

Expire(s, i) ==
    /\ entries[s][i].expires <= now
    /\ Becomes(s, Without(entries[s], entries[s][i].key))

Clear(s) == Becomes(s, <<>>)

Break(s) == Becomes(s, Undefined)

Next ==
    \/ Tick
    \/ \E s \in Shard : Break(s)
    \/ \E s \in Shard :
          /\ entries[s] # Undefined
          /\ \/ DropOldest(s) \/ Clear(s)
             \/ \E i \in 1..Len(entries[s]) : Use(s, i) \/ Expire(s, i)
    \/ \E k \in Key, life \in Lifetimes :
          entries[ShardOf[k]] # Undefined /\ Put(k, life)

Spec == Init /\ [][Next]_vars

=============================================================================
