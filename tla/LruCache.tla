------------------------------ MODULE LruCache ------------------------------
(***************************************************************************)
(* LruCache<Key, Value> of include/dstore/common/lru_cache.h.              *)
(*                                                                         *)
(* The list entries_ is a sequence of [key, value] records, most recently  *)
(* used first; index_ only maps a key to its position in that list and is  *)
(* not represented.  Every operation of the class holds mu_ from its first *)
(* line to its last, so each one is a function from the old list to the    *)
(* new one.                                                                *)
(***************************************************************************)
EXTENDS Integers, Sequences

\* index_.find(key) != index_.end()
LruContains(entries, k) == \E i \in DOMAIN entries : entries[i].key = k

LruPosition(entries, k) == CHOOSE i \in DOMAIN entries : entries[i].key = k

\* it->second->second
LruValue(entries, k) == entries[LruPosition(entries, k)].value

\* entries_.erase(it->second); index_.erase(it)
LruErase(entries, k) ==
  IF LruContains(entries, k)
  THEN LET i == LruPosition(entries, k)
       IN  SubSeq(entries, 1, i - 1) \o SubSeq(entries, i + 1, Len(entries))
  ELSE entries

\* while (index_.size() > capacity_) drop entries_.back()
LruEvict(entries, capacity) ==
  IF Len(entries) > capacity THEN SubSeq(entries, 1, capacity) ELSE entries

LruEntry(k, v) == [key |-> k, value |-> v]

\* put(key, value)
LruPut(entries, k, v, capacity) ==
  LruEvict(<<LruEntry(k, v)>> \o LruErase(entries, k), capacity)

\* get(key) on a hit: splice the entry to the front of the list
LruTouch(entries, k) ==
  <<LruEntry(k, LruValue(entries, k))>> \o LruErase(entries, k)
=============================================================================
