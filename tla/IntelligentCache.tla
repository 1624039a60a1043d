-------------------------- MODULE IntelligentCache --------------------------
(***************************************************************************)
(* The IntelligentCache of internal/performance/intelligent_cache.go. Get  *)
(* reads the entry under the read lock and acts on what it read under the  *)
(* write lock, which it takes afresh. An entry may expire at any moment,   *)
(* whatever time to live it was given; LastUsed is the order of recency.   *)
(***************************************************************************)
EXTENDS Integers, FiniteSets, SequencesExt

CONSTANTS
  CacheKeys,
  Getters,          \* goroutines inside Get or CachedFunction
  Sizes,            \* estimated sizes of values
  MaxEntries,
  ChangeTracking,   \* config.ChangeTracking
  NoEntry,
  MaxSets           \* bound: calls of Set

ASSUME IntelligentCacheAssumption ==
  /\ Sizes \subseteq Nat \ {0}
  /\ MaxEntries \in Nat \ {0} /\ MaxSets \in Nat
  /\ ChangeTracking \in BOOLEAN
  /\ IsFiniteSet(CacheKeys)
  /\ NoEntry \notin [id : Nat, size : Nat, expired : BOOLEAN]

VARIABLES
  entries,     \* c.entries: NoEntry or the entry, told from others by its id
  recency,     \* the keys of entries, the least recently used first
  totalSize,   \* c.totalSize
  sets,        \* calls of Set so far
  getter,      \* getter[u]: where u is in its call, its key, the entry it read
  lateDrop     \* a Get has deleted another entry than the one it read

intelligentVars == <<entries, recency, totalSize, sets, getter, lateDrop>>

Idle == [pc |-> "idle"]
Missed(k) == [pc |-> "missed", key |-> k]
Present == {k \in CacheKeys : entries[k] # NoEntry}

\* The sum of the sizes of the entries ks, as the number of their bytes.
SizeOf(ks) == Cardinality(UNION {{k} \X (1 .. entries[k].size) : k \in ks})

\* The orders, only one in fact, of the keys that are not gone.
RecencyWithout(gone) ==
  LET ks == ToSet(recency) \ gone IN
  {r \in [1 .. Cardinality(ks) -> ks] :
     /\ ToSet(r) = ks
     /\ \A i, j \in DOMAIN r : i < j =>
          \E m, n \in DOMAIN recency : m < n /\ recency[m] = r[i] /\ recency[n] = r[j]}

IntelligentInit ==
  /\ entries = [k \in CacheKeys |-> NoEntry]
  /\ recency = <<>>
  /\ totalSize = 0 /\ sets = 0
  /\ getter = [u \in Getters |-> Idle]
  /\ lateDrop = FALSE

\* The first half of Get: the lookup, and the clock against ExpiresAt.
Get(u, k) ==
  /\ getter[u].pc = "idle"
  /\ getter' = [getter EXCEPT ![u] =
       IF entries[k] = NoEntry THEN Missed(k)
       ELSE [pc |-> IF entries[k].expired THEN "expired" ELSE "hit",
             key |-> k, read |-> entries[k]]]
  /\ UNCHANGED <<entries, recency, totalSize, sets, lateDrop>>

\* Mutation: the size is left in the total.
DropExpiredKeepsSize(u) ==
  LET k == getter[u].key IN
  /\ getter[u].pc = "expired"
  /\ getter' = [getter EXCEPT ![u] = Missed(k)]
  /\ entries' = [entries EXCEPT ![k] = NoEntry]
  /\ recency' \in RecencyWithout({k})
  /\ lateDrop' = (lateDrop \/ entries[k] = NoEntry
                           \/ entries[k].id # getter[u].read.id)
  /\ UNCHANGED <<totalSize, sets>>

\* Get deletes what is there under the key now, and subtracts the size of
\* the entry it read.
DropExpired(u) ==
  LET k == getter[u].key IN
  /\ getter[u].pc = "expired"
  /\ getter' = [getter EXCEPT ![u] = Missed(k)]
  /\ entries' = [entries EXCEPT ![k] = NoEntry]
  /\ recency' \in RecencyWithout({k})
  /\ totalSize' = totalSize - getter[u].read.size
  /\ lateDrop' = (lateDrop \/ entries[k] = NoEntry
                           \/ entries[k].id # getter[u].read.id)
  /\ UNCHANGED sets

\* A hit marks the entry it read as used, which may not be there any more.
Hit(u) ==
  LET k == getter[u].key IN
  /\ getter[u].pc = "hit"
  /\ getter' = [getter EXCEPT ![u] = Idle]
  /\ IF k \in Present /\ entries[k].id = getter[u].read.id
     THEN \E r \in RecencyWithout({k}) : recency' = Append(r, k)
     ELSE UNCHANGED recency
  /\ UNCHANGED <<entries, totalSize, sets, lateDrop>>

\* A full cache evicts before the key is looked up, so that the entry that
\* is refreshed may be the one evicted. The size of an entry that is
\* replaced is subtracted only with change tracking.
Set(k, size) ==
  LET victims == IF Len(recency) >= MaxEntries THEN {Head(recency)} ELSE {}
      kept == [j \in CacheKeys |-> IF j \in victims THEN NoEntry ELSE entries[j]]
      replaced == IF kept[k] # NoEntry /\ ChangeTracking THEN {k} ELSE {} IN
  /\ sets < MaxSets
  /\ sets' = sets + 1
  /\ entries' = [kept EXCEPT ![k] =
       [id |-> sets', size |-> size, expired |-> FALSE]]
  /\ \E r \in RecencyWithout(victims \cup {k}) : recency' = Append(r, k)
  /\ totalSize' = totalSize - SizeOf(victims \cup replaced) + size
  /\ UNCHANGED lateDrop

\* CachedFunction stores what the function returned for the key it missed.
StoreResult(u, size) ==
  /\ getter[u].pc = "missed"
  /\ Set(getter[u].key, size)
  /\ getter' = [getter EXCEPT ![u] = Idle]

\* Get itself returns, or the function fails.
ReturnMiss(u) ==
  /\ getter[u].pc = "missed"
  /\ getter' = [getter EXCEPT ![u] = Idle]
  /\ UNCHANGED <<entries, recency, totalSize, sets, lateDrop>>

Expire(k) ==
  /\ k \in Present /\ ~entries[k].expired
  /\ entries' = [entries EXCEPT ![k].expired = TRUE]
  /\ UNCHANGED <<recency, totalSize, sets, getter, lateDrop>>

\* The tick of the background goroutine.
Cleanup ==
  LET expired == {k \in Present : entries[k].expired} IN
  /\ expired # {}
  /\ entries' = [k \in CacheKeys |-> IF k \in expired THEN NoEntry ELSE entries[k]]
  /\ recency' \in RecencyWithout(expired)
  /\ totalSize' = totalSize - SizeOf(expired)
  /\ UNCHANGED <<sets, getter, lateDrop>>

Clear ==
  /\ entries' = [k \in CacheKeys |-> NoEntry]
  /\ recency' = <<>>
  /\ totalSize' = 0
  /\ UNCHANGED <<sets, getter, lateDrop>>

IntelligentNext ==
  \/ \E u \in Getters : DropExpired(u) \/ Hit(u) \/ ReturnMiss(u)
  \/ \E u \in Getters, size \in Sizes : StoreResult(u, size)
  \/ \E u \in Getters, k \in CacheKeys : Get(u, k)
  \/ \E k \in CacheKeys, size \in Sizes : Set(k, size) /\ UNCHANGED getter
  \/ \E k \in CacheKeys : Expire(k)
  \/ Cleanup \/ Clear

IntelligentSpec == IntelligentInit /\ [][IntelligentNext]_intelligentVars

-----------------------------------------------------------------------------
Entry == [id : 1..MaxSets, size : Sizes, expired : BOOLEAN]

IntelligentTypeOK ==
  /\ entries \in [CacheKeys -> Entry \cup {NoEntry}]
  /\ recency \in Seq(CacheKeys)
  /\ totalSize \in Int /\ sets \in 0..MaxSets
  /\ lateDrop \in BOOLEAN
  /\ \A u \in Getters :
       /\ getter[u].pc \in {"idle", "missed", "expired", "hit"}
       /\ getter[u].pc \in {"expired", "hit"} => getter[u].read \in Entry

\* Whatever Gets, Sets, cleanups and clears overlap, the cache holds at most
\* MaxEntries entries, and the order by which Set evicts has each of their
\* keys once and no other. With change tracking, total_size_bytes is the sum
\* of the sizes of the entries as long as no Get has deleted another entry
\* than the expired one it read: that late deletion is the only way in which
\* it drifts.
CacheAccounts ==
  /\ IntelligentTypeOK
  /\ IsInjective(recency) /\ ToSet(recency) = Present
  /\ Cardinality(Present) <= MaxEntries
  /\ ChangeTracking /\ ~lateDrop => totalSize = SizeOf(Present)

\* The claim of the metric total_size_bytes (IntelligentCacheMetrics, line
\* 72) and of "Remove old entry size from total" (line 192): the total is
\* the sum of the sizes of the entries.
TotalSizeIsSum == totalSize = SizeOf(Present)
=============================================================================
