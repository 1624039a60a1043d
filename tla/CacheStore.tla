----------------------------- MODULE CacheStore -----------------------------
(***************************************************************************)
(* One store of the CacheManager of internal/performance/cache.go. An      *)
(* operation on the store holds its mutex throughout; CachedFunction calls *)
(* the function that it caches between two of them. The gauge of the size  *)
(* is left out: Collect sets it to the size before it exports it.          *)
(***************************************************************************)
EXTENDS Naturals, FiniteSets, SequencesExt

CONSTANTS
  StoreKeys,
  Clients,      \* goroutines that call the manager
  MaxSize,      \* cs.maxSize
  MaxEvictions  \* bound: counted removals of either kind

ASSUME StoreAssumption == MaxSize \in Nat \ {0} /\ MaxEvictions \in Nat

VARIABLES
  data,         \* cs.data: "absent", "fresh" or "expired"
  accessOrder,  \* cs.accessOrder
  evictCount,   \* cs.evictCount
  evictions,    \* cache_evictions_total
  missed,       \* missed[c]: the keys (one or none) that c missed and may store
  lastTouched   \* the keys (one or none) that a hit or a Set touched last

countVars == <<evictCount, evictions>>
storeVars == <<data, accessOrder, countVars, missed, lastTouched>>

Stored == {k \in StoreKeys : data[k] # "absent"}

StoreInit ==
  /\ data = [k \in StoreKeys |-> "absent"]
  /\ accessOrder = <<>>
  /\ evictCount = 0 /\ evictions = 0
  /\ missed = [c \in Clients |-> {}]
  /\ lastTouched = {}

\* updateAccessOrder moves the key to the end.
Touched(order, k) == Append(RemoveFirst(order, k), k)

FindHit(k) ==
  /\ data[k] = "fresh"
  /\ accessOrder' = Touched(accessOrder, k)
  /\ lastTouched' = {k}
  /\ UNCHANGED <<data, countVars, missed>>

\* Mutation: the order keeps the key of an expired entry.
FindMissKeepsOrder(c, k) ==
  /\ missed[c] = {} /\ data[k] # "fresh"
  /\ missed' = [missed EXCEPT ![c] = {k}]
  /\ data' = [data EXCEPT ![k] = "absent"]
  /\ UNCHANGED <<accessOrder, countVars, lastTouched>>

\* An expired entry is deleted.
FindMiss(c, k) ==
  /\ missed[c] = {} /\ data[k] # "fresh"
  /\ missed' = [missed EXCEPT ![c] = {k}]
  /\ data' = [data EXCEPT ![k] = "absent"]
  /\ accessOrder' = RemoveFirst(accessOrder, k)
  /\ UNCHANGED <<countVars, lastTouched>>

\* A full store evicts first, whether or not the key is there already.
StoreSet(k) ==
  LET full == Cardinality(Stored) >= MaxSize
      victims == IF full THEN {Head(accessOrder)} ELSE {}
      order == IF full THEN Tail(accessOrder) ELSE accessOrder IN
  /\ full => evictCount < MaxEvictions
  /\ data' = [j \in StoreKeys |-> IF j = k THEN "fresh"
                             ELSE IF j \in victims THEN "absent" ELSE data[j]]
  /\ accessOrder' = Touched(order, k)
  /\ evictCount' = evictCount + Cardinality(victims)
  /\ lastTouched' = {k}
  /\ UNCHANGED evictions

\* CachedFunction stores what its function returned, whatever was stored
\* under the key meanwhile.
StoreMissed(c) ==
  /\ \E k \in missed[c] : StoreSet(k)
  /\ missed' = [missed EXCEPT ![c] = {}]

\* Get itself returns, or the function fails.
StoreReturnMiss(c) ==
  /\ missed[c] # {} /\ missed' = [missed EXCEPT ![c] = {}]
  /\ UNCHANGED <<data, accessOrder, countVars, lastTouched>>

StoreDelete(k) ==
  /\ data' = [data EXCEPT ![k] = "absent"]
  /\ accessOrder' = RemoveFirst(accessOrder, k)
  /\ UNCHANGED <<countVars, missed, lastTouched>>

StoreClear ==
  /\ data' = [k \in StoreKeys |-> "absent"]
  /\ accessOrder' = <<>>
  /\ UNCHANGED <<countVars, missed, lastTouched>>

\* What is left of order when the keys gone are taken out of it, one by one.
Rests(order, gone) ==
  LET places == {i \in DOMAIN order : order[i] \notin gone} IN
  {[n \in 1 .. Cardinality(places) |-> order[at[n]]] :
     at \in {f \in Bijection(1 .. Cardinality(places), places) :
              \A m, n \in 1 .. Cardinality(places) : m < n => f[m] < f[n]}}

\* CleanupExpired counts the expired entries as evictions.
CleanupExpired ==
  LET expired == {k \in StoreKeys : data[k] = "expired"} IN
  /\ expired # {} /\ evictions + Cardinality(expired) <= MaxEvictions
  /\ data' = [k \in StoreKeys |-> IF k \in expired THEN "absent" ELSE data[k]]
  /\ accessOrder' \in Rests(accessOrder, expired)
  /\ evictions' = evictions + Cardinality(expired)
  /\ UNCHANGED <<evictCount, missed, lastTouched>>

StoreExpire(k) ==
  /\ data[k] = "fresh"
  /\ data' = [data EXCEPT ![k] = "expired"]
  /\ UNCHANGED <<accessOrder, countVars, missed, lastTouched>>

StoreNext ==
  \/ \E c \in Clients, k \in StoreKeys : FindMiss(c, k)
  \/ \E c \in Clients : StoreMissed(c) \/ StoreReturnMiss(c)
  \/ \E k \in StoreKeys :
       \/ FindHit(k) \/ StoreDelete(k) \/ StoreExpire(k)
       \/ StoreSet(k) /\ UNCHANGED missed
  \/ StoreClear \/ CleanupExpired

StoreSpec == StoreInit /\ [][StoreNext]_storeVars

-----------------------------------------------------------------------------
StoreTypeOK ==
  /\ data \in [StoreKeys -> {"absent", "fresh", "expired"}]
  /\ accessOrder \in Seq(StoreKeys) /\ lastTouched \in SUBSET StoreKeys
  /\ evictCount \in Nat /\ evictions \in Nat
  /\ missed \in [Clients -> SUBSET StoreKeys]

\* The access order, by which a full store evicts, has each stored key once
\* and no other, at most MaxSize of them, and the key touched last is at its
\* end: no expiry, deletion, refresh or cleanup leaves a key behind that
\* would be evicted in place of an entry, or drops one that is never evicted.
OrderIsRecency ==
  /\ StoreTypeOK
  /\ IsInjective(accessOrder) /\ ToSet(accessOrder) = Stored
  /\ Cardinality(Stored) <= MaxSize
  /\ lastTouched \cap Stored # {} => lastTouched = {Last(accessOrder)}

\* The claim of "Check if we need to evict entries" in Set (line 251): an
\* eviction makes room for a new entry, so that it leaves the store no
\* smaller.
EvictionMakesRoom ==
  [][evictCount' # evictCount => Cardinality(Stored') >= Cardinality(Stored)]_storeVars

\* The claim of the metric slurm_exporter_cache_evictions_total, "Total
\* number of cache evictions": it counts at least the evictions of a full
\* store.
EvictionsExported == evictCount <= evictions
=============================================================================
