----------------------------- MODULE MCResilience -----------------------------
(* Model checking of the modules of which only safety is asked. The        *)
(* circuit breaker of internal/resilience and the manager that hands such  *)
(* breakers out; the two caches of internal/performance, with two entries  *)
(* of three keys, so that both a refresh and a new key meet a full cache,  *)
(* and three calls of Set: an entry that expires under a Get, the one that *)
(* replaces it, and one more. A manager knows nothing of the states of its *)
(* breakers and none of the four shares state with another: they are       *)
(* looked at one at a time.                                                *)
EXTENDS ResilienceCalls, ResilienceManager, IntelligentCache, CacheStore, TLC

VARIABLE side    \* the one that is looked at

cacheVars == <<intelligentVars, storeVars>>

MCInit ==
  /\ Init /\ ManagerInit /\ IntelligentInit /\ StoreInit
  /\ side \in {"breaker", "manager", "intelligent", "store"}
  /\ side # "manager" => name = [u \in Users |-> CHOOSE n \in Names : TRUE]
  /\ side # "breaker" => healthy

MCNext ==
  /\ \/ side = "breaker" /\ Next /\ UNCHANGED <<managerVars, cacheVars>>
     \/ side = "manager" /\ ManagerNext /\ UNCHANGED <<vars, cacheVars>>
     \/ side = "intelligent" /\ IntelligentNext
        /\ UNCHANGED <<vars, managerVars, storeVars>>
     \/ side = "store" /\ StoreNext
        /\ UNCHANGED <<vars, managerVars, intelligentVars>>
  /\ UNCHANGED side

MCSpec == MCInit /\ [][MCNext]_<<vars, managerVars, cacheVars, side>>

CallerSymmetry == Permutations(Callers) \cup Permutations(Getters)

TwoSizes == {1, 2}
=============================================================================
