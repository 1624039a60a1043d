-------------------------- MODULE ResilienceManager --------------------------
(***************************************************************************)
(* CircuitBreakerManager of internal/resilience/circuit_breaker.go: a map  *)
(* of breakers, filled on first use. GetOrCreate looks under the read lock *)
(* and, only if it found nothing, again under the write lock; ResetAll     *)
(* copies the map under the read lock and resets the breakers after it.    *)
(* A breaker is a number; its failures are recorded by whoever got it.     *)
(***************************************************************************)
EXTENDS Naturals, FiniteSets

CONSTANTS
  Users,      \* goroutines that call GetOrCreate and then use the breaker
  Resetters,  \* goroutines that call ResetAll
  Names,      \* names of circuit breakers
  NoBreaker   \* the nil pointer

ASSUME ManagerAssumption == NoBreaker \notin Nat

VARIABLES
  breakers,   \* breakers[n]: the breaker in the map, or NoBreaker
  made,       \* how many breakers NewCircuitBreaker has made
  failing,    \* breakers with recorded failures
  pc,
  name,       \* name[u]: the name u asked for
  got,        \* got[u]: the breaker u holds
  snapshot    \* snapshot[r]: breakers r has copied and not yet reset

managerVars == <<breakers, made, failing, pc, name, got, snapshot>>

Known == {n \in Names : breakers[n] # NoBreaker}

ManagerInit ==
  /\ breakers = [n \in Names |-> NoBreaker]
  /\ made = 0
  /\ failing = {}
  /\ pc = [t \in Users \cup Resetters |-> "idle"]
  /\ name \in [Users -> Names]
  /\ got = [u \in Users |-> NoBreaker]
  /\ snapshot = [r \in Resetters |-> {}]

\* The look under the read lock.
Lookup(u, n) ==
  /\ pc[u] = "idle"
  /\ name' = [name EXCEPT ![u] = n]
  /\ got' = [got EXCEPT ![u] = breakers[n]]
  /\ pc' = [pc EXCEPT ![u] = IF n \in Known THEN "holds" ELSE "create"]
  /\ UNCHANGED <<breakers, made, failing, snapshot>>

\* Mutation: no second look under the write lock.
CreateUnchecked(u) ==
  /\ pc[u] = "create"
  /\ breakers' = [breakers EXCEPT ![name[u]] = made]
  /\ made' = made + 1
  /\ got' = [got EXCEPT ![u] = made]
  /\ pc' = [pc EXCEPT ![u] = "holds"]
  /\ UNCHANGED <<failing, name, snapshot>>

\* The critical section of the write lock.
Create(u) ==
  /\ pc[u] = "create"
  /\ \/ /\ name[u] \in Known
        /\ got' = [got EXCEPT ![u] = breakers[name[u]]]
        /\ UNCHANGED <<breakers, made>>
     \/ /\ name[u] \notin Known
        /\ breakers' = [breakers EXCEPT ![name[u]] = made]
        /\ made' = made + 1
        /\ got' = [got EXCEPT ![u] = made]
  /\ pc' = [pc EXCEPT ![u] = "holds"]
  /\ UNCHANGED <<failing, name, snapshot>>

\* One call through the breaker, which fails or succeeds.
Use(u) ==
  /\ pc[u] = "holds"
  /\ \/ failing' = failing \cup {got[u]}
     \/ failing' = failing \ {got[u]}
  /\ pc' = [pc EXCEPT ![u] = "idle"]
  /\ got' = [got EXCEPT ![u] = NoBreaker]
  /\ UNCHANGED <<breakers, made, name, snapshot>>

ResetAll(r) ==
  /\ pc[r] = "idle"
  /\ snapshot' = [snapshot EXCEPT ![r] = {breakers[n] : n \in Known}]
  /\ pc' = [pc EXCEPT ![r] = "reset"]
  /\ UNCHANGED <<breakers, made, failing, name, got>>

ResetOne(r) ==
  /\ pc[r] = "reset"
  /\ \E b \in snapshot[r] :
       /\ failing' = failing \ {b}
       /\ snapshot' = [snapshot EXCEPT ![r] = @ \ {b}]
  /\ UNCHANGED <<breakers, made, pc, name, got>>

ResetDone(r) ==
  /\ pc[r] = "reset"
  /\ snapshot[r] = {}
  /\ pc' = [pc EXCEPT ![r] = "idle"]
  /\ UNCHANGED <<breakers, made, failing, name, got, snapshot>>

ManagerNext ==
  \/ \E u \in Users : (\E n \in Names : Lookup(u, n)) \/ Create(u) \/ Use(u)
  \/ \E r \in Resetters : ResetAll(r) \/ ResetOne(r) \/ ResetDone(r)

ManagerSpec == ManagerInit /\ [][ManagerNext]_managerVars

-----------------------------------------------------------------------------
ManagerTypeOK ==
  /\ breakers \in [Names -> Nat \cup {NoBreaker}]
  /\ made \in Nat
  /\ \A b \in failing : b \in Nat /\ b < made
  /\ pc \in [Users \cup Resetters -> {"idle", "create", "holds", "reset"}]
  /\ name \in [Users -> Names]
  /\ got \in [Users -> Nat \cup {NoBreaker}]
  /\ \A r \in Resetters : \A b \in snapshot[r] : b \in Nat /\ b < made

\* GetOrCreate gives every caller of a name the breaker of the map, also the
\* callers that found nothing at the same time: no failure is counted in a
\* breaker that ResetAll, GetStatuses and HealthCheck do not see.
NoStrayBreaker ==
  /\ \A u \in Users : pc[u] = "holds" => got[u] = breakers[name[u]]
  /\ \A b \in failing : \E n \in Known : breakers[n] = b
=============================================================================
