------------------------- MODULE DegradationManager -------------------------
(***************************************************************************)
(* The degradation manager of internal/collector/degradation.go: one       *)
(* circuit breaker per collector, created on first use under dm.mu, a      *)
(* cache of the last metrics of each collector, and two gauges.            *)
(* Goroutines run ExecuteWithDegradation, UpdateDegradationMode and        *)
(* ResetAllBreakers concurrently. cb.mu and cacheMu protect single steps   *)
(* and are never held across one; dm.mu is held across steps.              *)
(***************************************************************************)
EXTENDS CollectorBreaker, RWMutex, FiniteSets

CONSTANTS
  Collectors,         \* collector names
  Executors,          \* goroutines that collect (DegradedCollector.Collect)
  Updaters,           \* goroutines that call UpdateDegradationMode
  Resetters,          \* goroutines that call ResetAllBreakers
  UseCachedMetrics,   \* config
  CountBound        \* bound of the model: failures are counted up to here

Threads == Executors \cup Updaters \cup Resetters

ASSUME ManagerAssumption ==
  /\ UseCachedMetrics \in BOOLEAN
  /\ CountBound \in Nat
  /\ IsFiniteSet(Threads)

VARIABLES
  breakers,     \* breakers[c], meaningful once c is created
  created,      \* the collectors with an entry in dm.breakers
  mu,           \* dm.mu
  cached,       \* the collectors with an unexpired entry in dm.cache
  stateGauge,   \* CircuitBreakerState gauge of each collector
  modeGauge,    \* DegradationMode gauge
  pc,           \* where each goroutine is
  arg,          \* arg[t]: the collector t executes
  seen,         \* seen[t]: what t's Call returned, then the state it read
  todo,         \* todo[t]: breakers t has still to visit in its loop
  openCount     \* openCount[t]: open breakers t has counted

shared == <<breakers, created, mu, cached, stateGauge, modeGauge>>
local == <<pc, arg, seen, todo, openCount>>
degradationVars == <<shared, local>>

\* The mode that openCount of totalCount open breakers mean.
ModeOf(open, total) ==
  IF open = 0 THEN "normal" ELSE IF open < total THEN "partial" ELSE "unavailable"

DegradationInit ==
  /\ breakers = [c \in Collectors |-> NewCircuitBreaker]
  /\ created = {}
  /\ mu = Unlocked
  /\ cached = {}
  /\ stateGauge = [c \in Collectors |-> "unset"]
  /\ modeGauge = "normal"
  /\ pc = [t \in Threads |-> "idle"]
  /\ arg = [t \in Threads |-> "none"]
  /\ seen = [t \in Threads |-> "none"]
  /\ todo = [t \in Threads |-> {}]
  /\ openCount = [t \in Threads |-> 0]

Goto(t, label) == pc' = [pc EXCEPT ![t] = label]

Counting(t) == pc[t] \in {"count", "recount"}

-----------------------------------------------------------------------------
(* ExecuteWithDegradation                                                  *)

\* Mutation: looks under RLock first and does not give it back before Lock.
ExecuteUpgrades(t, c) ==
  /\ pc[t] = "idle"
  /\ MayAnnounce(mu)
  /\ mu' = RLocked(Announced(mu, t))
  /\ arg' = [arg EXCEPT ![t] = c]
  /\ Goto(t, "getBreaker")
  /\ UNCHANGED <<breakers, created, cached, stateGauge, modeGauge, seen, todo,
                 openCount>>

\* GetCircuitBreaker: dm.mu.Lock announces the writer ...
Execute(t, c) ==
  /\ pc[t] = "idle"
  /\ MayAnnounce(mu)
  /\ mu' = Announced(mu, t)
  /\ arg' = [arg EXCEPT ![t] = c]
  /\ Goto(t, "getBreaker")
  /\ UNCHANGED <<breakers, created, cached, stateGauge, modeGauge, seen, todo,
                 openCount>>

\* Mutation: the writer does not wait for the readers (RLock instead of Lock).
GetCircuitBreakerShared(t) ==
  /\ pc[t] = "getBreaker"
  /\ mu' = WriteUnlocked(mu)
  /\ created' = created \cup {arg[t]}
  /\ Goto(t, "call")
  /\ UNCHANGED <<breakers, cached, stateGauge, modeGauge, arg, seen, todo,
                 openCount>>

\* ... and gets the lock when the readers have left.
GetCircuitBreaker(t) ==
  /\ pc[t] = "getBreaker"
  /\ HoldsLock(mu, t)
  /\ mu' = WriteUnlocked(mu)
  /\ created' = created \cup {arg[t]}
  /\ Goto(t, "call")
  /\ UNCHANGED <<breakers, cached, stateGauge, modeGauge, arg, seen, todo,
                 openCount>>

CallBegins(t) ==
  /\ pc[t] = "call"
  /\ IF Admits(breakers[arg[t]])
     THEN /\ breakers' = [breakers EXCEPT ![arg[t]] = Admit(@)]
          /\ Goto(t, "collect")
          /\ UNCHANGED seen
     ELSE /\ Goto(t, "observe")
          /\ seen' = [seen EXCEPT ![t] = "rejected"]
          /\ UNCHANGED breakers
  /\ UNCHANGED <<created, mu, cached, stateGauge, modeGauge, arg, todo, openCount>>

\* collectFunc returns metrics, no metrics, or an error.
CallReturns(t) ==
  /\ pc[t] = "collect"
  /\ \/ /\ \E result \in {"ok", "empty"} : seen' = [seen EXCEPT ![t] = result]
        /\ breakers' = [breakers EXCEPT ![arg[t]] = OnSuccess(@)]
     \/ /\ breakers[arg[t]].failures < CountBound
        /\ seen' = [seen EXCEPT ![t] = "error"]
        /\ breakers' = [breakers EXCEPT ![arg[t]] = OnFailure(@)]
  /\ Goto(t, "observe")
  /\ UNCHANGED <<created, mu, cached, stateGauge, modeGauge, arg, todo, openCount>>

\* The gauge is set to a state read a step earlier: GetState returns before
\* Set is called. The label remembers the result of the call.
ObserveState(t) ==
  /\ pc[t] = "observe"
  /\ Goto(t, CASE seen[t] = "ok" -> "publishOk"
               [] seen[t] = "empty" -> "publishEmpty"
               [] seen[t] = "error" -> "publishError"
               [] seen[t] = "rejected" -> "publishRejected")
  /\ seen' = [seen EXCEPT ![t] = breakers[arg[t]].state]
  /\ UNCHANGED <<shared, arg, todo, openCount>>

\* A successful call goes on to cacheMetrics, a failed one to IsOpen.
AfterPublish(label) ==
  CASE label = "publishOk" /\ UseCachedMetrics -> "store"
    [] label = "publishError" /\ UseCachedMetrics -> "serve"
    [] label = "publishRejected" /\ UseCachedMetrics -> "serveRejected"
    [] OTHER -> "idle"

PublishState(t) ==
  /\ pc[t] \in {"publishOk", "publishEmpty", "publishError", "publishRejected"}
  /\ stateGauge' = [stateGauge EXCEPT ![arg[t]] = seen[t]]
  /\ Goto(t, AfterPublish(pc[t]))
  /\ seen' = [seen EXCEPT ![t] = "none"]
  /\ UNCHANGED <<breakers, created, mu, cached, modeGauge, arg, todo, openCount>>

\* cacheMetrics
Store(t) ==
  /\ pc[t] = "store"
  /\ cached' = cached \cup {arg[t]}
  /\ Goto(t, "idle")
  /\ UNCHANGED <<breakers, created, mu, stateGauge, modeGauge, arg, seen, todo,
                 openCount>>

\* The failed call asks IsOpen anew, and returns its error unless that says yes.
Serve(t) ==
  /\ pc[t] \in {"serve", "serveRejected"}
  /\ Goto(t, IF IsOpen(breakers[arg[t]]) THEN "lookup" ELSE "idle")
  /\ UNCHANGED <<shared, arg, seen, todo, openCount>>

\* Returns the entry, or nil and then the error. Either way t is done.
getCachedMetrics(t) ==
  /\ pc[t] = "lookup"
  /\ Goto(t, "idle")
  /\ UNCHANGED <<shared, arg, seen, todo, openCount>>

-----------------------------------------------------------------------------
(* UpdateDegradationMode: the loop over dm.breakers takes each breaker's   *)
(* lock in turn, dm.mu.RLock is held throughout.                           *)

BeginCount(t) ==
  /\ todo' = [todo EXCEPT ![t] = created]
  /\ openCount' = [openCount EXCEPT ![t] = 0]
  /\ UNCHANGED <<breakers, created, cached, stateGauge, modeGauge, arg, seen>>

UpdateDegradationMode(t) ==
  /\ pc[t] = "idle"
  /\ MayRLock(mu)
  /\ mu' = RLocked(mu)
  /\ Goto(t, "count")
  /\ BeginCount(t)

CountBreaker(t) ==
  /\ Counting(t)
  /\ \E c \in todo[t] :
       /\ openCount' = [openCount EXCEPT ![t] = @ + (IF IsOpen(breakers[c]) THEN 1 ELSE 0)]
       /\ todo' = [todo EXCEPT ![t] = @ \ {c}]
  /\ UNCHANGED <<shared, pc, arg, seen>>

\* Sets the gauge and returns; within ResetAllBreakers there are two read
\* locks to give back.
SetMode(t) ==
  /\ Counting(t)
  /\ todo[t] = {}
  /\ modeGauge' = ModeOf(openCount[t], Cardinality(created))
  /\ mu' = IF pc[t] = "recount" THEN RUnlocked(RUnlocked(mu)) ELSE RUnlocked(mu)
  /\ openCount' = [openCount EXCEPT ![t] = 0]
  /\ Goto(t, "idle")
  /\ UNCHANGED <<breakers, created, cached, stateGauge, arg, seen, todo>>

-----------------------------------------------------------------------------
(* ResetAllBreakers: read lock, reset each breaker, then                   *)
(* UpdateDegradationMode takes the read lock a second time.                *)

ResetAllBreakers(t) ==
  /\ pc[t] = "idle"
  /\ MayRLock(mu)
  /\ mu' = RLocked(mu)
  /\ todo' = [todo EXCEPT ![t] = created]
  /\ Goto(t, "reset")
  /\ UNCHANGED <<breakers, created, cached, stateGauge, modeGauge, arg, seen,
                 openCount>>

ResetBreaker(t) ==
  /\ pc[t] = "reset"
  /\ \E c \in todo[t] :
       /\ breakers' = [breakers EXCEPT ![c] = Reset(@)]
       /\ todo' = [todo EXCEPT ![t] = @ \ {c}]
  /\ UNCHANGED <<created, mu, cached, stateGauge, modeGauge, pc, arg, seen, openCount>>

SecondRLock(t) ==
  /\ pc[t] = "reset"
  /\ todo[t] = {}
  /\ MayRLock(mu)
  /\ mu' = RLocked(mu)
  /\ Goto(t, "recount")
  /\ BeginCount(t)

-----------------------------------------------------------------------------
TimePasses ==
  /\ breakers' = [c \in Collectors |-> Later(breakers[c])]
  /\ UNCHANGED <<created, mu, cached, stateGauge, modeGauge, local>>

\* An entry outlives its TTL. Nothing here depends on how long that takes.
CacheExpires ==
  /\ \E c \in cached : cached' = cached \ {c}
  /\ UNCHANGED <<breakers, created, mu, stateGauge, modeGauge, local>>

ExecuteStep(t) ==
  \/ GetCircuitBreaker(t) \/ CallBegins(t) \/ CallReturns(t)
  \/ ObserveState(t) \/ PublishState(t)
  \/ Store(t) \/ Serve(t) \/ getCachedMetrics(t)

CountStep(t) == CountBreaker(t) \/ SetMode(t)

ResetStep(t) == ResetBreaker(t) \/ SecondRLock(t)

DegradationNext ==
  \/ \E t \in Executors : ExecuteStep(t) \/ \E c \in Collectors : Execute(t, c)
  \/ \E t \in Updaters : UpdateDegradationMode(t) \/ CountStep(t)
  \/ \E t \in Resetters : ResetAllBreakers(t) \/ ResetStep(t) \/ CountStep(t)
  \/ TimePasses
  \/ CacheExpires

\* A running goroutine goes on and collectFunc returns; a goroutine that waits
\* in RLock is not overtaken by writers for ever (sync.RWMutex). Nobody has to
\* start an operation, and time need not pass.
DegradationFairness ==
  /\ \A t \in Executors : WF_degradationVars(ExecuteStep(t))
  /\ \A t \in Updaters : WF_degradationVars(CountStep(t))
  /\ \A t \in Resetters : SF_degradationVars(ResetStep(t)) /\ WF_degradationVars(CountStep(t))

DegradationSpec == DegradationInit /\ [][DegradationNext]_degradationVars /\ DegradationFairness

-----------------------------------------------------------------------------
Results == {"none", "ok", "empty", "error", "rejected", "closed", "open", "halfOpen"}

Labels == {"idle", "getBreaker", "call", "collect", "observe", "publishOk",
           "publishEmpty", "publishError", "publishRejected", "store", "serve",
           "serveRejected", "lookup", "count", "recount", "reset"}

DegradationTypeOK ==
  /\ breakers \in [Collectors -> Breaker]
  /\ created \subseteq Collectors
  /\ mu.writer \in {{}} \cup {{t} : t \in Executors}
  /\ mu.readers \in 0 .. Cardinality(Updaters) + 2 * Cardinality(Resetters)
  /\ cached \subseteq Collectors
  /\ stateGauge \in [Collectors -> {"unset", "closed", "open", "halfOpen"}]
  /\ modeGauge \in {"normal", "partial", "unavailable"}
  /\ pc \in [Threads -> Labels]
  /\ seen \in [Threads -> Results]

\* Nothing is added to dm.breakers while a goroutine iterates over it, which
\* the Go runtime would abort on: UpdateDegradationMode and ResetAllBreakers
\* iterate under RLock and GetCircuitBreaker adds under Lock.
Walking(t) == pc[t] \in {"count", "recount", "reset"}

WalkIsStable == [][(\E t \in Threads : Walking(t)) => created' = created]_degradationVars

\* Whoever starts a collection or a mode update returns from it, unless a
\* ResetAllBreakers is stuck in front of its second RLock: no other mixture
\* of readers and writers of dm.mu deadlocks.
ResetStuck ==
  \E r \in Resetters : pc[r] = "reset" /\ todo[r] = {} /\ ~MayRLock(mu)

OperationsReturn ==
  \A t \in Executors \cup Updaters : pc[t] # "idle" ~> pc[t] = "idle" \/ ResetStuck

-----------------------------------------------------------------------------
(* What comments and help texts say.                                       *)

\* degradation.go:439 "ResetAllBreakers resets all circuit breakers": the
\* call comes back.
ResetReturns == \A t \in Resetters : pc[t] # "idle" ~> pc[t] = "idle"
=============================================================================
