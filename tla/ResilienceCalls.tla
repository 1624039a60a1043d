-------------------------- MODULE ResilienceCalls ---------------------------
(***************************************************************************)
(* The circuit breaker of internal/resilience/circuit_breaker.go and the   *)
(* goroutines that call it. Call and CallWithContext are the same two      *)
(* critical sections, allowRequest and recordResult, with fn between them; *)
(* a disabled breaker (config.Enabled = FALSE) runs neither and has no     *)
(* behaviour to model.                                                     *)
(***************************************************************************)
EXTENDS Naturals, FiniteSets

CONSTANTS
  Callers,            \* goroutines that call through this breaker
  FailureThreshold,   \* config values, each validated positive
  ResetTimeout,       \* in ticks
  HalfOpenRequests,
  FailureBound        \* bound of the model: failures are counted up to here

ASSUME ResilienceAssumption ==
  /\ FailureThreshold \in Nat \ {0}
  /\ ResetTimeout \in Nat \ {0}
  /\ HalfOpenRequests \in Nat \ {0}
  /\ FailureBound \in Nat

VARIABLES
  state,              \* "closed", "open", "halfOpen"
  failures,
  halfOpenRequests,   \* requests counted in the half-open state
  sinceFailure,       \* time.Since(lastFailure), cut off at ResetTimeout
  call,               \* call[c]: "none", or the state in which c was admitted
  healthy,            \* the API behind fn: while TRUE, fn does not fail
  admitted,           \* history: requests admitted in this half-open period
  sinceOpen,          \* history: ticks since the breaker last became open
  byCoolDown          \* history: did the last half-open period begin in allowRequest?

breaker == <<state, failures, halfOpenRequests, sinceFailure>>
history == <<admitted, sinceOpen, byCoolDown>>
vars == <<breaker, call, healthy, history>>

States == {"closed", "open", "halfOpen"}
CallStates == {"none", "closed", "halfOpen"}

Init ==
  /\ state = "closed"
  /\ failures = 0
  /\ halfOpenRequests = 0
  /\ sinceFailure = ResetTimeout
  /\ call = [c \in Callers |-> "none"]
  /\ healthy \in BOOLEAN
  /\ admitted = 0
  /\ sinceOpen = ResetTimeout
  /\ byCoolDown = FALSE

-----------------------------------------------------------------------------
(* allowRequest: one critical section, one disjunct per case that admits.  *)
(* The cases that return an error change nothing.                          *)

AdmitClosed ==
  /\ state = "closed"
  /\ UNCHANGED <<breaker, history>>

\* The request that makes the breaker half-open is not counted.
AdmitAfterCoolDown ==
  /\ state = "open"
  /\ sinceFailure >= ResetTimeout
  /\ state' = "halfOpen"
  /\ halfOpenRequests' = 0
  /\ admitted' = 1
  /\ byCoolDown' = TRUE
  /\ UNCHANGED <<failures, sinceFailure, sinceOpen>>

\* Mutation: an off-by-one in the capacity check.
AdmitHalfOpenOneMore ==
  /\ state = "halfOpen"
  /\ halfOpenRequests <= HalfOpenRequests
  /\ halfOpenRequests' = halfOpenRequests + 1
  /\ admitted' = admitted + 1
  /\ UNCHANGED <<state, failures, sinceFailure, sinceOpen, byCoolDown>>

AdmitHalfOpen ==
  /\ state = "halfOpen"
  /\ halfOpenRequests < HalfOpenRequests
  /\ halfOpenRequests' = halfOpenRequests + 1
  /\ admitted' = admitted + 1
  /\ UNCHANGED <<state, failures, sinceFailure, sinceOpen, byCoolDown>>

allowRequest(c) ==
  /\ call[c] = "none"
  /\ AdmitClosed \/ AdmitAfterCoolDown \/ AdmitHalfOpen
  /\ call' = [call EXCEPT ![c] = state']
  /\ UNCHANGED healthy

-----------------------------------------------------------------------------
(* recordResult                                                            *)

\* Mutation: a failure in the half-open state is counted and nothing else.
StateAfterFailureStays ==
  IF state = "closed" /\ failures + 1 >= FailureThreshold THEN "open" ELSE state

\* The state a failure leads to, with the failure already counted.
StateAfterFailure ==
  IF state = "halfOpen" \/ (state = "closed" /\ failures + 1 >= FailureThreshold)
  THEN "open" ELSE state

SinceAfterFailure == 0

recordFailure(c) ==
  /\ call[c] # "none"
  /\ ~healthy
  /\ failures < FailureBound
  /\ failures' = failures + 1
  /\ sinceFailure' = SinceAfterFailure
  /\ state' = StateAfterFailure
  /\ sinceOpen' = IF state # "open" /\ state' = "open" THEN 0 ELSE sinceOpen
  /\ call' = [call EXCEPT ![c] = "none"]
  /\ UNCHANGED <<halfOpenRequests, healthy, admitted, byCoolDown>>

FailuresAfterSuccess == IF state = "open" THEN failures ELSE 0

\* A success in the open state makes the breaker half-open, with the
\* halfOpenRequests of the previous half-open period.
recordSuccess(c) ==
  /\ call[c] # "none"
  /\ state' = IF state = "open" THEN "halfOpen" ELSE "closed"
  /\ failures' = FailuresAfterSuccess
  /\ IF state = "open"
     THEN admitted' = 0 /\ byCoolDown' = FALSE
     ELSE UNCHANGED <<admitted, byCoolDown>>
  /\ call' = [call EXCEPT ![c] = "none"]
  /\ UNCHANGED <<halfOpenRequests, sinceFailure, healthy, sinceOpen>>

-----------------------------------------------------------------------------
Reset ==
  /\ state' = "closed"
  /\ failures' = 0
  /\ halfOpenRequests' = 0
  /\ UNCHANGED <<sinceFailure, call, healthy, history>>

UpTo(t) == IF t < ResetTimeout THEN t + 1 ELSE t

Tick ==
  /\ sinceFailure' = UpTo(sinceFailure)
  /\ sinceOpen' = UpTo(sinceOpen)
  /\ UNCHANGED <<state, failures, halfOpenRequests, call, healthy, admitted, byCoolDown>>

HealthChanges == healthy' = ~healthy /\ UNCHANGED <<breaker, call, history>>

Next ==
  \/ \E c \in Callers : allowRequest(c) \/ recordFailure(c) \/ recordSuccess(c)
  \/ Reset
  \/ Tick
  \/ HealthChanges

\* Time passes, fn returns, callers keep calling; nobody has to reset.
Fairness ==
  /\ WF_vars(Tick)
  /\ \A c \in Callers : /\ WF_vars(allowRequest(c))
                        /\ WF_vars(recordFailure(c) \/ recordSuccess(c))

Spec == Init /\ [][Next]_vars /\ Fairness

-----------------------------------------------------------------------------
TypeOK ==
  /\ state \in States
  /\ failures \in Nat
  /\ halfOpenRequests \in 0 .. HalfOpenRequests
  /\ sinceFailure \in 0 .. ResetTimeout
  /\ call \in [Callers -> CallStates]
  /\ healthy \in BOOLEAN
  /\ admitted \in Nat
  /\ sinceOpen \in 0 .. ResetTimeout
  /\ byCoolDown \in BOOLEAN

\* The breaker is closed exactly while fewer than FailureThreshold failures
\* are counted, whatever late results and resets intervene (recordResult).
CountDecidesState == state = "closed" <=> failures < FailureThreshold

\* One half-open period admits at most HalfOpenRequests requests besides the
\* one that began it (allowRequest): halfOpenRequests, never reset inside a
\* period, bounds what an unhealthy API is exposed to.
TestsBounded == state = "halfOpen" => admitted <= HalfOpenRequests + 1

\* lastFailure is never older than the opening of an open breaker.
OpeningIsCovered == state = "open" => sinceFailure <= sinceOpen

\* A half-open period that began after a cool-down has a test in flight until
\* it ends, so that its outcome decides it: the breaker waits for nobody. (A
\* period that began with a late success has no such guarantee.)
CoolDownPeriodIsTested ==
  state = "halfOpen" /\ byCoolDown => \E c \in Callers : call[c] = "halfOpen"

-----------------------------------------------------------------------------
(* What a comment says of the half-open state.                             *)

\* circuit_breaker.go:37 "StateHalfOpen means limited requests are allowed
\* for testing": with no request in flight, a half-open breaker admits one.
HalfOpenAdmitsTests ==
  state = "halfOpen" /\ (\A c \in Callers : call[c] = "none")
    => halfOpenRequests < HalfOpenRequests
=============================================================================
