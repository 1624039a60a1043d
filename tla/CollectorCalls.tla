--------------------------- MODULE CollectorCalls ---------------------------
(***************************************************************************)
(* Goroutines that call one collector's circuit breaker concurrently       *)
(* (internal/collector/degradation.go, CircuitBreaker.Call): a call that   *)
(* was admitted in one state of the breaker may return in any other.       *)
(***************************************************************************)
EXTENDS CollectorBreaker, FiniteSets

CONSTANTS
  Callers,        \* goroutines that collect through this breaker
  FailureBound    \* bound of the model: failures are counted up to here

ASSUME CallersAssumption == FailureBound \in Nat

VARIABLES
  cb,         \* the breaker
  call,       \* call[c]: "none", or the state in which c's call was admitted
  healthy,    \* the SLURM API behind fn: while TRUE, fn does not fail
  sinceOpen   \* history: ticks since the breaker last became open, cut off

vars == <<cb, call, healthy, sinceOpen>>

CallStates == {"none", "closed", "halfOpen"}

Init ==
  /\ cb = NewCircuitBreaker
  /\ call = [c \in Callers |-> "none"]
  /\ healthy \in BOOLEAN
  /\ sinceOpen = Expired

\* sinceOpen restarts when the breaker opens, whatever lastFailTime does.
NoteOpening ==
  sinceOpen' = IF cb.state # "open" /\ cb'.state = "open" THEN 0 ELSE sinceOpen

\* A rejected call returns at once and changes nothing.
Begin(c) ==
  /\ call[c] = "none"
  /\ Admits(cb)
  /\ cb' = Admit(cb)
  /\ call' = [call EXCEPT ![c] = cb'.state]
  /\ UNCHANGED <<healthy, sinceOpen>>

Succeed(c) ==
  /\ call[c] # "none"
  /\ cb' = OnSuccess(cb)
  /\ call' = [call EXCEPT ![c] = "none"]
  /\ NoteOpening
  /\ UNCHANGED healthy

Fail(c) ==
  /\ call[c] # "none"
  /\ ~healthy
  /\ cb.failures < FailureBound
  /\ cb' = OnFailure(cb)
  /\ call' = [call EXCEPT ![c] = "none"]
  /\ NoteOpening
  /\ UNCHANGED healthy

ResetByHand ==
  /\ cb' = Reset(cb)
  /\ UNCHANGED <<call, healthy, sinceOpen>>

Tick ==
  /\ cb' = Later(cb)
  /\ sinceOpen' = IF sinceOpen < Expired THEN sinceOpen + 1 ELSE sinceOpen
  /\ UNCHANGED <<call, healthy>>

HealthChanges == healthy' = ~healthy /\ UNCHANGED <<cb, call, sinceOpen>>

Next ==
  \/ \E c \in Callers : Begin(c) \/ Succeed(c) \/ Fail(c)
  \/ ResetByHand
  \/ Tick
  \/ HealthChanges

\* Time passes, fn returns (collections have timeouts), and the scheduled
\* collections go on. Nobody has to reset the breaker or repair the API.
Fairness ==
  /\ WF_vars(Tick)
  /\ \A c \in Callers : WF_vars(Begin(c)) /\ WF_vars(Succeed(c) \/ Fail(c))

Spec == Init /\ [][Next]_vars /\ Fairness

-----------------------------------------------------------------------------
TypeOK ==
  /\ cb \in Breaker
  /\ call \in [Callers -> CallStates]
  /\ healthy \in BOOLEAN
  /\ sinceOpen \in 0 .. Expired

\* The failure count and the state never disagree: the breaker is closed
\* exactly while fewer than MaxFailures failures are counted, through late
\* results, test calls and resets in any order (recordFailure, Call, Reset).
CountDecidesState == cb.state = "closed" <=> cb.failures < MaxFailures

\* An open breaker has rejected every call for the whole reset timeout since
\* it OPENED, not only since the last failure: lastFailTime is never older
\* than the opening, whichever call recorded it (Call, recordFailure).
OpeningIsCovered == IsOpen(cb) => cb.elapsed <= sinceOpen

\* No call passes an open breaker before the reset timeout has run since the
\* breaker opened (Call's check of StateOpen).
CoolDownRespected ==
  [][cb.state = "open" /\ cb'.state = "halfOpen" => sinceOpen > ResetTimeout]_vars

\* The breaker keeps the promise of BreakerPromise.
InFlight == {c \in Callers : call[c] # "none"}

Abstract == INSTANCE BreakerPromise
              WITH phase <- cb.state, cooled <- (cb.elapsed > ResetTimeout),
                   inFlight <- InFlight
KeepsPromise == Abstract!Promise

\* Once the SLURM API stays healthy the breaker closes for good: no mixture
\* of late results and test calls wedges it (Call's half-open transitions).
Recovers == <>[]healthy => <>[](cb.state = "closed")

=============================================================================
