--------------------------- MODULE BreakerPromise ---------------------------
(***************************************************************************)
(* What a circuit breaker of this exporter promises, whatever counters it  *)
(* keeps: an open breaker lets a call through only after the cool-down     *)
(* that follows the LAST failure, a test call that succeeds closes it and  *)
(* one that fails opens it again, and nothing but a manual reset takes it  *)
(* out of the open phase without a cool-down.                              *)
(* internal/collector/degradation.go implements it (CollectorCalls);       *)
(* internal/resilience/circuit_breaker.go does not (ResilienceCalls).      *)
(***************************************************************************)
CONSTANT Callers

VARIABLES
  phase,      \* "closed", "open" or "halfOpen"
  cooled,     \* has the reset timeout run since the last failure?
  inFlight    \* callers whose call was let through and has not returned

promise == <<phase, cooled, inFlight>>

PromiseInit == phase = "closed" /\ cooled = TRUE /\ inFlight = {}

LetThrough(c) ==
  /\ c \notin inFlight
  /\ phase = "open" => cooled
  /\ phase' = IF phase = "open" THEN "halfOpen" ELSE phase
  /\ inFlight' = inFlight \cup {c}
  /\ UNCHANGED cooled

\* A late success does not touch an open breaker.
ReturnWell(c) ==
  /\ c \in inFlight
  /\ phase' = IF phase = "open" THEN "open" ELSE "closed"
  /\ inFlight' = inFlight \ {c}
  /\ UNCHANGED cooled

\* Every failure restarts the cool-down; it may open a closed breaker.
ReturnBadly(c) ==
  /\ c \in inFlight
  /\ cooled' = FALSE
  /\ phase' \in IF phase = "closed" THEN {"closed", "open"} ELSE {"open"}
  /\ inFlight' = inFlight \ {c}

ManualReset == phase' = "closed" /\ UNCHANGED <<cooled, inFlight>>

CoolDown == cooled' = TRUE /\ UNCHANGED <<phase, inFlight>>

PromiseNext ==
  \/ \E c \in Callers : LetThrough(c) \/ ReturnWell(c) \/ ReturnBadly(c)
  \/ ManualReset
  \/ CoolDown

Promise == PromiseInit /\ [][PromiseNext]_promise
=============================================================================
