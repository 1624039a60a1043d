-------------------------- MODULE CollectorBreaker --------------------------
(***************************************************************************)
(* The circuit breaker of internal/collector/degradation.go as a record    *)
(* and the two critical sections of CircuitBreaker.Call as operators on    *)
(* it. cb.mu is released between the sections, while fn runs, so each      *)
(* operator below is one atomic step of one caller.                        *)
(*                                                                         *)
(* Time is counted in ticks: "elapsed" is time.Since(cb.lastFailTime), cut *)
(* off just beyond ResetTimeout, where a longer time makes no difference.  *)
(***************************************************************************)
EXTENDS Naturals

CONSTANTS
  MaxFailures,    \* config.Degradation.MaxFailures, validated positive
  ResetTimeout    \* config.Degradation.ResetTimeout, in ticks

ASSUME BreakerAssumption ==
  /\ MaxFailures \in Nat \ {0}
  /\ ResetTimeout \in Nat \ {0}

Expired == ResetTimeout + 1

Breaker == [state    : {"closed", "open", "halfOpen"},
            failures : Nat,
            elapsed  : 0 .. Expired]

\* lastFailTime is the zero time: an eternity ago.
NewCircuitBreaker == [state |-> "closed", failures |-> 0, elapsed |-> Expired]

-----------------------------------------------------------------------------
(* First critical section of Call.                                         *)

\* Mutation: an open breaker never checks its timeout.
AdmitsWithoutTimeout(b) == TRUE

\* A call passes unless the breaker is open and still cooling down.
Admits(b) == b.state = "open" => b.elapsed > ResetTimeout

Admit(b) == [b EXCEPT !.state = IF @ = "open" THEN "halfOpen" ELSE @]

-----------------------------------------------------------------------------
(* Second critical section of Call, entered with fn's error.               *)

recordFailure(b) ==
  [b EXCEPT !.failures = @ + 1,
            !.elapsed = 0,
            !.state = IF @ = "closed" /\ b.failures + 1 >= MaxFailures
                      THEN "open" ELSE @]

OnFailure(b) ==
  LET recorded == recordFailure(b)
  IN  [recorded EXCEPT !.state = IF @ = "halfOpen" THEN "open" ELSE @]

\* Mutation: a success closes the breaker whatever its state.
OnSuccessAlwaysCloses(b) == [b EXCEPT !.state = "closed", !.failures = 0]

\* Mutation: a success in the half-open state leaves the breaker there.
OnSuccessStaysHalfOpen(b) ==
  IF b.state = "closed" THEN [b EXCEPT !.failures = 0] ELSE b

\* A success that arrives in an open breaker is ignored.
OnSuccess(b) ==
  IF b.state = "open" THEN b ELSE [b EXCEPT !.state = "closed", !.failures = 0]

-----------------------------------------------------------------------------
\* The manual Reset leaves lastFailTime alone.
Reset(b) == [b EXCEPT !.state = "closed", !.failures = 0]

IsOpen(b) == b.state = "open"

\* One tick of the clock behind time.Since.
Later(b) == [b EXCEPT !.elapsed = IF @ < Expired THEN @ + 1 ELSE @]
=============================================================================
