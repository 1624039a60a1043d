----------------------------- MODULE SlurmClient ----------------------------
(***************************************************************************)
(* The Client of internal/slurm/client.go: executeWithRetry, around every  *)
(* request, TestConnection, and what they leave in connected, lastError    *)
(* and retryCount. TestConnection holds c.mu while it waits for the rate   *)
(* limiter and for the API; the others hold it for one assignment.         *)
(***************************************************************************)
EXTENDS Naturals

CONSTANTS
  ApiCalls,        \* calls of GetJobs, GetNodes, ...
  Testers,         \* calls of TestConnection
  MaxRetries,      \* config.RetryAttempts
  MaxRetryCount    \* bound: failed calls in a row

ASSUME ClientAssumption == MaxRetries \in Nat /\ MaxRetryCount \in Nat

VARIABLES
  locked,       \* a TestConnection holds c.mu
  connected,
  lastError,    \* c.lastError # nil
  retryCount,
  attempt,      \* attempt[r]: attempts of r that have failed
  request,      \* request[r]: where r is
  givenUp,    \* requests whose context is done
  tester        \* tester[t]: where t is

verdictVars == <<connected, lastError, retryCount>>
requestVars == <<attempt, request, givenUp>>
clientVars == <<locked, verdictVars, requestVars, tester>>

\* NewClient has tested the connection before anyone has the client.
ClientInit ==
  /\ locked = FALSE
  /\ connected \in BOOLEAN /\ lastError = ~connected /\ retryCount = 0
  /\ attempt = [r \in ApiCalls |-> 0]
  /\ request = [r \in ApiCalls |-> "idle"]
  /\ givenUp = {}
  /\ tester = [t \in Testers |-> "idle"]

RequestGoes(r, from, to) == request[r] = from /\ request' = [request EXCEPT ![r] = to]

-----------------------------------------------------------------------------
BeginRequest(r) ==
  /\ RequestGoes(r, "idle", "limited")
  /\ UNCHANGED <<locked, verdictVars, attempt, givenUp, tester>>

CancelRequest(r) ==
  /\ request[r] \notin {"idle", "returned"} /\ r \notin givenUp
  /\ givenUp' = givenUp \cup {r}
  /\ UNCHANGED <<locked, verdictVars, attempt, request, tester>>

\* The rate limiter lets the attempt through, or fails: the context is done,
\* or will be before the attempt's turn.
Limiter(r) ==
  /\ \/ RequestGoes(r, "limited", "operating")
     \/ RequestGoes(r, "limited", "returned")
  /\ UNCHANGED <<locked, verdictVars, attempt, givenUp, tester>>

\* Each attempt has a timeout of its own.
Succeeds(r) ==
  /\ RequestGoes(r, "operating", "succeeded")
  /\ UNCHANGED <<locked, verdictVars, attempt, givenUp, tester>>

\* Mutation: failed attempts are not counted.
FailsUncounted(r) ==
  /\ IF r \in givenUp THEN RequestGoes(r, "operating", "returned")
     ELSE IF attempt[r] < MaxRetries THEN RequestGoes(r, "operating", "delayed")
     ELSE RequestGoes(r, "operating", "failed")
  /\ UNCHANGED <<locked, verdictVars, attempt, givenUp, tester>>

\* A cancelled request gives up without a verdict, a failed last attempt is one.
Fails(r) ==
  /\ IF r \in givenUp THEN RequestGoes(r, "operating", "returned")
     ELSE IF attempt[r] < MaxRetries THEN RequestGoes(r, "operating", "delayed")
     ELSE RequestGoes(r, "operating", "failed")
  /\ attempt' = [attempt EXCEPT ![r] = @ + 1]
  /\ UNCHANGED <<locked, verdictVars, givenUp, tester>>

Delayed(r) ==
  /\ \/ RequestGoes(r, "delayed", "limited")
     \/ r \in givenUp /\ RequestGoes(r, "delayed", "returned")
  /\ UNCHANGED <<locked, verdictVars, attempt, givenUp, tester>>

RecordSuccess(r) ==
  /\ ~locked /\ RequestGoes(r, "succeeded", "returned")
  /\ connected' = TRUE /\ lastError' = FALSE /\ retryCount' = 0
  /\ UNCHANGED <<locked, attempt, givenUp, tester>>

RecordFailure(r) ==
  /\ ~locked /\ retryCount < MaxRetryCount /\ RequestGoes(r, "failed", "returned")
  /\ connected' = FALSE /\ lastError' = TRUE /\ retryCount' = retryCount + 1
  /\ UNCHANGED <<locked, attempt, givenUp, tester>>

-----------------------------------------------------------------------------
TestLock(t) ==
  /\ tester[t] = "idle" /\ ~locked
  /\ tester' = [tester EXCEPT ![t] = "testing"]
  /\ locked' = TRUE
  /\ UNCHANGED <<verdictVars, requestVars>>

\* Waiting for the rate limiter may fail and leaves the verdict alone.
TestConnection(t) ==
  /\ tester[t] = "testing"
  /\ tester' = [tester EXCEPT ![t] = "returned"]
  /\ locked' = FALSE
  /\ \/ UNCHANGED verdictVars
     \/ connected' = FALSE /\ lastError' = TRUE /\ UNCHANGED retryCount
     \/ connected' = TRUE /\ lastError' = FALSE /\ retryCount' = 0
  /\ UNCHANGED requestVars

Close ==
  /\ ~locked /\ connected' = FALSE
  /\ UNCHANGED <<locked, lastError, retryCount, requestVars, tester>>

ResetRetryCount ==
  /\ ~locked /\ retryCount' = 0
  /\ UNCHANGED <<locked, connected, lastError, requestVars, tester>>

-----------------------------------------------------------------------------
RequestStep(r) ==
  \/ Limiter(r) \/ Succeeds(r) \/ Fails(r) \/ Delayed(r)
  \/ RecordSuccess(r) \/ RecordFailure(r)

ClientNext ==
  \/ \E r \in ApiCalls : BeginRequest(r) \/ CancelRequest(r) \/ RequestStep(r)
  \/ \E t \in Testers : TestLock(t) \/ TestConnection(t)
  \/ Close \/ ResetRetryCount

\* The limiter, the API, or its timeout, and the timer of the delay answer, and
\* tests, which take c.mu for long, are finitely many.
ClientFairness ==
  /\ \A r \in ApiCalls : WF_clientVars(RequestStep(r))
  /\ \A t \in Testers : WF_clientVars(TestConnection(t))

ClientSpec == ClientInit /\ [][ClientNext]_clientVars /\ ClientFairness

-----------------------------------------------------------------------------
ClientTypeOK ==
  /\ connected \in BOOLEAN /\ lastError \in BOOLEAN
  /\ retryCount \in 0..MaxRetryCount
  /\ attempt \in [ApiCalls -> 0..MaxRetries + 1]
  /\ locked <=> \E t \in Testers : tester[t] = "testing"

\* Every request returns, though the API may fail every time and tests hold
\* c.mu while they wait.
ApiCallsReturn ==
  \A r \in ApiCalls : request[r] = "limited" ~> request[r] = "returned"
=============================================================================
