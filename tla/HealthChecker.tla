---------------------------- MODULE HealthChecker ----------------------------
(***************************************************************************)
(* The HealthChecker of internal/health/health.go. CheckHealth copies the  *)
(* registered checks under the read lock, runs each in a goroutine,        *)
(* receives the results in any order, caches each under the write lock and *)
(* folds its status into the report.                                       *)
(***************************************************************************)
EXTENDS FiniteSets

CONSTANTS
  Probes,     \* calls of CheckHealth
  Checks,     \* names of checks
  NoResult    \* the cache has no entry

Statuses == {"healthy", "degraded", "unknown", "unhealthy"}

ASSUME ChecksAssumption == IsFiniteSet(Checks) /\ NoResult \notin Statuses

VARIABLES
  checks,    \* h.checks: the names registered
  cache,     \* h.cache: the last status received, or NoResult
  probe,     \* probe[p]: "idle", "collecting" or "reported"
  asked,     \* asked[p]: the checks that p has copied
  running,   \* running[p]: those whose goroutines have not sent a result yet
  results,   \* results[p]: results sent and not received, as <<check, status>>
  received,  \* received[p]: the results of the report
  verdict    \* verdict[p]: the status of the report

probeVars == <<probe, asked, running, results, received, verdict>>
healthVars == <<checks, cache, probeVars>>

HealthInit ==
  /\ checks = Checks
  /\ cache = [c \in Checks |-> NoResult]
  /\ probe = [p \in Probes |-> "idle"]
  /\ asked = [p \in Probes |-> {}]
  /\ running = [p \in Probes |-> {}]
  /\ results = [p \in Probes |-> {}]
  /\ received = [p \in Probes |-> {}]
  /\ verdict = [p \in Probes |-> "healthy"]

RegisterCheck(c) ==
  /\ checks' = checks \cup {c}
  /\ UNCHANGED <<cache, probeVars>>

RemoveCheck(c) ==
  /\ checks' = checks \ {c}
  /\ cache' = [cache EXCEPT ![c] = NoResult]
  /\ UNCHANGED probeVars

CheckHealth(p) ==
  /\ probe[p] = "idle"
  /\ probe' = [probe EXCEPT ![p] = "collecting"]
  /\ asked' = [asked EXCEPT ![p] = checks]
  /\ running' = [running EXCEPT ![p] = checks]
  /\ UNCHANGED <<checks, cache, results, received, verdict>>

\* A check returns any status; the channel has room for all results.
CheckReturns(p, c, st) ==
  /\ c \in running[p]
  /\ running' = [running EXCEPT ![p] = @ \ {c}]
  /\ results' = [results EXCEPT ![p] = @ \cup {<<c, st>>}]
  /\ UNCHANGED <<checks, cache, probe, asked, received, verdict>>

\* Mutation: a degraded check makes light of an unhealthy one.
WorseUnguarded(old, new) ==
  CASE new = "healthy" -> old
    [] new = "unhealthy" -> "unhealthy"
    [] new \in {"degraded", "unknown"} -> "degraded"

\* The status of the report so far, and that of one more check.
Worse(old, new) ==
  CASE new = "healthy" -> old
    [] new = "unhealthy" -> "unhealthy"
    [] new = "degraded" -> IF old = "healthy" THEN "degraded" ELSE old
    [] new = "unknown" -> IF old # "unhealthy" THEN "degraded" ELSE old

Receive(p) ==
  \E r \in results[p] :
    /\ results' = [results EXCEPT ![p] = @ \ {r}]
    /\ received' = [received EXCEPT ![p] = @ \cup {r}]
    /\ cache' = [cache EXCEPT ![r[1]] = r[2]]
    /\ verdict' = [verdict EXCEPT ![p] = Worse(@, r[2])]
    /\ UNCHANGED <<checks, probe, asked, running>>

\* The channel is closed when all goroutines have sent.
Report(p) ==
  /\ probe[p] = "collecting" /\ running[p] = {} /\ results[p] = {}
  /\ probe' = [probe EXCEPT ![p] = "reported"]
  /\ UNCHANGED <<checks, cache, asked, running, results, received, verdict>>

HealthNext ==
  \/ \E c \in Checks : RegisterCheck(c) \/ RemoveCheck(c)
  \/ \E p \in Probes :
       \/ CheckHealth(p) \/ Receive(p) \/ Report(p)
       \/ \E c \in Checks, st \in Statuses : CheckReturns(p, c, st)

HealthSpec == HealthInit /\ [][HealthNext]_healthVars

-----------------------------------------------------------------------------
HealthTypeOK ==
  /\ checks \in SUBSET Checks
  /\ cache \in [Checks -> Statuses \cup {NoResult}]
  /\ probe \in [Probes -> {"idle", "collecting", "reported"}]
  /\ asked \in [Probes -> SUBSET Checks]
  /\ running \in [Probes -> SUBSET Checks]
  /\ results \in [Probes -> SUBSET (Checks \X Statuses)]
  /\ received \in [Probes -> SUBSET (Checks \X Statuses)]
  /\ verdict \in [Probes -> {"healthy", "degraded", "unhealthy"}]

Worst(found) ==
  IF "unhealthy" \in found THEN "unhealthy"
  ELSE IF found \cap {"degraded", "unknown"} # {} THEN "degraded"
  ELSE "healthy"

\* A report has one result of each check that was registered when it began,
\* and the worst of their statuses, in whatever order the results came and
\* whatever checks were registered and removed meanwhile. The state is well
\* formed.
ReportIsWorst ==
  /\ HealthTypeOK
  /\ \A p \in Probes : probe[p] = "reported" =>
       /\ {r[1] : r \in received[p]} = asked[p]
       /\ Cardinality(received[p]) = Cardinality(asked[p])
       /\ verdict[p] = Worst({r[2] : r \in received[p]})
=============================================================================
