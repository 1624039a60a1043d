------------------------------- MODULE Serving -------------------------------
(***************************************************************************)
(* The HTTP server with its health endpoints: the handler of a request is  *)
(* HealthHandler or ReadinessHandler of internal/health/health.go, which   *)
(* runs CheckHealth in the goroutine that TimeoutMiddleware has started,   *)
(* and answers 200 or 503. The timeout may come at any moment of it: then  *)
(* the handler goes on to its end without being heard.                     *)
(***************************************************************************)
EXTENDS HttpServer, HealthChecker

ASSUME ServingAssumption == Probes = Requests

VARIABLE encoded    \* requests whose handler has written its report

servingVars == <<httpVars, healthVars, encoded>>

ServingInit == HttpInit /\ HealthInit /\ encoded = {}

Probing(r) ==
  /\ handler[r] = "running"
  /\ CheckHealth(r) \/ Receive(r) \/ Report(r)
  /\ UNCHANGED <<httpVars, encoded>>

\* The HTTP status of a report: degraded is still ready.
Code(v) == IF v \in {"healthy", "degraded"} THEN 200 ELSE 503

AnswerProbe(r) ==
  /\ probe[r] = "reported" /\ recorded[r] = NoStatus
  /\ WriteHeader(r, Code(verdict[r]))
  /\ UNCHANGED <<healthVars, encoded>>

\* The encoder writes the report at once, or is told that it is too late.
EncodeReport(r) ==
  /\ recorded[r] # NoStatus /\ r \notin encoded
  /\ Write(r)
  /\ encoded' = encoded \cup {r}
  /\ UNCHANGED healthVars

EndProbe(r) ==
  /\ r \in encoded
  /\ HandlerReturns(r)
  /\ UNCHANGED <<healthVars, encoded>>

HealthHandler(r) == Probing(r) \/ AnswerProbe(r) \/ EncodeReport(r) \/ EndProbe(r)

Surroundings(r) ==
  /\ \/ Refuse(r) \/ Arrive(r) \/ Enter(r) \/ Written(r)
     \/ CtxEnds(r, "expired") \/ CtxEnds(r, "cancelled")
     \/ HandlerPanics(r) \/ HeadersRace(r) \/ Middleware(r)
  /\ UNCHANGED <<healthVars, encoded>>

\* Checks are goroutines of their own; they are registered and removed at any
\* time.
ChecksStep ==
  /\ \/ \E r \in Requests, c \in Checks, st \in Statuses : CheckReturns(r, c, st)
     \/ \E c \in Checks : RegisterCheck(c) \/ RemoveCheck(c)
  /\ UNCHANGED <<httpVars, encoded>>

ServingNext ==
  /\ crashed = "no"
  /\ \/ \E r \in Requests : HealthHandler(r) \/ Surroundings(r)
     \/ ChecksStep

ServingSpec == ServingInit /\ [][ServingNext]_servingVars /\ HttpFairness
=============================================================================
