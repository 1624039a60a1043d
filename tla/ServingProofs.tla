---------------------------- MODULE ServingProofs ----------------------------
(***************************************************************************)
(* OneAnswer and ReportIsWorst for any number of requests, reports and     *)
(* checks. The goroutine that serves a request and that of its handler     *)
(* meet in the timeoutWriter: whoever finds the mark or the header leaves  *)
(* the answer to the other (Agree). The results of a report are at one     *)
(* place each, running, sent or received, and the three places together    *)
(* count the checks asked (ReportInv). The health endpoints compose both:  *)
(* their steps are steps of both specifications, so both results hold of   *)
(* them, and an answer tells a finished report.                            *)
(***************************************************************************)
EXTENDS Serving, FiniteSetTheorems, TLAPS

\* What the goroutine that serves r, the one of its handler, the timeoutWriter
\* and the answer agree on.
Agree(r) ==
  /\ outer[r] = "idle" =>
       handler[r] = "none" /\ body[r] = {} /\ status[r] = NoStatus
  /\ handler[r] = "none" =>
       outer[r] \in {"idle", "returned"} /\ r \notin timedOut \cup wroteHeader
  /\ outer[r] = "waiting" => r \notin timedOut
  /\ outer[r] \in {"marked", "answering"} => r \in timedOut
  /\ outer[r] = "returned" => r \in timedOut \/ handler[r] \in {"none", "ended"}
  /\ writing[r] = "handler" <=> handler[r] = "writing"
  /\ writing[r] = "middleware" <=> outer[r] = "answering"
  /\ handler[r] = "writing" => r \notin timedOut
  /\ body[r] \in {{}, {"handler"}, {"middleware"}}
  /\ "handler" \in body[r] => r \in wroteHeader
  /\ "middleware" \in body[r] => /\ outer[r] \in {"answering", "returned"}
                                 /\ r \notin wroteHeader
  /\ status[r] = NoStatus <=> r \notin wroteHeader /\ "middleware" \notin body[r]
  /\ r \in wroteHeader => status[r] \in Codes
  /\ "middleware" \in body[r] => status[r] \in {401, 408, 504}

Busy == {r \in Requests : handler[r] \in {"running", "writing"}}
Gauge == inFlight = Cardinality(Busy)

HttpInv == HttpTypeOK /\ Gauge /\ \A r \in Requests : Agree(r)

LEMMA BusyFinite == IsFiniteSet(Busy) /\ Cardinality(Busy) \in Nat
<1>1. Busy \in SUBSET Requests
  BY DEF Busy
<1> QED BY <1>1, RequestsAssumption, FS_Subset, FS_CardinalityType

LEMMA HttpInitInv == HttpInit => HttpInv
<1> SUFFICES ASSUME HttpInit PROVE HttpInv
  OBVIOUS
<1> USE DEF HttpInit
<1>1. HttpTypeOK
  BY DEF HttpTypeOK
<1>2. Gauge
  <2>1. Busy = {}
    BY DEF Busy
  <2> QED BY <2>1, FS_EmptySet DEF Gauge
<1>3. ASSUME NEW r \in Requests PROVE Agree(r)
  BY RequestsAssumption DEF Agree, Codes
<1> QED BY <1>1, <1>2, <1>3 DEF HttpInv

-----------------------------------------------------------------------------
\* The steps of a request.
RequestStep(r) ==
  \/ Refuse(r) \/ Arrive(r) \/ Enter(r)
  \/ CtxEnds(r, "expired") \/ CtxEnds(r, "cancelled")
  \/ \E code \in Codes : WriteHeader(r, code)
  \/ Write(r) \/ Written(r) \/ HandlerReturns(r) \/ HandlerPanics(r)
  \/ HeadersRace(r) \/ Middleware(r)

LEMMA GaugeStep ==
  ASSUME HttpInv, NEW r \in Requests, RequestStep(r)
  PROVE  Gauge' /\ inFlight' \in Nat
<1>1. Cardinality(Busy) \in Nat /\ IsFiniteSet(Busy) /\ inFlight = Cardinality(Busy)
  BY BusyFinite DEF HttpInv, Gauge
<1>2. CASE Enter(r)
  <2>1. r \notin Busy /\ Busy' = Busy \cup {r} /\ inFlight' = inFlight + 1
    BY <1>2 DEF Enter, Handling, Busy, HttpInv, HttpTypeOK
  <2> QED BY <1>1, <2>1, FS_AddElement DEF Gauge
<1>3. CASE HandlerReturns(r)
  <2>1. r \in Busy /\ Busy' = Busy \ {r} /\ inFlight' = inFlight - 1
    BY <1>3 DEF HandlerReturns, Handling, Busy, HttpInv, HttpTypeOK
  <2>2. Cardinality(Busy') = Cardinality(Busy) - 1 /\ Cardinality(Busy') \in Nat
    BY <1>1, <2>1, FS_RemoveElement, FS_CardinalityType
  <2> QED BY <1>1, <2>1, <2>2 DEF Gauge
<1>4. CASE ~Enter(r) /\ ~HandlerReturns(r)
  <2>1. inFlight' = inFlight
    BY <1>4 DEF RequestStep, Refuse, Arrive, CtxEnds, WriteHeader, Write, Written,
      HandlerPanics, HeadersRace, Middleware, SeeHandled, Mark, Answer, Answered
  <2>2. ASSUME NEW q \in Requests
        PROVE  handler'[q] \in {"running", "writing"} <=> handler[q] \in {"running", "writing"}
    <3>1. CASE Write(r) \/ Written(r) \/ Arrive(r)
      BY <3>1 DEF Write, Written, Arrive, Handling, Serving, HttpInv, HttpTypeOK, Agree
    <3>2. CASE ~(Write(r) \/ Written(r) \/ Arrive(r))
      BY <1>4, <3>2 DEF RequestStep, Refuse, CtxEnds, WriteHeader, HandlerPanics,
        HeadersRace, Middleware, SeeHandled, Mark, Answer, Answered
    <3> QED BY <3>1, <3>2
  <2>3. Busy' = Busy
    BY <2>2 DEF Busy
  <2> QED BY <1>1, <2>1, <2>3 DEF Gauge
<1> QED BY <1>2, <1>3, <1>4

LEMMA TypesStep ==
  ASSUME HttpInv, NEW r \in Requests, RequestStep(r)
  PROVE  HttpTypeOK'
<1> USE DEF HttpInv, HttpTypeOK, answerVars
<1>0. inFlight' \in Nat
  BY GaugeStep
<1>1. CASE Refuse(r)
  BY <1>0, <1>1 DEF Refuse, Serving
<1>2. CASE Arrive(r)
  BY <1>0, <1>2 DEF Arrive, Serving
<1>3. CASE Enter(r)
  BY <1>0, <1>3 DEF Enter, Handling
<1>4. CASE CtxEnds(r, "expired") \/ CtxEnds(r, "cancelled")
  BY <1>0, <1>4 DEF CtxEnds
<1>5. CASE \E code \in Codes : WriteHeader(r, code)
  BY <1>0, <1>5 DEF WriteHeader, Codes
<1>6. CASE Write(r)
  BY <1>0, <1>6 DEF Write, Handling
<1>7. CASE Written(r)
  BY <1>0, <1>7 DEF Written, Handling
<1>8. CASE HandlerReturns(r)
  BY <1>0, <1>8 DEF HandlerReturns, Handling
<1>9. CASE HandlerPanics(r) \/ HeadersRace(r)
  BY <1>0, <1>9 DEF HandlerPanics, HeadersRace
<1>10. CASE SeeHandled(r)
  BY <1>0, <1>10 DEF SeeHandled, Serving
<1>11. CASE Mark(r)
  BY <1>0, <1>11 DEF Mark, Serving
<1>12. CASE Answer(r)
  BY <1>0, <1>12 DEF Answer, Serving
<1>13. CASE Answered(r)
  BY <1>0, <1>13 DEF Answered, Serving
<1> QED BY <1>1, <1>2, <1>3, <1>4, <1>5, <1>6, <1>7, <1>8, <1>9, <1>10, <1>11, <1>12, <1>13 DEF RequestStep, Middleware

LEMMA AgreeStep ==
  ASSUME HttpInv, NEW r \in Requests, RequestStep(r)
  PROVE  Agree(r)'
<1> USE DEF HttpInv, HttpTypeOK, answerVars, Agree, Unlocked
<1>1. CASE Refuse(r)
  BY <1>1, RequestsAssumption DEF Refuse, Serving, Codes
<1>2. CASE Arrive(r)
  BY <1>2 DEF Arrive, Serving
<1>3. CASE Enter(r)
  BY <1>3 DEF Enter, Handling
<1>4. CASE CtxEnds(r, "expired") \/ CtxEnds(r, "cancelled")
  BY <1>4 DEF CtxEnds
<1>5. CASE \E code \in Codes : WriteHeader(r, code)
  BY <1>5, RequestsAssumption DEF WriteHeader, Codes
<1>6. CASE Write(r)
  BY <1>6, RequestsAssumption DEF Write, Handling, Codes
<1>7. CASE Written(r)
  BY <1>7 DEF Written, Handling
<1>8. CASE HandlerReturns(r)
  BY <1>8 DEF HandlerReturns, Handling
<1>9. CASE HandlerPanics(r) \/ HeadersRace(r)
  BY <1>9 DEF HandlerPanics, HeadersRace
<1>10. CASE SeeHandled(r)
  BY <1>10 DEF SeeHandled, Serving
<1>11. CASE Mark(r)
  BY <1>11 DEF Mark, Serving
<1>12. CASE Answer(r)
  BY <1>12, RequestsAssumption DEF Answer, Serving, Codes
<1>13. CASE Answered(r)
  BY <1>13 DEF Answered, Serving
<1> QED BY <1>1, <1>2, <1>3, <1>4, <1>5, <1>6, <1>7, <1>8, <1>9, <1>10, <1>11, <1>12, <1>13 DEF RequestStep, Middleware

LEMMA OthersAgree ==
  ASSUME HttpInv, NEW r \in Requests, RequestStep(r), NEW q \in Requests \ {r}
  PROVE  Agree(q)'
<1> USE DEF HttpInv, HttpTypeOK, answerVars
<1>1. /\ outer'[q] = outer[q] /\ handler'[q] = handler[q] /\ writing'[q] = writing[q]
      /\ q \in timedOut' <=> q \in timedOut
      /\ q \in wroteHeader' <=> q \in wroteHeader
      /\ status'[q] = status[q] /\ body'[q] = body[q]
  BY DEF RequestStep, Refuse, Arrive, Enter, CtxEnds, WriteHeader, Write, Written,
    HandlerReturns, HandlerPanics, HeadersRace, Middleware, SeeHandled, Mark, Answer,
    Answered, Serving, Handling
<1> QED BY <1>1 DEF Agree

LEMMA HttpStepInv == HttpInv /\ [HttpNext]_httpVars => HttpInv'
<1> SUFFICES ASSUME HttpInv, [HttpNext]_httpVars PROVE HttpInv'
  OBVIOUS
<1>1. CASE UNCHANGED httpVars
  BY <1>1 DEF httpVars, answerVars, HttpInv, HttpTypeOK, Gauge, Busy, Agree
<1>2. ASSUME NEW r \in Requests, RequestStep(r) PROVE HttpInv'
  <2>1. ASSUME NEW q \in Requests PROVE Agree(q)'
    BY <1>2, AgreeStep, OthersAgree
  <2> QED BY <1>2, <2>1, TypesStep, GaugeStep DEF HttpInv
<1> QED BY <1>1, <1>2 DEF HttpNext, RequestStep

LEMMA HttpInvariance == HttpSpec => []HttpInv
  BY HttpInitInv, HttpStepInv, PTL DEF HttpSpec

\* However the timeout of a request and the writes of its handler interleave,
\* the answer is whole and one side's, and whoever returns leaves the
\* connection alone: for any number of requests.
THEOREM AnswersAreWhole == HttpSpec => []OneAnswer
<1>1. HttpInv => OneAnswer
  <2> SUFFICES ASSUME HttpInv, NEW r \in Requests
               PROVE  /\ Cardinality(body[r]) <= 1
                      /\ outer[r] = "returned" => Unlocked(r)
                      /\ status[r] \in {401, 504} => body[r] = {"middleware"}
                      /\ body[r] = {"middleware"} => status[r] \in {401, 408, 504}
                      /\ r \in wroteHeader =>
                           status[r] \in Codes /\ "middleware" \notin body[r]
    BY DEF OneAnswer, HttpInv, Gauge, Busy
  <2>1. Cardinality(body[r]) <= 1
    <3>1. body[r] \in {{}, {"handler"}, {"middleware"}}
      BY DEF HttpInv, Agree
    <3>2. Cardinality({}) = 0 /\ Cardinality({"handler"}) = 1 /\ Cardinality({"middleware"}) = 1
      BY FS_EmptySet, FS_Singleton
    <3> QED BY <3>1, <3>2
  <2>2. outer[r] = "returned" => Unlocked(r)
    BY DEF HttpInv, HttpTypeOK, Agree, Unlocked
  <2>3. /\ status[r] \in {401, 504} => body[r] = {"middleware"}
        /\ body[r] = {"middleware"} => status[r] \in {401, 408, 504}
        /\ r \in wroteHeader => status[r] \in Codes /\ "middleware" \notin body[r]
    BY RequestsAssumption DEF HttpInv, Agree, Codes
  <2> QED BY <2>1, <2>2, <2>3
<1> QED BY <1>1, HttpInvariance, PTL

\* What has been sent is sent: the status never changes, text of one side is
\* not followed by text of the other, and the answer of a request whose serving
\* goroutine has returned is left alone, though its handler may still run.
NothingTakenBack(r) ==
  /\ status[r] # NoStatus => status'[r] = status[r]
  /\ body[r] # {} => body'[r] = body[r]
  /\ outer[r] = "returned" =>
       outer'[r] = "returned" /\ status'[r] = status[r] /\ body'[r] = body[r]

\* Whatever code and text a handler writes, and whenever: no step of a request
\* takes back what its answer, or that of another one, has said.
THEOREM AnswersAreFinal == HttpSpec => [][\A r \in Requests : NothingTakenBack(r)]_httpVars
<1>1. ASSUME HttpInv, NEW q \in Requests, RequestStep(q), NEW r \in Requests
      PROVE  NothingTakenBack(r)
  <2> USE <1>1 DEF HttpInv, HttpTypeOK, Agree, answerVars, NothingTakenBack, Unlocked
  <2>1. CASE r # q
    BY <2>1
       DEF RequestStep, Refuse, Arrive, Enter, CtxEnds, WriteHeader, Write, Written,
           HandlerReturns, HandlerPanics, HeadersRace, Middleware, SeeHandled, Mark, Answer,
           Answered, Serving, Handling
  <2>2. CASE r = q /\ (Refuse(q) \/ Arrive(q))
    BY <2>2 DEF Refuse, Arrive, Serving
  <2>3. CASE r = q /\ \E code \in Codes : WriteHeader(q, code)
    BY <2>3 DEF WriteHeader, Codes
  <2>4. CASE r = q /\ Write(q)
    <3>1. CASE q \in timedOut
      BY <2>4, <3>1 DEF Write
    <3>2. CASE q \notin timedOut
      <4>1. /\ handler[q] = "running" /\ outer' = outer
            /\ status' = [status EXCEPT ![q] = IF q \in wroteHeader THEN @ ELSE 200]
            /\ body' = [body EXCEPT ![q] = @ \cup {"handler"}]
        BY <2>4, <3>2 DEF Write, Handling
      <4>2. outer[q] \notin {"answering", "returned"} /\ "middleware" \notin body[q]
        BY <3>2, <4>1
      <4>3. q \notin wroteHeader => status[q] = NoStatus
        BY <4>2
      <4>4. body[q] \in {{}, {"handler"}}
        BY <4>2
      <4> QED BY <2>4, <4>1, <4>2, <4>3, <4>4
    <3> QED BY <3>1, <3>2
  <2>5. CASE r = q /\ Answer(q)
    BY <2>5 DEF Answer, Serving, Codes
  <2>6. CASE r = q /\ (SeeHandled(q) \/ Mark(q) \/ Answered(q))
    BY <2>6 DEF SeeHandled, Mark, Answered, Serving
  <2>7. CASE /\ r = q
             /\ \/ Enter(q) \/ CtxEnds(q, "expired") \/ CtxEnds(q, "cancelled")
                \/ Written(q) \/ HandlerReturns(q) \/ HandlerPanics(q) \/ HeadersRace(q)
    BY <2>7 DEF Enter, CtxEnds, Written, HandlerReturns, HandlerPanics, HeadersRace, Handling
  <2> QED
    BY <1>1, <2>1, <2>2, <2>3, <2>4, <2>5, <2>6, <2>7 DEF RequestStep, Middleware
<1>2. HttpInv /\ [HttpNext]_httpVars => [\A r \in Requests : NothingTakenBack(r)]_httpVars
  BY <1>1 DEF HttpNext, RequestStep
<1> QED BY <1>2, HttpInvariance, PTL DEF HttpSpec

-----------------------------------------------------------------------------
Sent(p) == {r[1] : r \in results[p]}
Heard(p) == {r[1] : r \in received[p]}
Found(p) == {r[2] : r \in received[p]}

\* Each check that a report has asked is at one place, with one result at most.
OnePlace(p) ==
  /\ asked[p] = running[p] \cup Sent(p) \cup Heard(p)
  /\ running[p] \cap (Sent(p) \cup Heard(p)) = {}
  /\ Sent(p) \cap Heard(p) = {}
  /\ \A q, r \in results[p] : q[1] = r[1] => q = r
  /\ \A q, r \in received[p] : q[1] = r[1] => q = r

\* So there are as many as have been asked.
AllCounted(p) ==
  Cardinality(running[p]) + Cardinality(results[p]) + Cardinality(received[p])
    = Cardinality(asked[p])

ReportInv(p) ==
  /\ probe[p] = "idle" => asked[p] = {}
  /\ probe[p] = "reported" => running[p] = {} /\ results[p] = {}
  /\ OnePlace(p)
  /\ AllCounted(p)
  /\ verdict[p] = Worst(Found(p))

HealthInv == HealthTypeOK /\ \A p \in Probes : ReportInv(p)

\* Folding one more status into the worst of those found gives the worst of all.
LEMMA WorseIsWorst ==
  ASSUME NEW found \in SUBSET Statuses, NEW st \in Statuses
  PROVE  /\ Worst(found \cup {st}) = Worse(Worst(found), st)
         /\ Worst(found) \in {"healthy", "degraded", "unhealthy"}
  BY DEF Worst, Worse, Statuses

LEMMA ProbeFinite ==
  ASSUME HealthTypeOK, NEW p \in Probes
  PROVE  /\ IsFiniteSet(asked[p]) /\ IsFiniteSet(running[p])
         /\ IsFiniteSet(results[p]) /\ IsFiniteSet(received[p])
         /\ Cardinality(asked[p]) \in Nat /\ Cardinality(running[p]) \in Nat
         /\ Cardinality(results[p]) \in Nat /\ Cardinality(received[p]) \in Nat
<1>1. IsFiniteSet(Statuses)
  <2>1. IsFiniteSet({"healthy"} \cup {"degraded"})
    BY FS_Singleton, FS_AddElement
  <2>2. IsFiniteSet(({"healthy"} \cup {"degraded"}) \cup {"unknown"})
    BY <2>1, FS_AddElement
  <2>3. Statuses = (({"healthy"} \cup {"degraded"}) \cup {"unknown"}) \cup {"unhealthy"}
    BY DEF Statuses
  <2> QED BY <2>2, <2>3, FS_AddElement
<1>2. IsFiniteSet(Checks \X Statuses)
  BY <1>1, ChecksAssumption, FS_Product
<1> QED BY <1>2, ChecksAssumption, FS_Subset, FS_CardinalityType DEF HealthTypeOK

LEMMA HealthInitInv == HealthInit => HealthInv
<1> SUFFICES ASSUME HealthInit PROVE HealthInv
  OBVIOUS
<1> USE DEF HealthInit
<1>1. HealthTypeOK
  BY DEF HealthTypeOK
<1>2. ASSUME NEW p \in Probes PROVE ReportInv(p)
  <2>1. OnePlace(p)
    BY DEF OnePlace, Sent, Heard
  <2>2. AllCounted(p)
    BY FS_EmptySet DEF AllCounted
  <2>3. verdict[p] = Worst(Found(p))
    BY DEF Worst, Found
  <2> QED BY <2>1, <2>2, <2>3 DEF ReportInv
<1> QED BY <1>1, <1>2 DEF HealthInv

\* A step of one report leaves the others alone.
LEMMA OtherReports ==
  ASSUME HealthInv, NEW p \in Probes,
         probe'[p] = probe[p], asked'[p] = asked[p], running'[p] = running[p],
         results'[p] = results[p], received'[p] = received[p], verdict'[p] = verdict[p]
  PROVE  ReportInv(p)'
  BY DEF HealthInv, ReportInv, OnePlace, AllCounted, Found, Sent, Heard

LEMMA CheckHealthStep ==
  ASSUME HealthInv, NEW p \in Probes, CheckHealth(p) PROVE HealthInv'
<1> USE DEF CheckHealth
<1>1. HealthTypeOK'
  BY DEF HealthInv, HealthTypeOK
<1>2. ReportInv(p)'
  <2>1. asked'[p] = checks /\ running'[p] = checks /\ probe'[p] = "collecting"
    BY DEF HealthInv, HealthTypeOK
  <2>2. results[p] = {} /\ received[p] = {}
    <3>1. asked[p] = {}
      BY DEF HealthInv, ReportInv
    <3>2. Sent(p) = {} /\ Heard(p) = {}
      BY <3>1 DEF HealthInv, ReportInv, OnePlace
    <3> QED BY <3>2 DEF Sent, Heard
  <2>3. OnePlace(p)'
    BY <2>1, <2>2 DEF OnePlace, Sent, Heard
  <2>4. AllCounted(p)'
    BY <1>1, <2>1, <2>2, ProbeFinite, FS_EmptySet, FS_CardinalityType, FS_Subset, ChecksAssumption
       DEF AllCounted, HealthInv, HealthTypeOK
  <2> QED BY <2>1, <2>3, <2>4 DEF HealthInv, ReportInv, Found
<1>3. ASSUME NEW q \in Probes \ {p} PROVE ReportInv(q)'
  BY OtherReports DEF HealthInv, HealthTypeOK
<1> QED BY <1>1, <1>2, <1>3 DEF HealthInv

LEMMA CheckReturnsStep ==
  ASSUME HealthInv, NEW p \in Probes, NEW c \in Checks, NEW st \in Statuses,
         CheckReturns(p, c, st)
  PROVE  HealthInv'
<1> USE DEF CheckReturns
<1>1. HealthTypeOK'
  BY DEF HealthInv, HealthTypeOK
<1>2. ReportInv(p)'
  <2>1. /\ c \in running[p] /\ running'[p] = running[p] \ {c}
        /\ results'[p] = results[p] \cup {<<c, st>>}
        /\ received'[p] = received[p] /\ asked'[p] = asked[p]
        /\ probe'[p] = probe[p] /\ verdict'[p] = verdict[p]
    BY DEF HealthInv, HealthTypeOK
  <2>2. <<c, st>> \notin results[p] /\ c \notin Sent(p) \cup Heard(p)
    BY <2>1 DEF HealthInv, ReportInv, OnePlace, Sent, Heard
  <2>3. OnePlace(p)'
    <3>1. Sent(p)' = Sent(p) \cup {c} /\ Heard(p)' = Heard(p)
      <4>1. <<c, st>>[1] = c
        OBVIOUS
      <4> QED BY <2>1, <4>1 DEF Sent, Heard
    <3>2. \A q, r \in results'[p] : q[1] = r[1] => q = r
      BY <2>1, <2>2 DEF HealthInv, ReportInv, OnePlace, Sent, Heard
    <3>3. OnePlace(p)
      BY DEF HealthInv, ReportInv
    <3> QED BY <2>1, <2>2, <3>1, <3>2, <3>3 DEF OnePlace
  <2>4. AllCounted(p)'
    <3>1. IsFiniteSet(running[p]) /\ IsFiniteSet(results[p])
      BY ProbeFinite DEF HealthInv
    <3>2. Cardinality(running'[p]) = Cardinality(running[p]) - 1
      BY <2>1, <3>1, FS_RemoveElement
    <3>3. Cardinality(results'[p]) = Cardinality(results[p]) + 1
      BY <2>1, <2>2, <3>1, FS_AddElement
    <3> QED BY <2>1, <3>2, <3>3, ProbeFinite DEF HealthInv, ReportInv, AllCounted
  <2>5. probe[p] # "reported"
    BY <2>1 DEF HealthInv, ReportInv
  <2> QED BY <2>1, <2>3, <2>4, <2>5 DEF HealthInv, ReportInv, Found
<1>3. ASSUME NEW q \in Probes \ {p} PROVE ReportInv(q)'
  BY OtherReports DEF HealthInv, HealthTypeOK
<1> QED BY <1>1, <1>2, <1>3 DEF HealthInv

LEMMA ReceiveStep ==
  ASSUME HealthInv, NEW p \in Probes, Receive(p) PROVE HealthInv'
<1>1. PICK r \in results[p] :
        /\ results' = [results EXCEPT ![p] = @ \ {r}]
        /\ received' = [received EXCEPT ![p] = @ \cup {r}]
        /\ cache' = [cache EXCEPT ![r[1]] = r[2]]
        /\ verdict' = [verdict EXCEPT ![p] = Worse(@, r[2])]
        /\ UNCHANGED <<checks, probe, asked, running>>
  BY DEF Receive
<1>2. r \in Checks \X Statuses
  BY <1>1 DEF HealthInv, HealthTypeOK
<1>3. /\ results'[p] = results[p] \ {r} /\ received'[p] = received[p] \cup {r}
      /\ verdict'[p] = Worse(verdict[p], r[2])
      /\ running'[p] = running[p] /\ asked'[p] = asked[p] /\ probe'[p] = probe[p]
  BY <1>1 DEF HealthInv, HealthTypeOK
<1>4. r \notin received[p] /\ r[1] \notin Heard(p) /\ r[1] \in Sent(p)
  BY DEF HealthInv, ReportInv, OnePlace, Sent, Heard
<1>5. verdict'[p] = Worst(Found(p)') /\ verdict'[p] \in {"healthy", "degraded", "unhealthy"}
  <2>1. Found(p) \in SUBSET Statuses
    BY DEF Found, HealthInv, HealthTypeOK
  <2>2. Found(p)' = Found(p) \cup {r[2]}
    BY <1>3 DEF Found
  <2>3. verdict[p] = Worst(Found(p))
    BY DEF HealthInv, ReportInv
  <2>4. r[2] \in Statuses
    BY <1>2
  <2> HIDE DEF Found
  <2> QED BY <1>3, <2>1, <2>2, <2>3, <2>4, WorseIsWorst
<1>6. HealthTypeOK'
  <2>1. verdict' \in [Probes -> {"healthy", "degraded", "unhealthy"}]
    BY <1>1, <1>5 DEF HealthInv, HealthTypeOK
  <2> QED BY <1>1, <1>2, <2>1 DEF HealthInv, HealthTypeOK
<1>7. ReportInv(p)'
  <2>1. OnePlace(p)'
    <3>1. Heard(p)' = Heard(p) \cup {r[1]}
      BY <1>3 DEF Sent, Heard
    <3>2. Sent(p)' = Sent(p) \ {r[1]}
      BY <1>3 DEF Sent, Heard, HealthInv, ReportInv, OnePlace
    <3>3. \A q, s \in received'[p] : q[1] = s[1] => q = s
      BY <1>3, <1>4 DEF HealthInv, ReportInv, OnePlace, Sent, Heard
    <3>4. OnePlace(p)
      BY DEF HealthInv, ReportInv
    <3>5. \A q, s \in results'[p] : q[1] = s[1] => q = s
      BY <1>3, <3>4 DEF OnePlace
    <3> QED BY <1>3, <1>4, <3>1, <3>2, <3>3, <3>4, <3>5 DEF OnePlace
  <2>2. AllCounted(p)'
    <3>1. IsFiniteSet(results[p]) /\ IsFiniteSet(received[p])
      BY ProbeFinite DEF HealthInv
    <3>2. Cardinality(results'[p]) = Cardinality(results[p]) - 1
      BY <1>3, <3>1, FS_RemoveElement
    <3>3. Cardinality(received'[p]) = Cardinality(received[p]) + 1
      BY <1>3, <1>4, <3>1, FS_AddElement
    <3> QED BY <1>3, <3>2, <3>3, ProbeFinite DEF HealthInv, ReportInv, AllCounted
  <2> QED BY <1>3, <1>5, <2>1, <2>2 DEF HealthInv, ReportInv
<1>8. ASSUME NEW q \in Probes \ {p} PROVE ReportInv(q)'
  BY <1>1, OtherReports DEF HealthInv, HealthTypeOK
<1> QED BY <1>6, <1>7, <1>8 DEF HealthInv

LEMMA HealthStepInv == HealthInv /\ [HealthNext]_healthVars => HealthInv'
<1> SUFFICES ASSUME HealthInv, [HealthNext]_healthVars PROVE HealthInv'
  OBVIOUS
<1>1. ASSUME NEW c \in Checks, RegisterCheck(c) \/ RemoveCheck(c) PROVE HealthInv'
  <2>1. HealthTypeOK' /\ UNCHANGED probeVars
    BY <1>1 DEF HealthInv, HealthTypeOK, RegisterCheck, RemoveCheck, probeVars
  <2> QED BY <2>1, OtherReports DEF HealthInv, probeVars
<1>2. ASSUME NEW p \in Probes, Report(p) PROVE HealthInv'
  <2>1. HealthTypeOK'
    BY <1>2 DEF HealthInv, HealthTypeOK, Report
  <2>2. ReportInv(p)'
    BY <1>2 DEF Report, HealthInv, HealthTypeOK, ReportInv, OnePlace, AllCounted, Found,
      Sent, Heard
  <2>3. ASSUME NEW q \in Probes \ {p} PROVE ReportInv(q)'
    BY <1>2, OtherReports DEF Report, HealthInv, HealthTypeOK
  <2> QED BY <2>1, <2>2, <2>3 DEF HealthInv
<1>3. CASE UNCHANGED healthVars
  <2>1. HealthTypeOK'
    BY <1>3 DEF HealthInv, HealthTypeOK, healthVars, probeVars
  <2> QED BY <1>3, <2>1, OtherReports DEF HealthInv, healthVars, probeVars
<1> QED BY <1>1, <1>2, <1>3, CheckHealthStep, CheckReturnsStep, ReceiveStep DEF HealthNext

LEMMA HealthInvariance == HealthSpec => []HealthInv
  BY HealthInitInv, HealthStepInv, PTL DEF HealthSpec

\* Whatever checks are registered and removed while reports are made, and in
\* whatever order results come, a report has one result of each check asked and
\* the worst of their statuses: for any number of reports and checks.
THEOREM ReportsAreWorst == HealthSpec => []ReportIsWorst
<1>1. HealthInv => ReportIsWorst
  <2> SUFFICES ASSUME HealthInv, NEW p \in Probes, probe[p] = "reported"
               PROVE  /\ {r[1] : r \in received[p]} = asked[p]
                      /\ Cardinality(received[p]) = Cardinality(asked[p])
                      /\ verdict[p] = Worst({r[2] : r \in received[p]})
    BY DEF ReportIsWorst, HealthInv
  <2>1. running[p] = {} /\ results[p] = {}
    BY DEF HealthInv, ReportInv
  <2>2. {r[1] : r \in received[p]} = asked[p]
    BY <2>1 DEF HealthInv, ReportInv, OnePlace, Sent, Heard
  <2>3. Cardinality(received[p]) = Cardinality(asked[p])
    BY <2>1, ProbeFinite, FS_EmptySet DEF HealthInv, ReportInv, AllCounted
  <2> QED BY <2>2, <2>3 DEF HealthInv, ReportInv, Found
<1> QED BY <1>1, HealthInvariance, PTL

-----------------------------------------------------------------------------
\* A step of the server with its health endpoints is a step of the middleware,
\* or leaves it alone, and a step of the health checker, or leaves it alone.
LEMMA ServingStepMapped ==
  [ServingNext]_servingVars => [HttpNext]_httpVars /\ [HealthNext]_healthVars
<1> SUFFICES ASSUME [ServingNext]_servingVars
             PROVE  [HttpNext]_httpVars /\ [HealthNext]_healthVars
  OBVIOUS
<1>1. CASE UNCHANGED servingVars
  BY <1>1 DEF servingVars
<1>2. ASSUME crashed = "no", NEW r \in Requests, HealthHandler(r)
      PROVE  [HttpNext]_httpVars /\ [HealthNext]_healthVars
  <2>1. CASE Probing(r)
    BY <2>1, ServingAssumption DEF Probing, HealthNext
  <2>2. CASE AnswerProbe(r)
    <3>1. Code(verdict[r]) \in Codes
      BY DEF Code, Codes
    <3> QED BY <1>2, <2>2, <3>1 DEF AnswerProbe, HttpNext
  <2>3. CASE EncodeReport(r) \/ EndProbe(r)
    BY <1>2, <2>3 DEF EncodeReport, EndProbe, HttpNext
  <2> QED BY <1>2, <2>1, <2>2, <2>3 DEF HealthHandler
<1>3. ASSUME crashed = "no", NEW r \in Requests, Surroundings(r)
      PROVE  [HttpNext]_httpVars /\ [HealthNext]_healthVars
  BY <1>3 DEF Surroundings, HttpNext
<1>4. CASE ChecksStep
  BY <1>4, ServingAssumption DEF ChecksStep, HealthNext
<1> QED BY <1>1, <1>2, <1>3, <1>4 DEF ServingNext

\* The server with its health endpoints implements the specification of the
\* middleware, the fairness of its goroutines included, and the safety part of
\* that of the health checker, which asks for no fairness.
THEOREM ServingUsesBoth == ServingSpec => HttpSpec /\ HealthSpec
<1>1. ServingInit => HttpInit /\ HealthInit
  BY DEF ServingInit
<1> QED BY <1>1, ServingStepMapped, PTL DEF ServingSpec, HttpSpec, HealthSpec

\* So the answers of the health endpoints are whole, and their reports are the
\* worst of what the checks say, though a timeout may come in the middle.
THEOREM HealthEndpointsAnswer == ServingSpec => []OneAnswer /\ []ReportIsWorst
  BY ServingUsesBoth, AnswersAreWhole, ReportsAreWorst, PTL

\* A health answer of the handler tells the report: 200 unless a check was
\* unhealthy.
AnswerTellsReport ==
  \A r \in Requests : status[r] \in {200, 503} =>
    probe[r] = "reported" /\ status[r] = Code(Worst(Found(r)))

\* What is recorded is the code of a finished report; it is sent, or the
\* timeout was first.
Recorded(r) ==
  /\ recorded[r] # NoStatus =>
       /\ probe[r] = "reported" /\ recorded[r] = Code(verdict[r])
       /\ r \in timedOut \cup wroteHeader
  /\ r \in wroteHeader => recorded[r] # NoStatus /\ status[r] = recorded[r]

ServingInv == HttpInv /\ HealthInv /\ \A r \in Requests : Recorded(r)

LEMMA ServingInitInv == ServingInit => ServingInv
<1> SUFFICES ASSUME ServingInit PROVE ServingInv
  OBVIOUS
<1>1. ASSUME NEW r \in Requests PROVE Recorded(r)
  BY DEF ServingInit, HttpInit, Recorded
<1> QED BY <1>1, HttpInitInv, HealthInitInv DEF ServingInit, ServingInv

LEMMA ServingStepInv == ServingInv /\ [ServingNext]_servingVars => ServingInv'
<1> SUFFICES ASSUME ServingInv, [ServingNext]_servingVars PROVE ServingInv'
  OBVIOUS
<1>1. HttpInv' /\ HealthInv'
  BY HttpStepInv, HealthStepInv, ServingStepMapped DEF ServingInv
<1>2. ASSUME NEW r \in Requests PROVE Recorded(r)'
  <2> USE DEF ServingInv, HttpInv, HttpTypeOK, HealthInv, HealthTypeOK
  <2>1. CASE UNCHANGED servingVars
    BY <2>1 DEF servingVars, httpVars, answerVars, healthVars, probeVars, Recorded
  <2>2. ASSUME NEW q \in Requests, Probing(q) PROVE Recorded(r)'
    <3>1. UNCHANGED httpVars
      BY <2>2 DEF Probing
    <3>2. probe[r] = "reported" => probe'[r] = "reported" /\ verdict'[r] = verdict[r]
      <4>1. CASE CheckHealth(q) \/ Report(q)
        BY <4>1, ServingAssumption DEF CheckHealth, Report
      <4>2. CASE Receive(q)
        BY <4>2, ServingAssumption DEF Receive, ReportInv
      <4> QED BY <2>2, <4>1, <4>2 DEF Probing
    <3> QED BY <3>1, <3>2 DEF Recorded, httpVars, answerVars
  <2>3. ASSUME NEW q \in Requests, AnswerProbe(q) PROVE Recorded(r)'
    <3>1. PICK code \in Nat : code = Code(verdict[q])
      BY DEF Code
    <3> QED BY <2>3, <3>1, RequestsAssumption
            DEF AnswerProbe, WriteHeader, Recorded, healthVars, probeVars
  <2>4. ASSUME NEW q \in Requests, EncodeReport(q) PROVE Recorded(r)'
    BY <2>4 DEF EncodeReport, Write, Handling, Recorded, answerVars, healthVars, probeVars
  <2>5. ASSUME NEW q \in Requests, EndProbe(q) PROVE Recorded(r)'
    BY <2>5 DEF EndProbe, HandlerReturns, Handling, Recorded, answerVars, healthVars, probeVars
  <2>6. ASSUME NEW q \in Requests, Surroundings(q) PROVE Recorded(r)'
    <3> USE DEF Recorded, Serving, Handling, Surroundings, answerVars, healthVars, probeVars
    <3>1. CASE Refuse(q) \/ Arrive(q) \/ Enter(q) \/ Written(q)
      BY <2>6, <3>1 DEF Refuse, Arrive, Enter, Written, Agree
    <3>2. CASE CtxEnds(q, "expired") \/ CtxEnds(q, "cancelled")
                \/ HandlerPanics(q) \/ HeadersRace(q)
      BY <2>6, <3>2 DEF CtxEnds, HandlerPanics, HeadersRace
    <3>3. CASE Middleware(q)
      BY <2>6, <3>3 DEF Middleware, SeeHandled, Mark, Answer, Answered
    <3> QED BY <2>6, <3>1, <3>2, <3>3
  <2>7. CASE ChecksStep
    <3>1. UNCHANGED <<probe, verdict>> /\ UNCHANGED httpVars
      BY <2>7 DEF ChecksStep, CheckReturns, RegisterCheck, RemoveCheck, probeVars
    <3> QED BY <3>1 DEF Recorded, httpVars, answerVars
  <2> QED BY <2>1, <2>2, <2>3, <2>4, <2>5, <2>6, <2>7 DEF ServingNext, HealthHandler
<1> QED BY <1>1, <1>2 DEF ServingInv

\* An answer 200 or 503 of a health endpoint is that of a finished report of all
\* the checks, however the timeout falls between the report, its header and its
\* text.
THEOREM AnswersTellReports == ServingSpec => []AnswerTellsReport
<1>1. ServingInv => AnswerTellsReport
  BY ServingAssumption, RequestsAssumption
     DEF ServingInv, HttpInv, HealthInv, Agree, ReportInv, Recorded, AnswerTellsReport
<1> QED BY <1>1, ServingInitInv, ServingStepInv, PTL DEF ServingSpec
=============================================================================
