------------------------------ MODULE HttpServer ------------------------------
(***************************************************************************)
(* The middleware around every HTTP handler, of internal/server/           *)
(* middleware.go: BasicAuthMiddleware, TimeoutMiddleware with its          *)
(* timeoutWriter, MetricsMiddleware. The goroutine that serves a request   *)
(* starts another one for the handler and waits for it or for the context. *)
(* When the context is first it marks the writer, answers if the handler   *)
(* has not, and returns: the handler may go on, but writes no more.        *)
(***************************************************************************)
EXTENDS Naturals, FiniteSets

CONSTANTS Requests, NoStatus

ASSUME RequestsAssumption == IsFiniteSet(Requests) /\ NoStatus \notin Nat

VARIABLES
  outer,        \* outer[r]: where the goroutine is that serves r
  handler,      \* handler[r]: where the goroutine of the handler is
  ctx,          \* ctx[r]: "live", "expired" or "cancelled"
  timedOut,     \* requests whose timeoutWriter is marked
  wroteHeader,  \* requests whose timeoutWriter has passed on a header
  writing,      \* writing[r]: who writes to the connection, holding tw.mu
  status,       \* status[r]: the status sent, or NoStatus
  body,         \* body[r]: whose text the answer contains
  recorded,     \* recorded[r]: the status MetricsMiddleware has seen, or NoStatus
  inFlight,     \* the gauge requestsInFlight
  crashed       \* what has ended the program: "no"(thing), "panic" or "headers"

answerVars == <<wroteHeader, writing, status, body>>
httpVars == <<outer, handler, ctx, timedOut, answerVars, recorded, inFlight, crashed>>

HttpInit ==
  /\ outer = [r \in Requests |-> "idle"]
  /\ handler = [r \in Requests |-> "none"]
  /\ ctx = [r \in Requests |-> "live"]
  /\ timedOut = {} /\ wroteHeader = {}
  /\ writing = [r \in Requests |-> "nobody"]
  /\ status = [r \in Requests |-> NoStatus]
  /\ body = [r \in Requests |-> {}]
  /\ recorded = [r \in Requests |-> NoStatus]
  /\ inFlight = 0
  /\ crashed = "no"

Serving(r, from, to) == outer[r] = from /\ outer' = [outer EXCEPT ![r] = to]
Handling(r, from, to) == handler[r] = from /\ handler' = [handler EXCEPT ![r] = to]
Unlocked(r) == writing[r] = "nobody"    \* tw.mu can be taken

-----------------------------------------------------------------------------
(* Requests and their contexts                                             *)

\* Without the password of basic auth, or cancelled before anything is done.
Refuse(r) ==
  /\ Serving(r, "idle", "returned")
  /\ \/ status' = [status EXCEPT ![r] = 401]
     \/ status' = [status EXCEPT ![r] = 408]
  /\ body' = [body EXCEPT ![r] = {"middleware"}]
  /\ UNCHANGED <<handler, ctx, timedOut, wroteHeader, writing, recorded, inFlight, crashed>>

Arrive(r) ==
  /\ Serving(r, "idle", "waiting")
  /\ handler' = [handler EXCEPT ![r] = "starting"]
  /\ UNCHANGED <<ctx, timedOut, answerVars, recorded, inFlight, crashed>>

CtxEnds(r, how) ==
  /\ outer[r] = "waiting" /\ ctx[r] = "live"
  /\ ctx' = [ctx EXCEPT ![r] = how]
  /\ UNCHANGED <<outer, handler, timedOut, answerVars, recorded, inFlight, crashed>>

-----------------------------------------------------------------------------
(* The goroutine of the handler: MetricsMiddleware, the handler and its    *)
(* writes through the timeoutWriter                                        *)

Enter(r) ==
  /\ Handling(r, "starting", "running")
  /\ inFlight' = inFlight + 1
  /\ UNCHANGED <<outer, ctx, timedOut, answerVars, recorded, crashed>>

\* Mutation: the header is passed on after the timeout.
WriteHeaderLate(r, code) ==
  /\ handler[r] = "running" /\ Unlocked(r)
  /\ recorded' = [recorded EXCEPT ![r] = code]
  /\ IF r \notin wroteHeader
     THEN /\ wroteHeader' = wroteHeader \cup {r}
          /\ status' = [status EXCEPT ![r] = code]
     ELSE UNCHANGED <<wroteHeader, status>>
  /\ UNCHANGED <<outer, handler, ctx, timedOut, writing, body, inFlight, crashed>>

\* The metrics see the status of the handler, whether it is sent or not.
WriteHeader(r, code) ==
  /\ handler[r] = "running" /\ Unlocked(r)
  /\ recorded' = [recorded EXCEPT ![r] = code]
  /\ IF r \notin timedOut \cup wroteHeader
     THEN /\ wroteHeader' = wroteHeader \cup {r}
          /\ status' = [status EXCEPT ![r] = code]
     ELSE UNCHANGED <<wroteHeader, status>>
  /\ UNCHANGED <<outer, handler, ctx, timedOut, writing, body, inFlight, crashed>>

\* The first write sends 200 if no header was sent. The connection may take
\* its time, and tw.mu is held meanwhile.
Write(r) ==
  /\ Handling(r, "running", IF r \in timedOut THEN "running" ELSE "writing")
  /\ Unlocked(r)
  /\ recorded' = [recorded EXCEPT ![r] = IF @ = NoStatus THEN 200 ELSE @]
  /\ IF r \in timedOut
     THEN UNCHANGED answerVars
     ELSE /\ wroteHeader' = wroteHeader \cup {r}
          /\ status' = [status EXCEPT ![r] = IF r \in wroteHeader THEN @ ELSE 200]
          /\ body' = [body EXCEPT ![r] = @ \cup {"handler"}]
          /\ writing' = [writing EXCEPT ![r] = "handler"]
  /\ UNCHANGED <<outer, ctx, timedOut, inFlight, crashed>>

Written(r) ==
  /\ Handling(r, "writing", "running")
  /\ writing' = [writing EXCEPT ![r] = "nobody"]
  /\ UNCHANGED <<outer, ctx, timedOut, wroteHeader, status, body, recorded, inFlight, crashed>>

HandlerReturns(r) ==
  /\ Handling(r, "running", "ended")
  /\ inFlight' = inFlight - 1
  /\ UNCHANGED <<outer, ctx, timedOut, answerVars, recorded, crashed>>

\* RecoveryMiddleware recovers in the goroutine that serves the request: a
\* panic in the handler's own goroutine is not caught.
HandlerPanics(r) ==
  /\ handler[r] = "running"
  /\ crashed' = "panic"
  /\ UNCHANGED <<outer, handler, ctx, timedOut, answerVars, recorded, inFlight>>

\* Header of the timeoutWriter is that of the ResponseWriter, without a lock:
\* the runtime ends the program when it sees the handler set a header while
\* the answer of the middleware copies the map.
HeadersRace(r) ==
  /\ handler[r] = "running" /\ outer[r] = "answering"
  /\ crashed' = "headers"
  /\ UNCHANGED <<outer, handler, ctx, timedOut, answerVars, recorded, inFlight>>

-----------------------------------------------------------------------------
(* The goroutine that serves the request, waiting in TimeoutMiddleware     *)

SeeHandled(r) ==
  /\ handler[r] = "ended"
  /\ Serving(r, "waiting", "returned")
  /\ UNCHANGED <<handler, ctx, timedOut, answerVars, recorded, inFlight, crashed>>

\* The context is done: markTimeout.
Mark(r) ==
  /\ ctx[r] # "live" /\ Unlocked(r)
  /\ Serving(r, "waiting", "marked")
  /\ timedOut' = timedOut \cup {r}
  /\ UNCHANGED <<handler, ctx, answerVars, recorded, inFlight, crashed>>

\* Mutation: the serving goroutine waits for the handler.
AnswerWhenHandled(r) ==
  /\ handler[r] = "ended"
  /\ Serving(r, "marked", "returned")
  /\ UNCHANGED <<handler, ctx, timedOut, answerVars, recorded, inFlight, crashed>>

Answer(r) ==
  /\ Unlocked(r)
  /\ \/ /\ r \in wroteHeader
        /\ Serving(r, "marked", "returned")
        /\ UNCHANGED <<writing, status, body>>
     \/ /\ r \notin wroteHeader
        /\ Serving(r, "marked", "answering")
        /\ writing' = [writing EXCEPT ![r] = "middleware"]
        /\ status' = [status EXCEPT ![r] = IF ctx[r] = "expired" THEN 504 ELSE 408]
        /\ body' = [body EXCEPT ![r] = @ \cup {"middleware"}]
  /\ UNCHANGED <<handler, ctx, timedOut, wroteHeader, recorded, inFlight, crashed>>

Answered(r) ==
  /\ Serving(r, "answering", "returned")
  /\ writing' = [writing EXCEPT ![r] = "nobody"]
  /\ UNCHANGED <<handler, ctx, timedOut, wroteHeader, status, body, recorded, inFlight, crashed>>

-----------------------------------------------------------------------------

Middleware(r) ==
  SeeHandled(r) \/ Mark(r) \/ Answer(r) \/ Answered(r)

\* What the handlers answer; 408 is also the middleware's.
Codes == {200, 404, 408, 500, 503}

\* Any handler: it may write or panic at any moment, and need not return.
HttpNext ==
  /\ crashed = "no"
  /\ \E r \in Requests :
       \/ Refuse(r) \/ Arrive(r) \/ Enter(r)
       \/ CtxEnds(r, "expired") \/ CtxEnds(r, "cancelled")
       \/ \E code \in Codes : WriteHeader(r, code)
       \/ Write(r) \/ Written(r) \/ HandlerReturns(r) \/ HandlerPanics(r)
       \/ HeadersRace(r) \/ Middleware(r)

\* The timer of the context fires, Go runs the goroutine that serves the
\* request, and a write to the connection ends, as the WriteTimeout of the
\* server sees to. Nothing is asked of the handler.
HttpFairness ==
  \A r \in Requests :
    /\ WF_httpVars(crashed = "no" /\ CtxEnds(r, "expired"))
    /\ WF_httpVars(crashed = "no" /\ Written(r))
    /\ SF_httpVars(crashed = "no" /\ Middleware(r))

HttpSpec == HttpInit /\ [][HttpNext]_httpVars /\ HttpFairness

-----------------------------------------------------------------------------
(* Properties                                                              *)

HttpTypeOK ==
  /\ outer \in [Requests -> {"idle", "waiting", "marked", "answering", "returned"}]
  /\ handler \in [Requests -> {"none", "starting", "running", "writing", "ended"}]
  /\ ctx \in [Requests -> {"live", "expired", "cancelled"}]
  /\ timedOut \in SUBSET Requests /\ wroteHeader \in SUBSET Requests
  /\ writing \in [Requests -> {"nobody", "handler", "middleware"}]
  /\ status \in [Requests -> Nat \cup {NoStatus}]
  /\ body \in [Requests -> SUBSET {"handler", "middleware"}]
  /\ recorded \in [Requests -> Nat \cup {NoStatus}]
  /\ inFlight \in Nat
  /\ crashed \in {"no", "panic", "headers"}

\* An answer is the handler's or the middleware's, status and text, however a
\* timeout and the writes of the handler interleave; a handler that has begun
\* an answer is not interrupted in the middle of a write. When the serving
\* goroutine has returned and the connection goes back to the server, nobody
\* writes to it. The gauge counts the handlers that run, those nobody waits for
\* included. The state is well formed.
OneAnswer ==
  /\ HttpTypeOK
  /\ inFlight = Cardinality({r \in Requests : handler[r] \in {"running", "writing"}})
  /\ \A r \in Requests :
       /\ Cardinality(body[r]) <= 1
       /\ outer[r] = "returned" => Unlocked(r)
       /\ status[r] \in {401, 504} => body[r] = {"middleware"}
       /\ body[r] = {"middleware"} => status[r] \in {401, 408, 504}
       /\ r \in wroteHeader => status[r] \in Codes /\ "middleware" \notin body[r]

\* Every request that has arrived is answered, even if its handler hangs.
RequestsReturn ==
  \A r \in Requests : outer[r] = "waiting" ~> (outer[r] = "returned" \/ crashed # "no")

\* "RecoveryMiddleware recovers from panics and logs them" (middleware.go:198).
PanicsAreRecovered == crashed # "panic"
=============================================================================
