------------------------------ MODULE Lifecycle ------------------------------
(***************************************************************************)
(* The end of the exporter: main waits for a signal or a server error and  *)
(* runs the ShutdownManager (cmd/slurm-exporter/main.go and shutdown.go),  *)
(* whose hooks share one deadline and run in goroutines that main stops    *)
(* waiting for when it has passed, while the HTTP server of                *)
(* internal/server/server.go still answers requests.                       *)
(***************************************************************************)
EXTENDS Naturals, Sequences

CONSTANTS
  Hooks,        \* names of shutdown hooks
  HookOrder,    \* hookOrder: the hooks in the order main registered them
  ServerHook,   \* the hook that calls Server.Shutdown
  Requests,     \* HTTP requests
  Signals,      \* signals of signal.Notify: SIGINT, SIGTERM, SIGQUIT, SIGHUP
  SIGHUP

ASSUME LifecycleAssumption ==
  /\ HookOrder \in Seq(Hooks)
  /\ Hooks = {HookOrder[i] : i \in 1 .. Len(HookOrder)}
  /\ \A i, j \in 1 .. Len(HookOrder) : HookOrder[i] = HookOrder[j] => i = j
  /\ ServerHook \in Hooks
  /\ SIGHUP \in Signals

VARIABLES
  main,       \* "select", "next" (between hooks), "wait" (in one), or how it ended
  sigChan,    \* the signal in the channel, which has room for one
  errChan,    \* the error of srv.Start waits in the channel
  exitCode,
  position,   \* main's position in hookOrder, from its end to 0
  hook,       \* hook[h]: "idle", "running", "ok", "failed": its goroutine
  failures,   \* hooks that Shutdown reports
  expired,    \* the shutdown context is done
  server,     \* "starting", "listening", "failed", "closed"
  inFlight,   \* requests being answered
  answered,   \* history: requests answered
  received    \* history: signals that arrived while main selected

mainVars == <<main, exitCode, position, failures>>
lifecycleVars ==
  <<mainVars, sigChan, errChan, hook, expired, server, inFlight, answered, received>>

LifecycleInit ==
  /\ main = "select"
  /\ sigChan = {}
  /\ errChan = FALSE
  /\ exitCode = 0
  /\ position = Len(HookOrder)
  /\ hook = [h \in Hooks |-> "idle"]
  /\ failures = {}
  /\ expired = FALSE
  /\ server = "starting"
  /\ inFlight = {}
  /\ answered = {}
  /\ received = {}

Alive == main \in {"select", "next", "wait"}
ShuttingDown == main \in {"next", "wait"}
Current == HookOrder[position]

-----------------------------------------------------------------------------
(* The server                                                              *)

Listen ==
  /\ Alive
  /\ server = "starting"
  /\ server' = "listening"
  /\ UNCHANGED <<mainVars, sigChan, errChan, hook, expired, inFlight, answered, received>>

\* ListenAndServe cannot listen, or stops accepting.
Fail ==
  /\ Alive
  /\ server \in {"starting", "listening"}
  /\ server' = "failed"
  /\ errChan' = TRUE
  /\ UNCHANGED <<mainVars, sigChan, hook, expired, inFlight, answered, received>>

Arrive(r) ==
  /\ Alive
  /\ server = "listening"
  /\ r \notin inFlight \cup answered
  /\ inFlight' = inFlight \cup {r}
  /\ UNCHANGED <<mainVars, sigChan, errChan, hook, expired, server, answered, received>>

Answer(r) ==
  /\ Alive
  /\ r \in inFlight
  /\ inFlight' = inFlight \ {r}
  /\ answered' = answered \cup {r}
  /\ UNCHANGED <<mainVars, sigChan, errChan, hook, expired, server, received>>

-----------------------------------------------------------------------------
(* main                                                                    *)

\* Until Shutdown calls signal.Stop, a signal waits in the channel if there
\* is room; after that it has its default effect and kills the process.
Signal(s) ==
  \/ /\ main = "select"
     /\ sigChan' = IF sigChan = {} THEN {s} ELSE sigChan
     /\ received' = received \cup {s}
     /\ UNCHANGED <<mainVars, errChan, hook, expired, server, inFlight, answered>>
  \/ /\ ShuttingDown
     /\ main' = "killed"
     /\ UNCHANGED <<exitCode, position, failures, sigChan, errChan, hook, expired, server,
                    inFlight, answered, received>>

\* The select of main, and the beginning of Shutdown.
Select ==
  /\ main = "select"
  /\ \/ sigChan # {} /\ sigChan' = {} /\ exitCode' = 0 /\ UNCHANGED errChan
     \/ errChan /\ errChan' = FALSE /\ exitCode' = 1 /\ UNCHANGED sigChan
  /\ main' = "next"
  /\ UNCHANGED <<position, failures, hook, expired, server, inFlight, answered, received>>

StartHook ==
  /\ main = "next"
  /\ position > 0
  /\ hook' = [hook EXCEPT ![Current] = "running"]
  /\ main' = "wait"
  /\ UNCHANGED <<exitCode, position, failures, sigChan, errChan, expired, server,
                 inFlight, answered, received>>

\* Server.Shutdown closes the listeners and waits for the requests or for
\* the context.
CloseServer ==
  /\ Alive
  /\ hook[ServerHook] = "running"
  /\ server # "closed"
  /\ server' = "closed"
  /\ UNCHANGED <<mainVars, sigChan, errChan, hook, expired, inFlight, answered, received>>

\* Mutation: the server is closed without waiting for its requests.
ServerHookReturnsAtOnce ==
  /\ Alive
  /\ hook[ServerHook] = "running"
  /\ server = "closed"
  /\ hook' = [hook EXCEPT ![ServerHook] = "ok"]
  /\ UNCHANGED <<mainVars, sigChan, errChan, expired, server, inFlight, answered, received>>

ServerHookReturns ==
  /\ Alive
  /\ hook[ServerHook] = "running"
  /\ server = "closed"
  /\ \/ inFlight = {} /\ hook' = [hook EXCEPT ![ServerHook] = "ok"]
     \/ expired /\ hook' = [hook EXCEPT ![ServerHook] = "failed"]
  /\ UNCHANGED <<mainVars, sigChan, errChan, expired, server, inFlight, answered, received>>

\* Any other hook returns nil, returns an error or panics, if it returns.
OtherHookReturns ==
  /\ Alive
  /\ \E h \in Hooks \ {ServerHook} :
       /\ hook[h] = "running"
       /\ \E result \in {"ok", "failed"} : hook' = [hook EXCEPT ![h] = result]
  /\ UNCHANGED <<mainVars, sigChan, errChan, expired, server, inFlight, answered, received>>

\* main goes on to the hook registered before this one.
Proceed(errors) ==
  /\ main' = "next"
  /\ position' = position - 1
  /\ failures' = failures \cup errors
  /\ UNCHANGED <<exitCode, sigChan, errChan, hook, expired, server, inFlight, answered, received>>

Done ==
  /\ main = "wait"
  /\ hook[Current] \in {"ok", "failed"}
  /\ Proceed(IF hook[Current] = "failed" THEN {Current} ELSE {})

\* Mutation: the deadline is passed to the hook, but main waits for the hook.
TimedOutPolitely ==
  /\ main = "wait"
  /\ expired
  /\ hook[Current] # "running"
  /\ Proceed({Current})

TimedOut ==
  /\ main = "wait"
  /\ expired
  /\ Proceed({Current})

Deadline ==
  /\ ShuttingDown
  /\ ~expired
  /\ expired' = TRUE
  /\ UNCHANGED <<mainVars, sigChan, errChan, hook, server, inFlight, answered, received>>

Exit ==
  /\ main = "next"
  /\ position = 0
  /\ main' = "exited"
  /\ exitCode' = IF failures = {} THEN exitCode ELSE 1
  /\ UNCHANGED <<position, failures, sigChan, errChan, hook, expired, server, inFlight,
                 answered, received>>

Shutdown == StartHook \/ Done \/ TimedOut \/ Exit

LifecycleNext ==
  \/ Listen \/ Fail
  \/ \E r \in Requests : Arrive(r) \/ Answer(r)
  \/ \E s \in Signals : Signal(s)
  \/ Select \/ Shutdown
  \/ CloseServer \/ ServerHookReturns \/ OtherHookReturns
  \/ Deadline

\* main runs and the deadline passes. No request and no hook has to end.
LifecycleFairness ==
  WF_lifecycleVars(Select) /\ WF_lifecycleVars(Shutdown) /\ WF_lifecycleVars(Deadline)

LifecycleSpec == LifecycleInit /\ [][LifecycleNext]_lifecycleVars /\ LifecycleFairness

-----------------------------------------------------------------------------
LifecycleTypeOK ==
  /\ main \in {"select", "next", "wait", "exited", "killed"}
  /\ sigChan \subseteq Signals
  /\ errChan \in BOOLEAN
  /\ exitCode \in {0, 1}
  /\ position \in 0 .. Len(HookOrder)
  /\ main = "wait" => position > 0
  /\ hook \in [Hooks -> {"idle", "running", "ok", "failed"}]
  /\ failures \subseteq Hooks
  /\ expired \in BOOLEAN
  /\ server \in {"starting", "listening", "failed", "closed"}
  /\ inFlight \subseteq Requests
  /\ answered \subseteq Requests

\* Exit code 0 is a promise to whoever restarts the exporter: every hook ran
\* to its end, no request was cut off and the server is closed, however the
\* deadline fell between the hooks. The state is well formed.
ZeroMeansClean ==
  /\ LifecycleTypeOK
  /\ main = "exited" /\ exitCode = 0 =>
       /\ \A h \in Hooks : hook[h] = "ok"
       /\ inFlight = {} /\ server = "closed"

\* Once a signal or a server error has arrived the process ends, even when
\* requests hang, hooks hang and nothing but the deadline helps.
Terminates == sigChan # {} \/ errChan ~> main \in {"exited", "killed"}

\* docs/configuration.md:1506 "Send SIGHUP to reload configuration": the
\* exporter does not begin to end because of SIGHUP alone.
HangupReloads == received \subseteq {SIGHUP} /\ exitCode = 0 => ~ShuttingDown
=============================================================================
