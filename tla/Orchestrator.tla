----------------------------- MODULE Orchestrator -----------------------------
(***************************************************************************)
(* The timers of the CollectionOrchestrator of                             *)
(* internal/collector/concurrent.go. Start gives every enabled collector   *)
(* with an interval a timer and a goroutine, which collects when the timer *)
(* fires, without a slot of the semaphore, and resets it. Stop sets a flag *)
(* under co.mu, cancels the context and stops the timers that co.timers    *)
(* holds; SetCollectorInterval stops the timer of its collector. Each of   *)
(* the three may run at any moment of the goroutines, and Start a second   *)
(* time, before or after Stop. CollectNow is in ConcurrentCollector.       *)
(***************************************************************************)
EXTENDS Naturals

CONSTANTS
  Timed,        \* the collectors that are registered
  MaxStarts,    \* calls of Start: a bound
  NoStart

Starts == 1..MaxStarts
Tickers == Timed \X Starts

ASSUME OrchestratorAssumption ==
  /\ MaxStarts \in Nat
  /\ NoStart \notin Starts
  /\ {"idle", "looping"} \cap Timed = {}

VARIABLES
  stopped,    \* co.stopped, protected by co.mu
  cancelled,  \* co.cancel has been called
  interval,   \* collectors that have an interval
  timers,     \* timers[c]: the start whose timer the map holds, or NoStart
  starter,    \* "idle", or where the loop of Start is
  starts,     \* number of calls of Start
  unstarted,  \* collectors that the loop of Start has not visited
  stopper,    \* where Stop is
  ticker,     \* ticker[<<c, n>>]: where the goroutine of the timer is
  armed,      \* timers that will fire
  muted       \* timers stopped by SetCollectorInterval or Stop: history

startVars == <<starter, starts, unstarted>>
stopVars == <<stopped, cancelled, stopper>>
timerVars == <<interval, timers, ticker, armed, muted>>
orchestratorVars == <<startVars, stopVars, timerVars>>

OrchestratorInit ==
  /\ stopped = FALSE /\ cancelled = FALSE
  /\ interval \in SUBSET Timed
  /\ timers = [c \in Timed |-> NoStart]
  /\ starter = "idle" /\ starts = 0 /\ unstarted = {}
  /\ stopper = "idle"
  /\ ticker = [t \in Tickers |-> "none"]
  /\ armed = {} /\ muted = {}

Held == {t \in Tickers : timers[t[1]] = t[2]}    \* the timers in co.timers

-----------------------------------------------------------------------------
(* Start and startCollectorTimer                                           *)

StartCall ==
  /\ starter = "idle" /\ starts < MaxStarts
  /\ starts' = starts + 1
  /\ stopped' = FALSE
  /\ starter' = "looping"
  /\ unstarted' = Timed
  /\ UNCHANGED <<cancelled, stopper, timerVars>>

\* The interval is read under co.mu; IsEnabled may answer either.
ReadInterval(c) ==
  /\ starter = "looping" /\ c \in unstarted
  /\ unstarted' = unstarted \ {c}
  /\ \/ c \in interval /\ starter' = c
     \/ UNCHANGED starter
  /\ UNCHANGED <<starts, stopVars, timerVars>>

\* The new timer is stored under co.mu, and its goroutine started.
StartTimer(c) ==
  /\ starter = c
  /\ starter' = "looping"
  /\ timers' = [timers EXCEPT ![c] = starts]
  /\ ticker' = [ticker EXCEPT ![<<c, starts>>] = "waiting"]
  /\ armed' = armed \cup {<<c, starts>>}
  /\ UNCHANGED <<starts, unstarted, stopVars, interval, muted>>

StartReturn ==
  /\ starter = "looping" /\ unstarted = {}
  /\ starter' = "idle"
  /\ UNCHANGED <<starts, unstarted, stopVars, timerVars>>

-----------------------------------------------------------------------------
(* The goroutine of a timer                                                *)

TickerAt(t, place) == ticker[t] = place
TickerMoves(t, place) == ticker' = [ticker EXCEPT ![t] = place]
TickerLeaves == <<startVars, stopVars, interval, timers, muted>>

Fire(t) ==
  /\ TickerAt(t, "waiting") /\ t \in armed
  /\ armed' = armed \ {t}
  /\ TickerMoves(t, "fired")
  /\ UNCHANGED TickerLeaves

SeeDone(t) ==
  /\ TickerAt(t, "waiting") /\ cancelled
  /\ armed' = armed \ {t}
  /\ TickerMoves(t, "ended")
  /\ UNCHANGED TickerLeaves

CheckStopped(t) ==
  /\ TickerAt(t, "fired")
  /\ TickerMoves(t, IF stopped THEN "ended" ELSE "cleared")
  /\ UNCHANGED <<TickerLeaves, armed>>

\* co.mu is released before Collect is called: Stop may come in between.
BeginCollect(t) ==
  /\ TickerAt(t, "cleared")
  /\ TickerMoves(t, "collecting")
  /\ UNCHANGED <<TickerLeaves, armed>>

\* Collect returns and its metrics are drained; a run cut off by the context
\* returns too.
TimedCollect(t) ==
  /\ TickerAt(t, "collecting")
  /\ TickerMoves(t, "collected")
  /\ UNCHANGED <<TickerLeaves, armed>>

Recheck(t) ==
  /\ TickerAt(t, "collected")
  /\ TickerMoves(t, IF stopped THEN "ended" ELSE "rearming")
  /\ UNCHANGED <<TickerLeaves, armed>>

\* Mutation: the timer is not reset.
ResetNot(t) ==
  /\ TickerAt(t, "rearming")
  /\ TickerMoves(t, "waiting")
  /\ UNCHANGED <<TickerLeaves, armed>>

\* timer.Reset with the interval that the goroutine was started with: the
\* timer runs even if it has been stopped meanwhile.
Reset(t) ==
  /\ TickerAt(t, "rearming")
  /\ armed' = armed \cup {t}
  /\ TickerMoves(t, "waiting")
  /\ UNCHANGED TickerLeaves

Tick(t) ==
  \/ Fire(t) \/ SeeDone(t) \/ CheckStopped(t) \/ BeginCollect(t)
  \/ TimedCollect(t) \/ Recheck(t) \/ Reset(t)

-----------------------------------------------------------------------------
(* Stop and SetCollectorInterval                                           *)

\* Mutation: the context is not cancelled.
CancelNot ==
  /\ stopper = "flagged"
  /\ stopper' = "cancelled"
  /\ UNCHANGED <<startVars, stopped, cancelled, timerVars>>

\* timer.Stop: no value of a stopped timer is received.
StopTimers(stoppedNow) ==
  /\ armed' = armed \ stoppedNow
  /\ muted' = muted \cup stoppedNow

SetStopped ==
  /\ stopper = "idle"
  /\ stopper' = "flagged"
  /\ stopped' = TRUE
  /\ UNCHANGED <<startVars, cancelled, timerVars>>

Cancel ==
  /\ stopper = "flagged"
  /\ stopper' = "cancelled"
  /\ cancelled' = TRUE
  /\ UNCHANGED <<startVars, stopped, timerVars>>

ClearTimers ==
  /\ stopper = "cancelled"
  /\ stopper' = "done"
  /\ StopTimers(Held)
  /\ timers' = [c \in Timed |-> NoStart]
  /\ UNCHANGED <<startVars, stopped, cancelled, interval, ticker>>

SetCollectorInterval(c) ==
  /\ interval' = interval \cup {c}
  /\ StopTimers({t \in Held : t[1] = c})
  /\ timers' = [timers EXCEPT ![c] = NoStart]
  /\ UNCHANGED <<startVars, stopVars, ticker>>

-----------------------------------------------------------------------------

OrchestratorThreads ==
  \/ \E c \in Timed : ReadInterval(c) \/ StartTimer(c)
  \/ StartReturn \/ Cancel \/ ClearTimers

OrchestratorNext ==
  \/ OrchestratorThreads
  \/ StartCall \/ SetStopped
  \/ \E c \in Timed : SetCollectorInterval(c)
  \/ \E t \in Tickers : Tick(t)

\* Go runs the goroutines of the timers and the thread that has called Stop
\* or Start. A select that could go on for ever with the timer sees the done
\* context in the end. Nobody has to call anything.
OrchestratorFairness ==
  /\ WF_orchestratorVars(OrchestratorThreads)
  /\ \A t \in Tickers : WF_orchestratorVars(Tick(t)) /\ SF_orchestratorVars(SeeDone(t))

OrchestratorSpec ==
  OrchestratorInit /\ [][OrchestratorNext]_orchestratorVars /\ OrchestratorFairness

-----------------------------------------------------------------------------
(* Properties                                                              *)

OrchestratorTypeOK ==
  /\ stopped \in BOOLEAN /\ cancelled \in BOOLEAN
  /\ interval \in SUBSET Timed
  /\ timers \in [Timed -> Starts \cup {NoStart}]
  /\ starter \in {"idle", "looping"} \cup Timed
  /\ starts \in 0..MaxStarts
  /\ unstarted \in SUBSET Timed
  /\ stopper \in {"idle", "flagged", "cancelled", "done"}
  /\ ticker \in [Tickers -> {"none", "waiting", "fired", "cleared", "collecting", "collected",
                             "rearming", "ended"}]
  /\ armed \in SUBSET Tickers /\ muted \in SUBSET Tickers

Alive(t) == ticker[t] \notin {"none", "ended"}

\* A goroutine that waits has a timer that will fire, unless the context is
\* cancelled or somebody has stopped that timer while it waited; and a timer
\* runs only for a goroutine that waits for it. The state is well formed.
TimersAlive ==
  /\ OrchestratorTypeOK
  /\ armed \subseteq {t \in Tickers : TickerAt(t, "waiting")}
  /\ \A t \in Tickers :
       TickerAt(t, "waiting") => t \in armed \/ t \in muted \/ cancelled

\* "prevents new collections after Stop()" (concurrent.go:243).
NoNewCollections ==
  [][\A t \in Tickers :
       stopped /\ ~TickerAt(t, "collecting") => ticker'[t] # "collecting"]_orchestratorVars

\* After Stop every goroutine of a timer ends, also one whose timer Start did
\* not know any more, one that resets its timer after Stop has stopped it, and
\* one that a later Start begins.
StopEndsTimers ==
  (stopper = "done") ~> [](starter = "idle" => \A t \in Tickers : ~Alive(t))
=============================================================================
