------------------------------ MODULE Scheduler ------------------------------
(***************************************************************************)
(* The collection scheduler of internal/collector/scheduler.go. Each        *)
(* schedule owns a timer whose function collects and then arms the next    *)
(* timer, so that a schedule is a chain of timers and runs; controllers    *)
(* update, enable and disable schedules while runs are in flight, and then *)
(* a schedule may have several chains, of which only the last armed timer  *)
(* is known to it. Start and Stop go through the schedules under s.mu, a   *)
(* run reads the stopped flag under s.mu while it holds schedule.mu, and   *)
(* the health check and GetScheduleStats take the locks the other way      *)
(* round. schedule.mu is only kept here where its holder may have to wait. *)
(***************************************************************************)
EXTENDS Naturals, RWMutex

CONSTANTS
  Schedules,    \* names of collectors with a schedule
  Chains,       \* chains of timers that a schedule may have: a bound
  Checkers,     \* monitorSchedules and callers of GetScheduleStats
  Caller,       \* the goroutine that calls Start and Stop
  None

ASSUME SchedulerAssumption == None \notin Schedules \cup Chains

VARIABLES
  mu,           \* s.mu
  stopped,      \* s.stopped, protected by mu
  caller,       \* where Start or Stop is
  todo,         \* schedules that the loop of Start or Stop has to visit
  picked,       \* the schedule that Start found enabled
  gathered,     \* the timers that Stop has taken from their schedules
  enabled,      \* schedule.enabled
  tracked,      \* schedule.timer, as the chain it belongs to
  chain,        \* chain[s][i]: "none", an armed timer or where its run is
  owner,        \* the chain whose run holds schedule.mu
  left          \* left[k]: schedules the checker has to visit, or None

callerVars == <<stopped, caller, todo, picked, gathered>>
scheduleVars == <<enabled, tracked, chain, owner>>
vars == <<mu, callerVars, scheduleVars, left>>

Init ==
  /\ mu = Unlocked
  /\ stopped = FALSE
  /\ caller = "new"
  /\ todo = {}
  /\ picked = None
  /\ gathered = {}
  /\ enabled \in [Schedules -> BOOLEAN]
  /\ tracked = [s \in Schedules |-> None]
  /\ chain = [s \in Schedules |-> [i \in Chains |-> "none"]]
  /\ owner = [s \in Schedules |-> None]
  /\ left = [k \in Checkers |-> None]

Free(s) == owner[s] = None

\* The chains of s after timer.Stop on its timer: a run is not stopped.
Cancelled(s) ==
  [i \in Chains |-> IF i = tracked[s] /\ chain[s][i] = "armed" THEN "none" ELSE chain[s][i]]

\* time.AfterFunc: a new chain for s, whose chains are now chains.
Arm(s, chains) ==
  \E i \in Chains :
    /\ chains[i] = "none"
    /\ <<s, i>> \notin gathered
    /\ chain' = [chain EXCEPT ![s] = [chains EXCEPT ![i] = "armed"]]
    /\ tracked' = [tracked EXCEPT ![s] = i]

-----------------------------------------------------------------------------
(* runScheduledCollection                                                  *)

At(s, i, place) == chain[s][i] = place
Moves(s, i, place) == chain' = [chain EXCEPT ![s][i] = place]

Fire(s, i) ==
  /\ At(s, i, "armed")
  /\ Moves(s, i, "fired")
  /\ UNCHANGED <<mu, callerVars, enabled, tracked, owner, left>>

\* Mutation: a run that has begun collects.
CheckEnabledNot(s, i) ==
  /\ At(s, i, "fired")
  /\ Free(s)
  /\ Moves(s, i, "collecting")
  /\ UNCHANGED <<mu, callerVars, enabled, tracked, owner, left>>

CheckEnabled(s, i) ==
  /\ At(s, i, "fired")
  /\ Free(s)
  /\ Moves(s, i, IF enabled[s] THEN "collecting" ELSE "none")
  /\ UNCHANGED <<mu, callerVars, enabled, tracked, owner, left>>

\* Mutation: a run whose collection failed returns.
CollectOrLeave(s, i) ==
  /\ At(s, i, "collecting")
  /\ \E place \in {"collected", "none"} : Moves(s, i, place)
  /\ UNCHANGED <<mu, callerVars, enabled, tracked, owner, left>>

\* CollectNow, with a result or an error.
Collect(s, i) ==
  /\ At(s, i, "collecting")
  /\ Moves(s, i, "collected")
  /\ UNCHANGED <<mu, callerVars, enabled, tracked, owner, left>>

\* Mutation: the statistics of the run are updated without schedule.mu.
LockScheduleNot(s, i) ==
  /\ At(s, i, "collected")
  /\ Free(s)
  /\ Moves(s, i, "locked")
  /\ UNCHANGED <<mu, callerVars, enabled, tracked, owner, left>>

LockSchedule(s, i) ==
  /\ At(s, i, "collected")
  /\ Free(s)
  /\ owner' = [owner EXCEPT ![s] = i]
  /\ Moves(s, i, "locked")
  /\ UNCHANGED <<mu, callerVars, enabled, tracked, left>>

ReadStopped(s, i) ==
  /\ At(s, i, "locked")
  /\ MayRLock(mu)
  /\ Moves(s, i, IF stopped THEN "ending" ELSE "rearming")
  /\ UNCHANGED <<mu, callerVars, enabled, tracked, owner, left>>

Rearm(s, i) ==
  /\ At(s, i, "rearming")
  /\ Moves(s, i, "armed")
  /\ tracked' = [tracked EXCEPT ![s] = i]
  /\ owner' = [owner EXCEPT ![s] = None]
  /\ UNCHANGED <<mu, callerVars, enabled, left>>

End(s, i) ==
  /\ At(s, i, "ending")
  /\ Moves(s, i, "none")
  /\ owner' = [owner EXCEPT ![s] = None]
  /\ UNCHANGED <<mu, callerVars, enabled, tracked, left>>

Run(s, i) ==
  \/ CheckEnabled(s, i) \/ Collect(s, i)
  \/ LockSchedule(s, i) \/ ReadStopped(s, i) \/ Rearm(s, i) \/ End(s, i)

-----------------------------------------------------------------------------
(* UpdateSchedule, EnableSchedule and DisableSchedule. What they read      *)
(* under s.mu, the map of schedules, never changes; all that they do under *)
(* schedule.mu, SetCollectorInterval included, waits for nothing.          *)

UpdateSchedule(s) ==
  /\ Free(s)
  /\ IF enabled[s]
     THEN Arm(s, Cancelled(s))
     ELSE chain' = [chain EXCEPT ![s] = Cancelled(s)] /\ UNCHANGED tracked
  /\ UNCHANGED <<mu, callerVars, enabled, owner, left>>

\* Mutation: a schedule that still has a timer gets no other.
EnableScheduleIfNoTimer(s) ==
  /\ Free(s)
  /\ ~enabled[s]
  /\ enabled' = [enabled EXCEPT ![s] = TRUE]
  /\ IF tracked[s] # None THEN UNCHANGED <<chain, tracked>> ELSE Arm(s, chain[s])
  /\ UNCHANGED <<mu, callerVars, owner, left>>

EnableSchedule(s) ==
  /\ Free(s)
  /\ ~enabled[s]
  /\ enabled' = [enabled EXCEPT ![s] = TRUE]
  /\ Arm(s, chain[s])
  /\ UNCHANGED <<mu, callerVars, owner, left>>

DisableSchedule(s) ==
  /\ Free(s)
  /\ enabled[s]
  /\ enabled' = [enabled EXCEPT ![s] = FALSE]
  /\ chain' = [chain EXCEPT ![s] = Cancelled(s)]
  /\ tracked' = [tracked EXCEPT ![s] = None]
  /\ UNCHANGED <<mu, callerVars, owner, left>>

Control(s) == UpdateSchedule(s) \/ EnableSchedule(s) \/ DisableSchedule(s)

-----------------------------------------------------------------------------
(* checkScheduleHealth and GetScheduleStats                                *)

BeginCheck(k) ==
  /\ left[k] = None
  /\ MayRLock(mu)
  /\ mu' = RLocked(mu)
  /\ left' = [left EXCEPT ![k] = Schedules]
  /\ UNCHANGED <<callerVars, scheduleVars>>

Check(k) ==
  /\ left[k] # None
  /\ \E s \in left[k] :
       /\ Free(s)
       /\ left' = [left EXCEPT ![k] = @ \ {s}]
  /\ UNCHANGED <<mu, callerVars, scheduleVars>>

EndCheck(k) ==
  /\ left[k] = {}
  /\ mu' = RUnlocked(mu)
  /\ left' = [left EXCEPT ![k] = None]
  /\ UNCHANGED <<callerVars, scheduleVars>>

-----------------------------------------------------------------------------
(* Start and Stop, each called once                                        *)

LockMu(from, to) ==
  /\ caller = from
  /\ MayAnnounce(mu)
  /\ mu' = Announced(mu, Caller)
  /\ caller' = to
  /\ UNCHANGED <<stopped, todo, picked, gathered, scheduleVars, left>>

SetStopped(from, to, value) ==
  /\ caller = from
  /\ HoldsLock(mu, Caller)
  /\ mu' = WriteUnlocked(mu)
  /\ stopped' = value
  /\ caller' = to
  /\ UNCHANGED <<todo, picked, gathered, scheduleVars, left>>

RLockMu(from, to) ==
  /\ caller = from
  /\ MayRLock(mu)
  /\ mu' = RLocked(mu)
  /\ caller' = to
  /\ todo' = Schedules
  /\ UNCHANGED <<stopped, picked, gathered, scheduleVars, left>>

RUnlockMu(from, to) ==
  /\ caller = from
  /\ todo = {}
  /\ picked = None
  /\ mu' = RUnlocked(mu)
  /\ caller' = to
  /\ UNCHANGED <<stopped, todo, picked, gathered, scheduleVars, left>>

\* Start reads schedule.enabled without schedule.mu.
Pick ==
  /\ caller = "arming"
  /\ picked = None
  /\ \E s \in todo :
       /\ todo' = todo \ {s}
       /\ picked' = IF enabled[s] THEN s ELSE None
  /\ UNCHANGED <<mu, stopped, caller, gathered, scheduleVars, left>>

\* startSchedule
StartSchedule ==
  /\ picked # None
  /\ Free(picked)
  /\ Arm(picked, chain[picked])
  /\ picked' = None
  /\ UNCHANGED <<mu, stopped, caller, todo, gathered, enabled, owner, left>>

Gather ==
  /\ caller = "gathering"
  /\ \E s \in todo :
       /\ Free(s)
       /\ todo' = todo \ {s}
       /\ gathered' = gathered \cup ({<<s, tracked[s]>>} \ {<<s, None>>})
       /\ tracked' = [tracked EXCEPT ![s] = None]
  /\ UNCHANGED <<mu, stopped, caller, picked, enabled, chain, owner, left>>

StopTimer ==
  /\ caller = "stopTimers"
  /\ \E g \in gathered :
       /\ gathered' = gathered \ {g}
       /\ IF At(g[1], g[2], "armed") THEN Moves(g[1], g[2], "none") ELSE UNCHANGED chain
  /\ UNCHANGED <<mu, stopped, caller, todo, picked, enabled, tracked, owner, left>>

StopReturn ==
  /\ caller = "stopTimers"
  /\ gathered = {}
  /\ caller' = "done"
  /\ UNCHANGED <<mu, stopped, todo, picked, gathered, scheduleVars, left>>

StartCall == LockMu("new", "startLock")
StopCall == LockMu("up", "stopLock")

Start ==
  \/ SetStopped("startLock", "startRead", FALSE)
  \/ RLockMu("startRead", "arming")
  \/ Pick \/ StartSchedule
  \/ RUnlockMu("arming", "up")

Stop ==
  \/ SetStopped("stopLock", "stopRead", TRUE)
  \/ RLockMu("stopRead", "gathering")
  \/ Gather
  \/ RUnlockMu("gathering", "stopTimers")
  \/ StopTimer \/ StopReturn

Next ==
  \/ \E s \in Schedules : Control(s) \/ \E i \in Chains : Fire(s, i) \/ Run(s, i)
  \/ \E k \in Checkers : BeginCheck(k) \/ Check(k) \/ EndCheck(k)
  \/ StartCall \/ Start \/ StopCall \/ Stop

\* A timer that stays armed fires; a collection ends, for CollectNow has a
\* deadline; and who waits for a lock gets it in the end, for Go's locks starve
\* nobody. Nobody has to control, to begin a check, to start or to stop.
Fairness ==
  /\ \A s \in Schedules, i \in Chains : WF_vars(Fire(s, i)) /\ SF_vars(Run(s, i))
  /\ \A k \in Checkers : SF_vars(Check(k)) /\ WF_vars(EndCheck(k))
  /\ SF_vars(Start) /\ SF_vars(Stop)

Spec == Init /\ [][Next]_vars /\ Fairness

-----------------------------------------------------------------------------
Places ==
  {"none", "armed", "fired", "collecting", "collected", "locked", "rearming", "ending"}

TypeOK ==
  /\ enabled \in [Schedules -> BOOLEAN]
  /\ tracked \in [Schedules -> Chains \cup {None}]
  /\ chain \in [Schedules -> [Chains -> Places]]
  /\ owner \in [Schedules -> Chains \cup {None}]
  /\ todo \subseteq Schedules
  /\ picked \in Schedules \cup {None}
  /\ gathered \subseteq Schedules \X Chains
  /\ picked # None => caller = "arming"

InFlight(s, i) == chain[s][i] \in {"collecting", "collected", "locked", "rearming"}

\* However updates, enables and disables fall into a run, an enabled schedule
\* of a started scheduler has a timer or a run that will arm one.
ScheduleAlive ==
  caller = "up" =>
    \A s \in Schedules :
      enabled[s] => \E i \in Chains : chain[s][i] \in {"armed", "fired"} \/ InFlight(s, i)

\* "prevent new timers from being scheduled": once Stop has taken the timers,
\* no run that it did not wait for arms another.
NoRearmAfterStop ==
  caller \in {"stopTimers", "done"} =>
    \A s \in Schedules, i \in Chains : chain[s][i] # "rearming"

\* A schedule that stays disabled is not collected for ever: the chains that
\* its timer field has lost sight of end as well.
DisabledStops ==
  \A s \in Schedules :
    <>[](~enabled[s]) => <>[](\A i \in Chains : chain[s][i] # "collecting")

\* A schedule that stays enabled and is no longer updated is collected again
\* and again until Stop; each update starts its interval anew.
KeepsCollecting ==
  \A s \in Schedules :
    <>[](caller = "up" /\ enabled[s]) /\ <>[][~UpdateSchedule(s)]_vars
      => []<>(\E i \in Chains : chain[s][i] = "collecting")

\* scheduler.go:235 "This avoids the deadlock with runScheduledCollection":
\* Stop returns.
StopReturns == caller = "stopLock" ~> caller = "done"
=============================================================================
