--------------------------- MODULE SchedulerProofs ---------------------------
(***************************************************************************)
(* Proofs about Scheduler, for any number of schedules, chains and health  *)
(* checks. The invariant says who holds schedule.mu, what the caller of    *)
(* Start and Stop has already settled, and which chain keeps an enabled    *)
(* schedule going. It does not speak of s.mu: none of it depends on the    *)
(* exclusion that s.mu gives.                                              *)
(***************************************************************************)
EXTENDS Scheduler, TLAPS

\* The run of at most one chain of a schedule is inside schedule.mu.
Ownership ==
  \A s \in Schedules, i \in Chains :
    chain[s][i] \in {"locked", "rearming", "ending"} => owner[s] = i

BeforeStop == caller \in {"new", "startLock", "startRead", "arming", "up", "stopLock"}

Flag == IF BeforeStop THEN stopped = FALSE ELSE stopped = TRUE

NoEnding ==
  BeforeStop => \A s \in Schedules, i \in Chains : chain[s][i] # "ending"

Settled ==
  /\ caller = "gathering" =>
       \A s \in Schedules \ todo, i \in Chains : chain[s][i] # "rearming"
  /\ NoRearmAfterStop

Alive(s) == \E i \in Chains : chain[s][i] \in {"armed", "fired"} \/ InFlight(s, i)

\* Start still has to visit the schedules without a chain.
Living ==
  /\ caller = "arming" =>
       \A s \in Schedules : enabled[s] => s \in todo \/ picked = s \/ Alive(s)
  /\ caller \in {"up", "stopLock"} =>
       \A s \in Schedules : enabled[s] => Alive(s)

Inv == TypeOK /\ Ownership /\ Flag /\ NoEnding /\ Settled /\ Living

LEMMA InitInv == Init => Inv
<1> SUFFICES ASSUME Init PROVE Inv
  OBVIOUS
<1>1. TypeOK
  BY DEF Init, TypeOK, Places
<1>2. caller = "new" /\ \A s \in Schedules, i \in Chains : chain[s][i] = "none"
  BY DEF Init
<1> QED BY <1>1, <1>2 DEF Init, Inv, Ownership, Flag, BeforeStop, NoEnding, Settled, NoRearmAfterStop, Living

\* A run moves one chain; what else it does is to take or to give back
\* schedule.mu and to be tracked.
LEMMA RunInv ==
  ASSUME NEW s \in Schedules, NEW i \in Chains, Inv, Fire(s, i) \/ Run(s, i)
  PROVE  Inv'
<1>0. /\ UNCHANGED <<mu, stopped, caller, todo, picked, gathered, enabled, left>>
      /\ TypeOK
  BY DEF Inv, Fire, Run, CheckEnabled, Collect, LockSchedule, ReadStopped, Rearm, End, callerVars
<1>1. PICK place \in Places :
        /\ chain' = [chain EXCEPT ![s][i] = place]
        /\ place = "rearming" => stopped = FALSE
        /\ place = "ending" => stopped = TRUE
        /\ place = "none" => enabled[s] = FALSE \/ chain[s][i] = "ending"
        /\ place \in {"locked", "rearming", "ending"} => owner'[s] = i
  <2>1. CASE Fire(s, i)
    BY <2>1 DEF Fire, Moves, Places
  <2>2. CASE CheckEnabled(s, i)
    BY <2>2, <1>0 DEF CheckEnabled, Moves, Places, TypeOK
  <2>3. CASE Collect(s, i)
    BY <2>3 DEF Collect, Moves, Places
  <2>4. CASE LockSchedule(s, i)
    BY <2>4, <1>0 DEF LockSchedule, Moves, Places, TypeOK
  <2>5. CASE ReadStopped(s, i)
    <3>1. stopped \in BOOLEAN /\ owner[s] = i
      BY <2>5 DEF ReadStopped, Inv, Flag, Ownership, At
    <3> QED BY <2>5, <3>1 DEF ReadStopped, Moves, Places
  <2>6. CASE Rearm(s, i)
    BY <2>6 DEF Rearm, Moves, Places
  <2>7. CASE End(s, i)
    BY <2>7 DEF End, Moves, At, Places
  <2> QED BY <2>1, <2>2, <2>3, <2>4, <2>5, <2>6, <2>7 DEF Run
<1>2. /\ owner' \in [Schedules -> Chains \cup {None}]
      /\ tracked' \in [Schedules -> Chains \cup {None}]
      /\ \A r \in Schedules \ {s} : owner'[r] = owner[r]
      /\ \A j \in Chains \ {i} : owner[s] = j => owner'[s] = j
  <2>1. chain[s][i] \in {"rearming", "ending"} => owner[s] = i
    BY DEF Inv, Ownership
  <2>2. CASE LockSchedule(s, i)
    BY <2>2, <1>0, SchedulerAssumption DEF LockSchedule, Free, TypeOK
  <2>3. CASE Rearm(s, i)
    BY <2>3, <2>1, <1>0 DEF Rearm, At, TypeOK
  <2>4. CASE End(s, i)
    BY <2>4, <2>1, <1>0 DEF End, At, TypeOK
  <2>5. CASE Fire(s, i) \/ CheckEnabled(s, i) \/ Collect(s, i) \/ ReadStopped(s, i)
    BY <2>5, <1>0 DEF Fire, CheckEnabled, Collect, ReadStopped, TypeOK
  <2> QED BY <2>2, <2>3, <2>4, <2>5 DEF Run
<1>3. /\ chain'[s][i] = place
      /\ \A r \in Schedules, j \in Chains : r # s \/ j # i => chain'[r][j] = chain[r][j]
  BY <1>0, <1>1 DEF TypeOK
<1>4. TypeOK'
  <2>1. chain' \in [Schedules -> [Chains -> Places]]
    BY <1>0, <1>1 DEF TypeOK
  <2> QED BY <2>1, <1>0, <1>2 DEF TypeOK
<1>5. Ownership'
  <2> SUFFICES ASSUME NEW r \in Schedules, NEW j \in Chains,
                      chain'[r][j] \in {"locked", "rearming", "ending"}
               PROVE  owner'[r] = j
    BY DEF Ownership
  <2>1. CASE r = s /\ j = i
    BY <2>1, <1>1, <1>3
  <2>2. CASE r # s \/ j # i
    <3>1. owner[r] = j
      BY <2>2, <1>3 DEF Inv, Ownership
    <3> QED BY <2>2, <3>1, <1>2
  <2> QED BY <2>1, <2>2
<1>6. Flag' /\ (BeforeStop' <=> BeforeStop)
  BY <1>0 DEF Inv, Flag, BeforeStop
<1>7. NoEnding'
  BY <1>1, <1>3, <1>6 DEF Inv, Flag, NoEnding
<1>8. Settled'
  <2>1. caller \in {"gathering", "stopTimers", "done"} => place # "rearming"
    BY <1>1 DEF Inv, Flag, BeforeStop
  <2> QED BY <2>1, <1>0, <1>3 DEF Inv, Settled, NoRearmAfterStop
<1>9. Living'
  <2>1. ASSUME NEW r \in Schedules, BeforeStop, enabled[r], Alive(r)
        PROVE  Alive(r)'
    <3>1. PICK j \in Chains :
            chain[r][j] \in {"armed", "fired", "collecting", "collected", "locked", "rearming"}
      BY <2>1 DEF Alive, InFlight
    <3>2. CASE r # s \/ j # i
      BY <3>1, <3>2, <1>3 DEF Alive, InFlight
    <3>3. CASE r = s /\ j = i
      <4>1. place \notin {"none", "ending"}
        BY <2>1, <3>1, <3>3, <1>1 DEF Inv, Flag
      <4>2. chain'[r][j] \in {"armed", "fired", "collecting", "collected", "locked", "rearming"}
        BY <4>1, <3>3, <1>3, <1>1 DEF Places
      <4> QED BY <4>2 DEF Alive, InFlight
    <3> QED BY <3>2, <3>3
  <2> QED BY <2>1, <1>0 DEF Inv, Living, BeforeStop
<1> QED BY <1>4, <1>5, <1>6, <1>7, <1>8, <1>9 DEF Inv

\* A new chain for s: it keeps s alive and enters no run.
LEMMA ArmedChains ==
  ASSUME NEW s \in Schedules, NEW chains, TypeOK,
         chains = chain[s] \/ chains = Cancelled(s),
         Arm(s, chains)
  PROVE  /\ chain' \in [Schedules -> [Chains -> Places]]
         /\ tracked' \in [Schedules -> Chains \cup {None}]
         /\ Alive(s)'
         /\ \A r \in Schedules, j \in Chains :
              chain'[r][j] = chain[r][j] \/ chain'[r][j] \in {"armed", "none"}
         /\ \A r \in Schedules \ {s} : chain'[r] = chain[r]
<1>1. PICK i \in Chains :
        /\ chain' = [chain EXCEPT ![s] = [chains EXCEPT ![i] = "armed"]]
        /\ tracked' = [tracked EXCEPT ![s] = i]
  BY DEF Arm
<1>2. /\ chains \in [Chains -> Places]
      /\ \A j \in Chains : chains[j] = chain[s][j] \/ chains[j] = "none"
  BY DEF TypeOK, Cancelled, Places
<1>3. [chains EXCEPT ![i] = "armed"] \in [Chains -> Places]
  BY <1>2 DEF Places
<1>4. chain' \in [Schedules -> [Chains -> Places]]
  BY <1>1, <1>3 DEF TypeOK
<1>5. chain'[s][i] = "armed"
  BY <1>1, <1>2 DEF TypeOK
<1>6. Alive(s)'
  BY <1>5 DEF Alive
<1>7. \A r \in Schedules \ {s} : chain'[r] = chain[r]
  BY <1>1 DEF TypeOK
<1>8. \A j \in Chains : chain'[s][j] = chains[j] \/ chain'[s][j] = "armed"
  BY <1>1, <1>2 DEF TypeOK
<1>9. tracked' \in [Schedules -> Chains \cup {None}]
  BY <1>1 DEF TypeOK
<1> QED BY <1>2, <1>4, <1>6, <1>7, <1>8, <1>9

\* Whatever only cancels timers and arms new ones leaves the runs alone.
LEMMA RunsUntouched ==
  ASSUME Inv, UNCHANGED <<owner, stopped, caller>>, todo' \subseteq todo,
         caller = "gathering" => todo' = todo,
         \A r \in Schedules, j \in Chains :
           chain'[r][j] = chain[r][j] \/ chain'[r][j] \in {"armed", "none"}
  PROVE  Ownership' /\ Flag' /\ NoEnding' /\ Settled'
<1>1. Ownership'
  BY DEF Inv, Ownership
<1>2. Flag' /\ NoEnding'
  BY DEF Inv, Flag, NoEnding, BeforeStop
<1>3. Settled'
  BY DEF Inv, Settled, NoRearmAfterStop
<1> QED BY <1>1, <1>2, <1>3

LEMMA ControlInv ==
  ASSUME NEW s \in Schedules, Inv, Control(s)
  PROVE  Inv'
<1>0. TypeOK /\ UNCHANGED <<mu, stopped, caller, todo, picked, gathered, owner, left>>
  BY DEF Inv, Control, UpdateSchedule, EnableSchedule, DisableSchedule, callerVars
<1>1. /\ chain' \in [Schedules -> [Chains -> Places]]
      /\ tracked' \in [Schedules -> Chains \cup {None}]
      /\ enabled' \in [Schedules -> BOOLEAN]
      /\ \A r \in Schedules \ {s} : chain'[r] = chain[r] /\ enabled'[r] = enabled[r]
      /\ \A r \in Schedules, j \in Chains :
           chain'[r][j] = chain[r][j] \/ chain'[r][j] \in {"armed", "none"}
      /\ enabled'[s] => Alive(s)'
  <2>0. /\ Cancelled(s) \in [Chains -> Places]
        /\ \A j \in Chains : Cancelled(s)[j] = chain[s][j] \/ Cancelled(s)[j] = "none"
    BY <1>0 DEF TypeOK, Cancelled, Places
  <2>1. ASSUME chain' = [chain EXCEPT ![s] = Cancelled(s)]
        PROVE  /\ chain' \in [Schedules -> [Chains -> Places]]
               /\ \A r \in Schedules \ {s} : chain'[r] = chain[r]
               /\ \A r \in Schedules, j \in Chains :
                    chain'[r][j] = chain[r][j] \/ chain'[r][j] \in {"armed", "none"}
    BY <2>0, <2>1, <1>0 DEF TypeOK
  <2>2. CASE UpdateSchedule(s)
    <3>1. enabled' = enabled
      BY <2>2 DEF UpdateSchedule
    <3>2. CASE enabled[s]
      <4>1. Arm(s, Cancelled(s))
        BY <2>2, <3>2 DEF UpdateSchedule
      <4> QED BY <4>1, <3>1, <1>0, ArmedChains DEF TypeOK
    <3>3. CASE ~enabled[s]
      <4>1. chain' = [chain EXCEPT ![s] = Cancelled(s)] /\ tracked' = tracked
        BY <2>2, <3>3 DEF UpdateSchedule
      <4> QED BY <4>1, <3>1, <3>3, <2>1, <1>0 DEF TypeOK
    <3> QED BY <3>2, <3>3
  <2>3. CASE EnableSchedule(s)
    <3>1. Arm(s, chain[s]) /\ enabled' = [enabled EXCEPT ![s] = TRUE]
      BY <2>3 DEF EnableSchedule
    <3>2. /\ enabled' \in [Schedules -> BOOLEAN]
          /\ \A r \in Schedules \ {s} : enabled'[r] = enabled[r]
      BY <3>1, <1>0 DEF TypeOK
    <3> QED BY <3>1, <3>2, <1>0, ArmedChains
  <2>4. CASE DisableSchedule(s)
    <3>1. /\ enabled' = [enabled EXCEPT ![s] = FALSE]
          /\ chain' = [chain EXCEPT ![s] = Cancelled(s)]
          /\ tracked' = [tracked EXCEPT ![s] = None]
      BY <2>4 DEF DisableSchedule
    <3>2. /\ enabled' \in [Schedules -> BOOLEAN]
          /\ ~enabled'[s]
          /\ \A r \in Schedules \ {s} : enabled'[r] = enabled[r]
          /\ tracked' \in [Schedules -> Chains \cup {None}]
      BY <3>1, <1>0 DEF TypeOK
    <3> QED BY <3>1, <3>2, <2>1
  <2> QED BY <2>2, <2>3, <2>4 DEF Control
<1>2. TypeOK'
  BY <1>0, <1>1 DEF TypeOK
<1>3. Ownership' /\ Flag' /\ NoEnding' /\ Settled'
  BY <1>0, <1>1, RunsUntouched
<1>4. \A r \in Schedules : enabled'[r] =>
        Alive(r)' \/ (r # s /\ enabled[r] /\ (Alive(r) => Alive(r)'))
  BY <1>1 DEF Alive, InFlight
<1>5. Living'
  BY <1>0, <1>4 DEF Inv, Living
<1> QED BY <1>2, <1>3, <1>5 DEF Inv

LEMMA CheckerInv ==
  ASSUME NEW k \in Checkers, Inv, BeginCheck(k) \/ Check(k) \/ EndCheck(k)
  PROVE  Inv'
<1>1. UNCHANGED <<stopped, caller, todo, picked, gathered, enabled, tracked, chain, owner>>
  BY DEF BeginCheck, Check, EndCheck, callerVars, scheduleVars
<1> QED BY <1>1 DEF Inv, TypeOK, Ownership, Flag, BeforeStop, NoEnding, Settled,
                NoRearmAfterStop, Living, Alive, InFlight

\* The steps of Start and Stop that only move the caller.
LEMMA LockingInv ==
  ASSUME Inv,
         \/ StartCall \/ StopCall
         \/ SetStopped("startLock", "startRead", FALSE)
         \/ RLockMu("startRead", "arming")
         \/ RUnlockMu("arming", "up")
         \/ SetStopped("stopLock", "stopRead", TRUE)
         \/ RLockMu("stopRead", "gathering")
         \/ RUnlockMu("gathering", "stopTimers")
         \/ StopReturn
  PROVE  Inv'
<1>1. UNCHANGED <<picked, gathered, enabled, tracked, chain, owner>>
  BY DEF StartCall, StopCall, LockMu, SetStopped, RLockMu, RUnlockMu, StopReturn, scheduleVars
<1>2. \/ UNCHANGED <<stopped, todo>>
         /\ \/ caller = "new" /\ caller' = "startLock"
            \/ caller = "up" /\ caller' = "stopLock"
            \/ caller = "stopTimers" /\ caller' = "done"
            \/ caller = "arming" /\ caller' = "up" /\ todo = {} /\ picked = None
            \/ caller = "gathering" /\ caller' = "stopTimers" /\ todo = {}
      \/ UNCHANGED todo /\ caller = "startLock" /\ caller' = "startRead" /\ stopped' = FALSE
      \/ UNCHANGED todo /\ caller = "stopLock" /\ caller' = "stopRead" /\ stopped' = TRUE
      \/ UNCHANGED stopped /\ todo' = Schedules
         /\ \/ caller = "startRead" /\ caller' = "arming"
            \/ caller = "stopRead" /\ caller' = "gathering"
  BY DEF StartCall, StopCall, LockMu, SetStopped, RLockMu, RUnlockMu, StopReturn
<1>3. TypeOK' /\ Ownership'
  BY <1>1, <1>2 DEF Inv, TypeOK, Ownership
<1>4. Flag' /\ NoEnding'
  BY <1>1, <1>2 DEF Inv, Flag, NoEnding, BeforeStop
<1>5. Settled'
  BY <1>1, <1>2 DEF Inv, Settled, NoRearmAfterStop
<1>6. \A s \in Schedules : Alive(s)' <=> Alive(s)
  BY <1>1 DEF Alive, InFlight
<1>7. Living'
  BY <1>1, <1>2, <1>6, SchedulerAssumption DEF Inv, Living
<1> QED BY <1>3, <1>4, <1>5, <1>7 DEF Inv

LEMMA StartInv ==
  ASSUME Inv, Pick \/ StartSchedule
  PROVE  Inv'
<1>1. CASE Pick
  <2>1. PICK s \in todo :
          /\ caller = "arming" /\ picked = None
          /\ todo' = todo \ {s}
          /\ picked' = IF enabled[s] THEN s ELSE None
          /\ UNCHANGED <<stopped, caller, gathered, enabled, tracked, chain, owner>>
    BY <1>1 DEF Pick, scheduleVars
  <2>2. TypeOK'
    BY <2>1 DEF Inv, TypeOK
  <2>3. Ownership' /\ Flag' /\ NoEnding' /\ Settled'
    BY <2>1, RunsUntouched
  <2>4. \A r \in Schedules : Alive(r) => Alive(r)'
    BY <2>1 DEF Alive, InFlight
  <2>5. Living'
    BY <2>1, <2>4, SchedulerAssumption DEF Inv, TypeOK, Living
  <2> QED BY <2>2, <2>3, <2>5 DEF Inv
<1>2. CASE StartSchedule
  <2>1. PICK s \in Schedules :
          /\ picked = s /\ picked' = None
          /\ Arm(s, chain[s])
          /\ UNCHANGED <<stopped, caller, todo, gathered, enabled, owner>>
    BY <1>2 DEF StartSchedule, Inv, TypeOK
  <2>2. caller = "arming"
    BY <2>1, SchedulerAssumption DEF Inv, TypeOK
  <2>3. /\ chain' \in [Schedules -> [Chains -> Places]]
        /\ tracked' \in [Schedules -> Chains \cup {None}]
        /\ Alive(s)'
        /\ \A r \in Schedules, j \in Chains :
             chain'[r][j] = chain[r][j] \/ chain'[r][j] \in {"armed", "none"}
        /\ \A r \in Schedules \ {s} : chain'[r] = chain[r]
    BY <2>1, ArmedChains DEF Inv
  <2>4. TypeOK'
    BY <2>1, <2>3 DEF Inv, TypeOK
  <2>5. Ownership' /\ Flag' /\ NoEnding' /\ Settled'
    BY <2>1, <2>3, RunsUntouched
  <2>6. \A r \in Schedules : Alive(r) \/ r = s => Alive(r)'
    BY <2>3 DEF Alive, InFlight
  <2>7. Living'
    BY <2>1, <2>2, <2>6 DEF Inv, Living
  <2> QED BY <2>4, <2>5, <2>7 DEF Inv
<1> QED BY <1>1, <1>2

LEMMA StopInv ==
  ASSUME Inv, Gather \/ StopTimer
  PROVE  Inv'
<1>1. CASE Gather
  <2>1. PICK s \in todo :
          /\ caller = "gathering"
          /\ Free(s)
          /\ todo' = todo \ {s}
          /\ gathered' = gathered \cup ({<<s, tracked[s]>>} \ {<<s, None>>})
          /\ tracked' = [tracked EXCEPT ![s] = None]
          /\ UNCHANGED <<stopped, caller, picked, enabled, chain, owner>>
    BY <1>1 DEF Gather
  <2>2. TypeOK'
    BY <2>1 DEF Inv, TypeOK
  <2>3. \A i \in Chains : chain[s][i] # "rearming"
    BY <2>1, SchedulerAssumption DEF Inv, TypeOK, Ownership, Free
  <2>4. Ownership' /\ Flag' /\ NoEnding'
    BY <2>1 DEF Inv, Ownership, Flag, NoEnding, BeforeStop
  <2>5. Settled'
    BY <2>1, <2>3 DEF Inv, TypeOK, Settled, NoRearmAfterStop
  <2>6. Living'
    BY <2>1 DEF Living
  <2> QED BY <2>2, <2>4, <2>5, <2>6 DEF Inv
<1>2. CASE StopTimer
  <2>1. PICK g \in gathered :
          /\ caller = "stopTimers"
          /\ gathered' = gathered \ {g}
          /\ \/ chain' = [chain EXCEPT ![g[1]][g[2]] = "none"]
             \/ chain' = chain
          /\ UNCHANGED <<stopped, caller, todo, picked, enabled, tracked, owner>>
    BY <1>2 DEF StopTimer, Moves
  <2>2. g[1] \in Schedules /\ g[2] \in Chains
    BY <2>1 DEF Inv, TypeOK
  <2>3. /\ chain' \in [Schedules -> [Chains -> Places]]
        /\ \A r \in Schedules, j \in Chains :
             chain'[r][j] = chain[r][j] \/ chain'[r][j] \in {"armed", "none"}
    <3>1. chain \in [Schedules -> [Chains -> Places]]
      BY DEF Inv, TypeOK
    <3>2. PICK s \in Schedules, i \in Chains : s = g[1] /\ i = g[2]
      BY <2>2
    <3>3. CASE chain' = [chain EXCEPT ![s][i] = "none"]
      <4>1. [chain[s] EXCEPT ![i] = "none"] \in [Chains -> Places]
        BY <3>1 DEF Places
      <4> QED BY <3>1, <3>3, <4>1
    <3>4. CASE chain' = chain
      BY <3>1, <3>4
    <3> QED BY <2>1, <3>2, <3>3, <3>4
  <2>4. TypeOK'
    BY <2>1, <2>3 DEF Inv, TypeOK
  <2>5. Ownership' /\ Flag' /\ NoEnding' /\ Settled'
    BY <2>1, <2>3, RunsUntouched
  <2>6. Living'
    BY <2>1 DEF Living
  <2> QED BY <2>4, <2>5, <2>6 DEF Inv
<1> QED BY <1>1, <1>2

LEMMA NextInv == Inv /\ [Next]_vars => Inv'
<1> SUFFICES ASSUME Inv, [Next]_vars PROVE Inv'
  OBVIOUS
<1>1. CASE \E s \in Schedules : Control(s)
  BY <1>1, ControlInv
<1>2. CASE \E s \in Schedules, i \in Chains : Fire(s, i) \/ Run(s, i)
  BY <1>2, RunInv
<1>3. CASE \E k \in Checkers : BeginCheck(k) \/ Check(k) \/ EndCheck(k)
  BY <1>3, CheckerInv
<1>4. CASE StartCall \/ Start \/ StopCall \/ Stop
  BY <1>4, LockingInv, StartInv, StopInv DEF Start, Stop
<1>5. CASE UNCHANGED vars
  BY <1>5 DEF vars, callerVars, scheduleVars, Inv, TypeOK, Ownership, Flag, BeforeStop,
              NoEnding, Settled, NoRearmAfterStop, Living, Alive, InFlight
<1> QED BY <1>1, <1>2, <1>3, <1>4, <1>5 DEF Next

LEMMA Invariance == Spec => []Inv
<1> QED BY InitInv, NextInv, PTL DEF Spec

\* The variables keep their types for any schedules and chains.
THEOREM TypeCorrect == Spec => []TypeOK
<1>1. Inv => TypeOK
  BY DEF Inv
<1> QED BY <1>1, Invariance, PTL

\* In a started scheduler every enabled schedule has a timer or a run that
\* will arm one, wherever updates, enables and disables fall into its runs
\* (scheduler.go, runScheduledCollection and its callers).
THEOREM SchedulesStayAlive == Spec => []ScheduleAlive
<1>1. Inv => ScheduleAlive
  BY DEF Inv, Living, Alive, ScheduleAlive
<1> QED BY <1>1, Invariance, PTL

\* Once Stop has taken the timers, no run is about to arm another: the flag
\* read under schedule.mu is enough (scheduler.go:317).
THEOREM StopIsFinal == Spec => []NoRearmAfterStop
<1>1. Inv => NoRearmAfterStop
  BY DEF Inv, Settled
<1> QED BY <1>1, Invariance, PTL
=============================================================================
