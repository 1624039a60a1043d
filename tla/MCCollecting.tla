----------------------------- MODULE MCCollecting -----------------------------
(* Model checking of what runs around a collection, one module at a time,  *)
(* as they share no state. ConcurrentCollector: a CollectAll of two        *)
(* collectors and a CollectNow that compete for one slot. Orchestrator:    *)
(* the timers of a collector, started three times. CollectPipe: three      *)
(* metrics through a channel of one. What has not been called asks for     *)
(* nothing, so that the fairness of all of them holds.                     *)
EXTENDS ConcurrentCollector, Orchestrator, CollectPipe

VARIABLE side    \* the one that is looked at

MCInit ==
  /\ CCInit /\ OrchestratorInit /\ PipeInit
  /\ side \in {"calls", "timers", "pipe"}
  /\ side # "timers" => interval = Timed
  /\ side # "pipe" => Logging

MCNext ==
  /\ \/ side = "calls" /\ CCNext /\ UNCHANGED <<orchestratorVars, pipeVars>>
     \/ side = "timers" /\ OrchestratorNext /\ UNCHANGED <<ccVars, pipeVars>>
     \/ side = "pipe" /\ PipeNext /\ UNCHANGED <<ccVars, orchestratorVars>>
  /\ UNCHANGED side

MCSpec ==
  /\ MCInit /\ [][MCNext]_<<ccVars, orchestratorVars, pipeVars, side>>
  /\ CCFairness /\ OrchestratorFairness /\ PipeFairness
=============================================================================
