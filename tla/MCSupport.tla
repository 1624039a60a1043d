------------------------------ MODULE MCSupport ------------------------------
(* Model checking of what supports a collection, one module at a time, as  *)
(* they share no state. BatchProcessor: three items of two keys and one    *)
(* type, at most two in a batch, each tried twice. Profiling: two          *)
(* collections, a continuous round and a reader of statistics, with a      *)
(* storage limit that three profiles exceed. SlurmClient: two requests,    *)
(* each retried once, and a test. What has not been called asks for        *)
(* nothing, except the flush timer of the batches, which ticks always: so  *)
(* the fairness of all of them holds.                                      *)
EXTENDS BatchProcessor, Profiling, SlurmClient

VARIABLE side    \* the one that is looked at

MCInit ==
  /\ Init /\ ProfilingInit /\ ClientInit
  /\ side \in {"batches", "profiles", "client"}
  /\ side # "client" => connected

MCNext ==
  /\ \/ side = "batches" /\ Next /\ UNCHANGED <<profilingVars, clientVars>>
     \/ side = "profiles" /\ ProfilingNext /\ UNCHANGED <<vars, clientVars>>
     \/ side = "client" /\ ClientNext /\ UNCHANGED <<vars, profilingVars>>
     \/ /\ side # "batches" /\ (TimerFires \/ TimerFlushed)
        /\ UNCHANGED <<profilingVars, clientVars>>
  /\ UNCHANGED side

MCSpec ==
  /\ MCInit /\ [][MCNext]_<<vars, profilingVars, clientVars, side>>
  /\ Fairness /\ ProfilingFairness /\ ClientFairness
=============================================================================
