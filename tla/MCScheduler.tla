----------------------------- MODULE MCScheduler -----------------------------
(* Model checking of Scheduler with one schedule whose chains may grow to  *)
(* three, against the health check.                                        *)
EXTENDS Scheduler
=============================================================================
