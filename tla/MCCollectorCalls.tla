-------------------------- MODULE MCCollectorCalls --------------------------
(* Model checking of CollectorCalls. Liveness is checked in the same run,  *)
(* so it uses no symmetry.                                                 *)
EXTENDS CollectorCalls
=============================================================================
