---------------------------- MODULE MCDegradation ----------------------------
(* Model checking of DegradationManager. The two gauges are only written,  *)
(* never read, so two states that differ in nothing else behave alike:     *)
(* the view leaves them out.                                               *)
EXTENDS DegradationManager

WithoutGauges == <<breakers, created, mu, cached, local>>
=============================================================================
