----------------------------- MODULE MCLifecycle -----------------------------
(* Model checking of Lifecycle with the hooks of main.go, in their order.  *)
EXTENDS Lifecycle

RegisteredHooks == <<"server", "logger", "config-watcher">>
=============================================================================
