SPECIFICATION LifecycleSpec
CONSTANTS
  Hooks = {"server", "logger", "config-watcher"}
  HookOrder <- RegisteredHooks
  ServerHook = "server"
  Requests = {r1, r2}
  Signals = {SIGTERM, SIGHUP}
  SIGHUP = SIGHUP
INVARIANTS
  ZeroMeansClean
PROPERTY Terminates
CHECK_DEADLOCK FALSE
