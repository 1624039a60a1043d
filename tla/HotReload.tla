------------------------------ MODULE HotReload ------------------------------
(***************************************************************************)
(* Configuration hot reload: main starts the exporter from the file, the   *)
(* Watcher of internal/config/watcher.go watches and reloads it, and the   *)
(* Registry of internal/collector/registry.go applies it collector by      *)
(* collector under r.mu, while an editor changes the file and readiness    *)
(* probes look at the collectors.                                          *)
(*                                                                         *)
(* A configuration is the set of collectors it enables; it stands for      *)
(* their filters and labels too. fsnotify and the file are external: the   *)
(* watch is on the file that had the name when it was added, so that a     *)
(* replaced file is no longer watched.                                     *)
(***************************************************************************)
EXTENDS Naturals, FiniteSets

CONSTANTS
  Collectors,         \* names of collectors
  Reconfigurable,     \* those in the switch of ReconfigureCollectors
  Configs,            \* valid configurations: sets of collectors
  Defaults,           \* the one of an empty file
  Broken,             \* a content that Load or ValidateEnhanced rejects
  Replaces,           \* whether the watched file may be replaced
  EditsUnseen,        \* whether it may change between the Load and the watch
  EditBound           \* bound of the model: changes after which no edit begins

ASSUME ReloadAssumption ==
  /\ Reconfigurable \subseteq Collectors
  /\ Configs \subseteq SUBSET Collectors
  /\ Defaults \in Configs
  /\ Broken \notin Configs
  /\ Replaces \in BOOLEAN /\ EditsUnseen \in BOOLEAN
  /\ EditBound \in Nat

VARIABLES
  file,        \* content of the file, with the number of changes behind it
  editor,      \* the configuration being written, or Broken between writes
  watch,       \* "none", "set" or "lost"
  pending,     \* a Write or Create event waits in watcher.Events
  timer,       \* debounce timer: "off", "running", "expired"
  main,        \* progress of main
  loop,        \* watch goroutine: "off", "select" or "apply"
  stopping,    \* stopChan is closed
  current,     \* w.currentConfig
  loaded,      \* the configuration NewWatcher or reload has loaded
  todo,        \* collectors that the running ReconfigureCollectors has to visit
  registered,  \* r.collectors
  applied,     \* applied[c]: the configuration c runs with
  up,          \* up[c]: the Up gauge
  probed       \* configurations seen by the last readiness probe

watcherVars == <<watch, pending, timer, loop, stopping, current, loaded>>
registryVars == <<todo, registered, applied, up>>
vars == <<file, editor, main, watcherVars, registryVars, probed>>

Contents == Configs \cup {Broken}
Version(content, n) == [config |-> content, edits |-> n]
Valid(f) == f.config # Broken

Init ==
  /\ file \in {Version(c, 0) : c \in Contents}
  /\ editor = Broken
  /\ watch = "none"
  /\ pending = FALSE
  /\ timer = "off"
  /\ main = "load"
  /\ loop = "off"
  /\ stopping = FALSE
  /\ current = file
  /\ loaded = file
  /\ todo = {}
  /\ registered = {}
  /\ applied = [c \in Collectors |-> file]
  /\ up = [c \in Collectors |-> FALSE]
  /\ probed = {}

-----------------------------------------------------------------------------
(* The file                                                                *)

MayChange == main = "addWatch" => EditsUnseen

MayEdit == MayChange /\ file.edits < EditBound

\* The watch reports a change of the file it was set on.
Notify == pending' = (pending \/ watch = "set")

\* Writing in place truncates first: an empty file loads, with the defaults.
Truncate ==
  /\ MayEdit
  /\ editor = Broken
  /\ editor' \in Configs
  /\ file' = Version(Defaults, file.edits + 1)
  /\ Notify
  /\ UNCHANGED <<watch, timer, loop, stopping, current, loaded, main, registryVars, probed>>

\* A part of it that does not load.
WritePart ==
  /\ MayChange
  /\ editor # Broken
  /\ Valid(file)
  /\ file' = Version(Broken, file.edits + 1)
  /\ Notify
  /\ UNCHANGED <<editor, watch, timer, loop, stopping, current, loaded, main, registryVars,
                 probed>>

Write ==
  /\ MayChange
  /\ editor # Broken
  /\ file' = Version(editor, file.edits + 1)
  /\ editor' = Broken
  /\ Notify
  /\ UNCHANGED <<watch, timer, loop, stopping, current, loaded, main, registryVars, probed>>

\* An editor that renames a new file over the old one, or a ConfigMap update.
\* The watch goes with the old file (Remove and Chmod events are ignored).
Replace ==
  /\ MayEdit
  /\ watch = "set" => Replaces
  /\ editor = Broken
  /\ \E c \in Configs : file' = Version(c, file.edits + 1)
  /\ watch' = IF watch = "set" THEN "lost" ELSE watch
  /\ UNCHANGED <<editor, pending, timer, loop, stopping, current, loaded, main,
                 registryVars, probed>>

-----------------------------------------------------------------------------
(* ReconfigureCollectors: under r.mu, one collector after the other; the   *)
(* collectors outside the switch are skipped.                              *)

Begin(config) == loaded' = config /\ todo' = registered

Reconfiguring == todo # {}

Reconfigure ==
  \E c \in todo :
    /\ todo' = todo \ {c}
    /\ IF c \in Reconfigurable
       THEN /\ applied' = [applied EXCEPT ![c] = loaded]
            /\ up' = [up EXCEPT ![c] = (c \in loaded.config)]
       ELSE UNCHANGED <<applied, up>>
    /\ UNCHANGED <<file, editor, main, watcherVars, registered, probed>>

-----------------------------------------------------------------------------
(* main                                                                    *)

\* config.Load and CreateCollectorsFromConfig: only enabled ones exist.
Create ==
  /\ main = "load"
  /\ Valid(file)
  /\ main' = "newWatcher"
  /\ registered' = file.config
  /\ applied' = [c \in Collectors |-> file]
  /\ up' = [c \in Collectors |-> c \in file.config]
  /\ UNCHANGED <<file, editor, watcherVars, todo, probed>>

Fatal ==
  /\ main = "load"
  /\ ~Valid(file)
  /\ main' = "exited"
  /\ UNCHANGED <<file, editor, watcherVars, registryVars, probed>>

\* NewWatcher loads the file again and then adds the watch.
NewWatcher ==
  /\ main = "newWatcher"
  /\ IF Valid(file)
     THEN main' = "addWatch" /\ current' = file
     ELSE main' = "noReload" /\ UNCHANGED current
  /\ UNCHANGED <<file, editor, watch, pending, timer, loop, stopping, loaded,
                 registryVars, probed>>

AddWatch ==
  /\ main = "addWatch"
  /\ watch' = "set"
  /\ main' = "start"
  /\ UNCHANGED <<file, editor, pending, timer, loop, stopping, current, loaded,
                 registryVars, probed>>

\* Start applies the configuration, then launches the goroutine.
Start ==
  /\ main = "start"
  /\ Begin(current)
  /\ main' = "launch"
  /\ UNCHANGED <<file, editor, watch, pending, timer, loop, stopping, current,
                 registered, applied, up, probed>>

Launch ==
  /\ main = "launch"
  /\ ~Reconfiguring
  /\ loop' = "select"
  /\ main' = "up"
  /\ UNCHANGED <<file, editor, watch, pending, timer, stopping, current, loaded,
                 registryVars, probed>>

\* The config-watcher hook of the shutdown.
Stop ==
  /\ main = "up"
  /\ ~stopping
  /\ stopping' = TRUE
  /\ watch' = "none"
  /\ UNCHANGED <<file, editor, pending, timer, loop, current, loaded, main,
                 registryVars, probed>>

-----------------------------------------------------------------------------
(* The goroutine: each turn of the loop takes one of the ready channels.   *)

Event ==
  /\ loop = "select"
  /\ pending
  /\ pending' = FALSE
  /\ timer' = "running"
  /\ UNCHANGED <<file, editor, main, watch, loop, stopping, current, loaded,
                 registryVars, probed>>

Expire ==
  /\ timer = "running"
  /\ timer' = "expired"
  /\ UNCHANGED <<file, editor, main, watch, pending, loop, stopping, current, loaded,
                 registryVars, probed>>

\* Mutation: the goroutine returns when the file does not load.
ReloadGivesUp ==
  /\ loop = "select"
  /\ timer = "expired"
  /\ timer' = "off"
  /\ IF Valid(file)
     THEN loop' = "apply" /\ Begin(file)
     ELSE loop' = "off" /\ UNCHANGED <<loaded, todo>>
  /\ UNCHANGED <<file, editor, main, watch, pending, stopping, current,
                 registered, applied, up, probed>>

\* reload: a file that does not load or validate leaves everything as it is.
Reload ==
  /\ loop = "select"
  /\ timer = "expired"
  /\ timer' = "off"
  /\ IF Valid(file)
     THEN loop' = "apply" /\ Begin(file)
     ELSE UNCHANGED <<loop, loaded, todo>>
  /\ UNCHANGED <<file, editor, main, watch, pending, stopping, current,
                 registered, applied, up, probed>>

\* Mutation: the old configuration stays the current one.
ReloadedKeepsOld ==
  /\ loop = "apply"
  /\ ~Reconfiguring
  /\ loop' = "select"
  /\ UNCHANGED <<file, editor, main, watch, pending, timer, stopping, current, loaded,
                 registryVars, probed>>

\* Mutation: the handler's success is taken for a failure and rolled back.
ReloadedRollsBack ==
  /\ loop = "apply"
  /\ ~Reconfiguring
  /\ loop' = "select"
  /\ Begin(current)
  /\ UNCHANGED <<file, editor, main, watch, pending, timer, stopping, current,
                 registered, applied, up, probed>>

\* The handler has returned nil.
Reloaded ==
  /\ loop = "apply"
  /\ ~Reconfiguring
  /\ current' = loaded
  /\ loop' = "select"
  /\ UNCHANGED <<file, editor, main, watch, pending, timer, stopping, loaded,
                 registryVars, probed>>

Leave ==
  /\ loop = "select"
  /\ stopping
  /\ loop' = "off"
  /\ UNCHANGED <<file, editor, main, watch, pending, timer, stopping, current, loaded,
                 registryVars, probed>>

-----------------------------------------------------------------------------
Serving == main \in {"up", "noReload"}

\* handleReady reads the collectors under r.mu.RLock (GetStats).
Ready ==
  /\ Serving
  /\ ~Reconfiguring
  /\ probed' = {applied[c] : c \in registered \cap Reconfigurable}
  /\ UNCHANGED <<file, editor, main, watcherVars, registryVars>>

Startup == Create \/ Fatal \/ NewWatcher \/ AddWatch \/ Start \/ Launch
Turn == Event \/ Reload \/ Reloaded \/ Leave

Next ==
  \/ Truncate \/ WritePart \/ Write \/ Replace
  \/ Startup \/ Stop
  \/ Reconfigure
  \/ Turn \/ Expire
  \/ Ready

\* main, the goroutine and the timer go on, and a write that truncated the
\* file is completed. Nobody has to edit, to stop or to probe.
Fairness ==
  WF_vars(Startup) /\ WF_vars(Reconfigure) /\ WF_vars(Turn) /\ WF_vars(Expire)
    /\ WF_vars(Write)

Spec == Init /\ [][Next]_vars /\ Fairness

-----------------------------------------------------------------------------
File == [config : Contents, edits : Nat]

TypeOK ==
  /\ editor \in Contents
  /\ file \in File /\ current \in File /\ loaded \in File
  /\ applied \in [Collectors -> File]
  /\ up \in [Collectors -> BOOLEAN]
  /\ registered \subseteq Collectors
  /\ todo \subseteq registered

\* What GetConfig reports is what the collectors run with: whatever happens
\* to the file while a reload is under way, a reload that fails changes
\* neither and one that succeeds changes both, each collector's gauge
\* included (Watcher.reload, Registry.ReconfigureCollectors).
RunsCurrent ==
  main = "up" /\ loop # "apply" =>
    \A c \in registered \cap Reconfigurable :
      applied[c] = current /\ up[c] = (c \in current.config)

\* A readiness probe never sees a half-applied configuration: GetStats and
\* ReconfigureCollectors exclude each other on r.mu.
OneConfigProbed == \A f, g \in probed : f = g

\* No collector is ever taken back to an older content of the file, by main's
\* two loads, by Start, or by a reload that raced a later write.
NeverGoesBack ==
  [][main # "load" => \A c \in registered : applied'[c].edits >= applied[c].edits]_vars

\* When the file stops changing, valid, then all collectors end up with its
\* content: debouncing, half-written files and writes during a reload lose
\* no change (Watcher.watch, Watcher.reload).
Converges ==
  <>[](main = "up" /\ ~stopping /\ Valid(file))
    => <>[](\A c \in registered \cap Reconfigurable : applied[c] = file)
=============================================================================
