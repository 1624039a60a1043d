--------------------------- MODULE HotReloadProofs ---------------------------
(***************************************************************************)
(* Proofs about HotReload. The invariant follows the configuration from    *)
(* the file to the collectors: what is loaded is never newer than the      *)
(* file, what a collector runs with is never newer than what is being      *)
(* applied to it, and a collector already visited by the reconfiguration   *)
(* under way runs with exactly what was loaded.                            *)
(*                                                                         *)
(* And about what is in the configuration (Configuration), for every file, *)
(* every environment and whatever a setting's value: the validators are    *)
(* unfolded only where main, the client, the registry and the server look  *)
(* at the same option again, and how the settings are laid over each other *)
(* is not unfolded at all.                                                 *)
(***************************************************************************)
EXTENDS HotReload, Configuration, TLAPS

\* Only Start and reload reconfigure, and the goroutine runs in "up" only.
Phases ==
  /\ loop # "off" => main = "up"
  /\ todo # {} => main = "launch" \/ loop = "apply"
  /\ main = "launch" => loaded = current

Known == registered \cap Reconfigurable

RunsWith(c, f) == applied[c] = f /\ up[c] = (c \in f.config)

Uniform ==
  /\ main \in {"newWatcher", "addWatch", "start", "noReload"}
       => \A c, d \in registered : applied[c] = applied[d]
  /\ main = "launch" => \A c \in Known \ todo : RunsWith(c, current)
  /\ loop = "apply" => \A c \in Known \ todo : RunsWith(c, loaded)
  /\ main = "up" /\ loop # "apply" => \A c \in Known : RunsWith(c, current)

Ordered ==
  /\ \A c \in Collectors : applied[c].edits <= file.edits
  /\ main \in {"addWatch", "start", "launch", "up"} => current.edits <= file.edits
  /\ main \in {"addWatch", "start"} => \A c \in registered : applied[c].edits <= current.edits
  /\ \A c \in todo : applied[c].edits <= loaded.edits
  /\ main \in {"launch", "up"} => loaded.edits <= file.edits

Inv == TypeOK /\ Phases /\ Uniform /\ Ordered /\ OneConfigProbed

LEMMA InitInv == Init => Inv
<1> SUFFICES ASSUME Init PROVE Inv
  OBVIOUS
<1>1. file \in File
  BY DEF Init, Version, File, Contents
<1>2. TypeOK
  BY <1>1 DEF Init, TypeOK, Contents
<1>3. main = "load" /\ loop = "off" /\ todo = {} /\ probed = {}
  BY DEF Init
<1>4. Phases /\ OneConfigProbed
  BY <1>3 DEF Phases, OneConfigProbed
<1>5. Uniform
  BY <1>3 DEF Uniform
<1>6. Ordered
  BY <1>1, <1>3 DEF Init, Ordered, File
<1> QED BY <1>2, <1>4, <1>5, <1>6 DEF Inv

\* What the editor does moves the file forward and touches nothing else.
LEMMA EditInv ==
  ASSUME Inv, Truncate \/ WritePart \/ Write \/ Replace
  PROVE  Inv'
<1>1. /\ editor' \in Contents
      /\ file' \in File
      /\ file'.edits >= file.edits
      /\ UNCHANGED <<current, loaded, applied, up, registered, todo, main, loop, probed>>
  <2>1. file \in File
    BY DEF Inv, TypeOK
  <2>2. CASE Truncate
    BY <2>1, <2>2, ReloadAssumption DEF Truncate, File, Version, Contents, registryVars
  <2>3. CASE WritePart
    BY <2>1, <2>3 DEF WritePart, File, Version, Contents, registryVars, Inv, TypeOK
  <2>4. CASE Write
    BY <2>1, <2>4, ReloadAssumption DEF Write, File, Version, Contents, registryVars, Inv, TypeOK
  <2>5. CASE Replace
    BY <2>1, <2>5 DEF Replace, File, Version, Contents, registryVars
  <2> QED BY <2>2, <2>3, <2>4, <2>5
<1>2. TypeOK'
  BY <1>1 DEF Inv, TypeOK
<1>3. Phases' /\ Uniform' /\ OneConfigProbed'
  BY <1>1 DEF Inv, Phases, Uniform, OneConfigProbed, Known, RunsWith
<1>4. Ordered'
  BY <1>1, <1>2 DEF Inv, TypeOK, Ordered, File
<1> QED BY <1>2, <1>3, <1>4 DEF Inv

LEMMA ReconfigureInv ==
  ASSUME Inv, Reconfigure
  PROVE  Inv' /\ \A c \in registered : applied'[c].edits >= applied[c].edits
<1>1. PICK c \in todo :
        /\ todo' = todo \ {c}
        /\ IF c \in Reconfigurable
           THEN /\ applied' = [applied EXCEPT ![c] = loaded]
                /\ up' = [up EXCEPT ![c] = (c \in loaded.config)]
           ELSE UNCHANGED <<applied, up>>
        /\ UNCHANGED <<file, editor, main, loop, current, loaded, registered, probed>>
  BY DEF Reconfigure, watcherVars
<1>2. c \in Collectors /\ todo # {}
  BY <1>1 DEF Inv, TypeOK
<1>3. TypeOK'
  <2>1. applied' \in [Collectors -> File]
    BY <1>1, <1>2 DEF Inv, TypeOK
  <2>2. up' \in [Collectors -> BOOLEAN]
    <3>1. CASE c \in Reconfigurable
      <4>1. up \in [Collectors -> BOOLEAN] /\ up' = [up EXCEPT ![c] = (c \in loaded.config)]
        BY <1>1, <3>1 DEF Inv, TypeOK
      <4>2. CASE c \in loaded.config
        <5>1. up' = [up EXCEPT ![c] = TRUE]
          BY <4>1, <4>2
        <5> QED BY <4>1, <5>1
      <4>3. CASE c \notin loaded.config
        <5>0. (c \in loaded.config) = FALSE
          BY <4>3
        <5>1. up' = [up EXCEPT ![c] = FALSE]
          BY <4>1, <5>0, Zenon
        <5> QED BY <4>1, <5>1
      <4> QED BY <4>2, <4>3
    <3>2. CASE c \notin Reconfigurable
      BY <1>1, <3>2 DEF Inv, TypeOK
    <3> QED BY <3>1, <3>2
  <2> QED BY <1>1, <2>1, <2>2 DEF Inv, TypeOK
<1>4. Phases' /\ OneConfigProbed'
  BY <1>1 DEF Inv, Phases, OneConfigProbed
<1>6. Uniform'
  <2>1. main = "launch" \/ loop = "apply"
    BY <1>2 DEF Inv, Phases
  <2>2. main \in {"launch", "up"}
    BY <2>1 DEF Inv, Phases
  <2>3. ASSUME main = "launch", NEW d \in Known', d \notin todo'
        PROVE  RunsWith(d, current)'
    <3>1. loaded = current
      BY <2>3 DEF Inv, Phases
    <3>2. d \notin todo => RunsWith(d, loaded)
      BY <1>1, <2>3, <3>1 DEF Inv, Uniform, Known
    <3>3. RunsWith(d, loaded)'
      BY <1>1, <1>2, <2>3, <3>2 DEF Inv, TypeOK, RunsWith, Known
    <3> QED BY <1>1, <3>1, <3>3 DEF RunsWith
  <2>4. ASSUME loop = "apply", NEW d \in Known', d \notin todo'
        PROVE  RunsWith(d, loaded)'
    <3>1. d \notin todo => RunsWith(d, loaded)
      BY <1>1, <2>4 DEF Inv, Uniform, Known
    <3> QED BY <1>1, <1>2, <2>4, <3>1 DEF Inv, TypeOK, RunsWith, Known
  <2>5. main = "up" => loop = "apply"
    BY <2>1 DEF Inv, Phases
  <2> QED BY <1>1, <2>2, <2>3, <2>4, <2>5 DEF Uniform
<1>7. loaded.edits <= file.edits /\ applied[c].edits <= loaded.edits
  BY <1>1, <1>2 DEF Inv, Phases, Ordered
<1>8. \A d \in Collectors : applied'[d] = applied[d] \/ (d = c /\ applied'[d] = loaded)
  BY <1>1, <1>2 DEF Inv, TypeOK
<1>9. Ordered'
  <2>1. main \in {"launch", "up"}
    BY <1>2 DEF Inv, Phases
  <2>2. \A d \in Collectors : applied'[d].edits <= file.edits
    BY <1>7, <1>8 DEF Inv, Ordered
  <2>3. \A d \in todo' : applied'[d].edits <= loaded.edits
    BY <1>1, <1>2, <1>8 DEF Inv, Ordered, TypeOK
  <2> QED BY <1>1, <1>7, <2>1, <2>2, <2>3 DEF Inv, Ordered
<1>10. \A d \in registered : applied'[d].edits >= applied[d].edits
  <2> SUFFICES ASSUME NEW d \in registered PROVE applied'[d].edits >= applied[d].edits
    OBVIOUS
  <2>1. d \in Collectors /\ applied[d].edits \in Nat /\ loaded.edits \in Nat
    BY DEF Inv, TypeOK, File
  <2> QED BY <1>7, <1>8, <2>1
<1> QED BY <1>3, <1>4, <1>6, <1>9, <1>10 DEF Inv

LEMMA StartupInv ==
  ASSUME Inv, Startup
  PROVE  Inv'
<1>1. CASE Create
  <2>1. /\ file.config \in Configs /\ file.config \subseteq Collectors
        /\ main = "load" /\ main' = "newWatcher"
        /\ registered' = file.config
        /\ applied' = [c \in Collectors |-> file]
        /\ up' = [c \in Collectors |-> c \in file.config]
        /\ UNCHANGED <<file, editor, current, loaded, todo, loop, probed>>
    BY <1>1, ReloadAssumption DEF Create, watcherVars, Valid, Inv, TypeOK, File, Contents
  <2>2. todo = {}
    BY <2>1 DEF Inv, Phases
  <2>3. TypeOK' /\ Phases' /\ OneConfigProbed'
    BY <2>1, <2>2 DEF Inv, TypeOK, Phases, OneConfigProbed
  <2>4. Uniform'
    BY <2>1, <2>2 DEF Inv, Phases, Uniform
  <2>5. Ordered'
    BY <2>1, <2>2 DEF Inv, TypeOK, File, Ordered
  <2> QED BY <2>3, <2>4, <2>5 DEF Inv
<1>2. CASE Fatal
  <2>1. /\ main = "load" /\ main' = "exited"
        /\ UNCHANGED <<file, editor, current, loaded, todo, registered, applied, up, loop, probed>>
    BY <1>2 DEF Fatal, watcherVars, registryVars
  <2> QED BY <2>1 DEF Inv, TypeOK, Phases, Uniform, Ordered, OneConfigProbed, Known, RunsWith
<1>3. CASE NewWatcher
  <2>1. /\ main = "newWatcher"
        /\ \/ main' = "addWatch" /\ current' = file
           \/ main' = "noReload" /\ current' = current
        /\ UNCHANGED <<file, editor, loaded, todo, registered, applied, up, loop, probed>>
    BY <1>3 DEF NewWatcher, registryVars
  <2>2. TypeOK' /\ Phases' /\ OneConfigProbed'
    BY <2>1 DEF Inv, TypeOK, Phases, OneConfigProbed
  <2>3. Uniform'
    BY <2>1 DEF Inv, Phases, Uniform
  <2>4. Ordered'
    BY <2>1 DEF Inv, TypeOK, File, Ordered
  <2> QED BY <2>2, <2>3, <2>4 DEF Inv
<1>4. CASE AddWatch
  <2>1. /\ main = "addWatch" /\ main' = "start"
        /\ UNCHANGED <<file, editor, current, loaded, todo, registered, applied, up, loop, probed>>
    BY <1>4 DEF AddWatch, registryVars
  <2> QED BY <2>1 DEF Inv, TypeOK, Phases, Uniform, Ordered, OneConfigProbed, Known, RunsWith
<1>5. CASE Start
  <2>1. /\ main = "start" /\ main' = "launch"
        /\ loaded' = current /\ todo' = registered
        /\ UNCHANGED <<file, editor, current, registered, applied, up, loop, probed>>
    BY <1>5 DEF Start, Begin
  <2>2. TypeOK' /\ Phases' /\ OneConfigProbed'
    BY <2>1 DEF Inv, TypeOK, Phases, OneConfigProbed
  <2>3. Uniform'
    BY <2>1 DEF Inv, Phases, Uniform, Known
  <2>4. Ordered'
    BY <2>1 DEF Inv, TypeOK, File, Ordered
  <2> QED BY <2>2, <2>3, <2>4 DEF Inv
<1>6. CASE Launch
  <2>1. /\ main = "launch" /\ main' = "up" /\ todo = {} /\ loop' = "select"
        /\ UNCHANGED <<file, editor, current, loaded, todo, registered, applied, up, probed>>
    BY <1>6 DEF Launch, registryVars, Reconfiguring
  <2> QED BY <2>1 DEF Inv, TypeOK, Phases, Uniform, Ordered, OneConfigProbed, Known, RunsWith
<1> QED BY <1>1, <1>2, <1>3, <1>4, <1>5, <1>6 DEF Startup

\* The steps that touch neither the collectors nor the configurations.
LEMMA IdleInv ==
  ASSUME Inv, Stop \/ Event \/ Expire \/ UNCHANGED vars
  PROVE  Inv'
<1>1. UNCHANGED <<file, editor, main, loop, current, loaded, todo, registered, applied, up, probed>>
  BY DEF Stop, Event, Expire, vars, watcherVars, registryVars
<1> QED BY <1>1 DEF Inv, TypeOK, Phases, Uniform, Ordered, OneConfigProbed, Known, RunsWith

LEMMA TurnInv ==
  ASSUME Inv, Reload \/ Reloaded \/ Leave
  PROVE  Inv'
<1>1. CASE Reload
  <2>1. loop = "select" /\ main = "up" /\ main' = main /\ todo = {}
    BY <1>1 DEF Reload, Inv, Phases
  <2>2. CASE loop' = "apply" /\ loaded' = file /\ todo' = registered
             /\ UNCHANGED <<file, editor, current, registered, applied, up, probed>>
    <3>1. TypeOK' /\ Phases' /\ OneConfigProbed'
      BY <2>1, <2>2 DEF Inv, TypeOK, Phases, OneConfigProbed
    <3>2. Uniform'
      BY <2>1, <2>2 DEF Inv, Uniform, Known
    <3>3. Ordered'
      BY <2>1, <2>2 DEF Inv, TypeOK, File, Ordered
    <3> QED BY <3>1, <3>2, <3>3 DEF Inv
  <2>3. CASE UNCHANGED <<file, editor, loop, current, loaded, todo, registered, applied, up, probed>>
    BY <2>1, <2>3 DEF Inv, TypeOK, Phases, Uniform, Ordered, OneConfigProbed, Known, RunsWith
  <2> QED BY <1>1, <2>2, <2>3 DEF Reload, Begin
<1>2. CASE Reloaded
  <2>1. /\ loop = "apply" /\ loop' = "select" /\ todo = {} /\ main = "up"
        /\ current' = loaded
        /\ UNCHANGED <<file, editor, main, loaded, todo, registered, applied, up, probed>>
    BY <1>2 DEF Reloaded, Reconfiguring, registryVars, Inv, Phases
  <2>3. TypeOK' /\ Phases' /\ OneConfigProbed'
    BY <2>1 DEF Inv, TypeOK, Phases, OneConfigProbed
  <2>4. Uniform'
    BY <2>1 DEF Inv, Uniform, Known, RunsWith
  <2>5. Ordered'
    BY <2>1 DEF Inv, TypeOK, File, Ordered
  <2> QED BY <2>3, <2>4, <2>5 DEF Inv
<1>3. CASE Leave
  <2>1. /\ loop = "select" /\ loop' = "off" /\ main = "up"
        /\ UNCHANGED <<file, editor, main, current, loaded, todo, registered, applied, up, probed>>
    BY <1>3 DEF Leave, registryVars, Inv, Phases
  <2> QED BY <2>1 DEF Inv, TypeOK, Phases, Uniform, Ordered, OneConfigProbed, Known, RunsWith
<1> QED BY <1>1, <1>2, <1>3

LEMMA NextInv == Inv /\ [Next]_vars => Inv'
<1> SUFFICES ASSUME Inv, [Next]_vars PROVE Inv'
  OBVIOUS
<1>1. CASE Truncate \/ WritePart \/ Write \/ Replace
  BY <1>1, EditInv
<1>2. CASE Startup
  BY <1>2, StartupInv
<1>3. CASE Reconfigure
  BY <1>3, ReconfigureInv
<1>4. CASE Reload \/ Reloaded \/ Leave
  BY <1>4, TurnInv
<1>5. CASE Stop \/ Event \/ Expire \/ UNCHANGED vars
  BY <1>5, IdleInv
<1>6. CASE Ready
  <2>1. /\ Serving /\ todo = {}
        /\ probed' = {applied[c] : c \in Known}
        /\ UNCHANGED <<file, editor, main, loop, current, loaded, todo, registered, applied, up>>
    BY <1>6 DEF Ready, Reconfiguring, watcherVars, registryVars, Known
  <2>2. \A c, d \in Known : applied[c] = applied[d]
    BY <2>1 DEF Serving, Inv, Uniform, Known, RunsWith
  <2>3. OneConfigProbed'
    BY <2>1, <2>2 DEF OneConfigProbed
  <2>4. TypeOK' /\ Phases' /\ Uniform' /\ Ordered'
    BY <2>1 DEF Inv, TypeOK, Phases, Uniform, Ordered, Known, RunsWith
  <2> QED BY <2>3, <2>4 DEF Inv
<1> QED BY <1>1, <1>2, <1>3, <1>4, <1>5, <1>6 DEF Next, Turn

LEMMA AlwaysInv == Spec => []Inv
  BY InitInv, NextInv, PTL DEF Spec

\* The variables keep their types for any files, collectors and configurations.
THEOREM TypeCorrect == Spec => []TypeOK
<1>1. Inv => TypeOK
  BY DEF Inv
<1> QED BY <1>1, AlwaysInv, PTL

\* What GetConfig reports is what the collectors run with, for any set of
\* collectors and configurations, also when the file is replaced or changes
\* unseen (watcher.go:131-165, registry.go:423-521).
THEOREM GetConfigIsApplied == Spec => []RunsCurrent
<1>1. Inv => RunsCurrent
  BY DEF Inv, Uniform, Known, RunsWith, RunsCurrent
<1> QED BY <1>1, AlwaysInv, PTL

\* No readiness probe sees a half-applied configuration.
THEOREM ProbesAreConsistent == Spec => []OneConfigProbed
<1>1. Inv => OneConfigProbed
  BY DEF Inv
<1> QED BY <1>1, AlwaysInv, PTL

\* No collector is taken back to an older content of the file.
THEOREM ReloadsGoForward == Spec => NeverGoesBack
<1> DEFINE Forward == main # "load" => \A c \in registered : applied'[c].edits >= applied[c].edits
<1>1. Inv /\ [Next]_vars => [Forward]_vars
  <2> SUFFICES ASSUME Inv, Next, main # "load" PROVE Forward
    OBVIOUS
  <2>1. CASE Reconfigure
    BY <2>1, ReconfigureInv
  <2>2. CASE UNCHANGED applied
    <3>1. \A c \in registered : applied[c].edits \in Nat
      BY DEF Inv, TypeOK, File
    <3> QED BY <2>2, <3>1
  <2>3. Create => main = "load"
    BY DEF Create
  <2>4. Next => Reconfigure \/ Create \/ UNCHANGED applied
    BY DEF Next, Truncate, WritePart, Write, Replace, Startup, Fatal, NewWatcher, AddWatch, Start, Launch,
           Stop, Turn, Event, Reload, Reloaded, Leave, Expire, Ready, watcherVars, registryVars
  <2> QED BY <2>1, <2>2, <2>3, <2>4
<1> QED BY <1>1, AlwaysInv, PTL DEF Spec, NeverGoesBack

-----------------------------------------------------------------------------
(* Configuration                                                           *)

\* What a collector that a reload knows is made of, whatever it was before.
Configured(n, c) ==
  [enabled |-> c[n].enabled,
   labels |-> IF n \in Labelled THEN c[n].labels ELSE "none",
   filter |-> IF n \in Filterable THEN Filter(c[n]) ELSE Filter(Mentioned(TRUE, 0))]

\* The collectors cols are those of c, with those that c disables since a
\* reload.
Follow(cols, c, watching) ==
  /\ DOMAIN cols \subseteq DOMAIN CollectorDefaults \ NeverRegistered
  /\ \A n \in DOMAIN cols \ Reconfigured : cols[n].labels = "none"
  /\ watching => \A n \in DOMAIN cols \cap Reconfigured : cols[n] = Configured(n, c)
  /\ ~watching => cols = Created(c)

ConfigInv ==
  /\ watched \in BOOLEAN
  /\ process \in {"up", "failed"} => ValidEnhanced(Effective(begun))
  /\ process \in {"up", "crashed"} => ValidEnhanced(Effective(adopted))
  /\ process \in {"up", "crashed"} => Follow(collectors, Effective(adopted), watched)
  /\ process = "crashed" =>
       \E n \in DOMAIN collectors : collectors[n].enabled /\ collectors[n].labels = "clash"
  /\ process = "failed" => ~Starts(Effective(begun)) \/ ~Listens(Effective(begun))

-----------------------------------------------------------------------------

\* The environment is that of the process: a step that begins with or adopts
\* the file makes of it what it would be now.
LEMMA EffectiveLater ==
  ASSUME UNCHANGED environ
  PROVE  /\ begun' = content => Effective(begun)' = Effective(content)
         /\ UNCHANGED begun => Effective(begun)' = Effective(begun)
         /\ adopted' = content => Effective(adopted)' = Effective(content)
         /\ UNCHANGED adopted => Effective(adopted)' = Effective(adopted)
<1>1. Heeded' = Heeded
  BY DEF Heeded
<1> QED BY <1>1 DEF Effective

LEMMA LabelledReconfigured == Labelled \subseteq Reconfigured /\ Filterable \subseteq Reconfigured
  BY DEF Labelled, Filterable, Reconfigured, Enhanced, Validated

LEMMA ConfiguredFacts ==
  ASSUME NEW n, NEW c
  PROVE  /\ Configured(n, c).enabled = c[n].enabled
         /\ Configured(n, c).labels = IF n \in Labelled THEN c[n].labels ELSE "none"
         /\ n \notin Filterable => Configured(n, c).filter = Filter(Mentioned(TRUE, 0))
  BY DEF Configured

LEMMA CreatedFacts ==
  ASSUME NEW c
  PROVE  /\ DOMAIN Created(c) =
              {m \in DOMAIN CollectorDefaults \ NeverRegistered : c[m].enabled}
         /\ \A n \in DOMAIN Created(c) :
              /\ Created(c)[n].labels = IF n \in Labelled THEN c[n].labels ELSE "none"
              /\ n \notin Filterable => Created(c)[n].filter = Filter(Mentioned(TRUE, 0))
  BY DEF Created

\* A collector that a reload reaches ends up the same from wherever it came.
LEMMA ReconfiguredFacts ==
  ASSUME NEW cols, NEW c, NEW n \in DOMAIN cols,
         n \notin Labelled => cols[n].labels = "none",
         n \in Reconfigured \ Filterable => cols[n].filter = Filter(Mentioned(TRUE, 0))
  PROVE  /\ n \in Reconfigured => ReconfigureAll(cols, c)[n] = Configured(n, c)
         /\ n \notin Reconfigured => ReconfigureAll(cols, c)[n] = cols[n]
  BY DEF ReconfigureAll, Configured

LEMMA RunningFacts ==
  ASSUME NEW c
  PROVE  /\ DOMAIN Running(c, TRUE) = DOMAIN Created(c)
         /\ \A n \in DOMAIN Created(c) :
              /\ n \in Reconfigured => Running(c, TRUE)[n] = Configured(n, c)
              /\ n \notin Reconfigured => Running(c, TRUE)[n] = Created(c)[n]
         /\ Running(c, FALSE) = Created(c)
<1>1. Running(c, TRUE) = ReconfigureAll(Created(c), c) /\ Running(c, FALSE) = Created(c)
  BY DEF Running
<1>2. DOMAIN ReconfigureAll(Created(c), c) = DOMAIN Created(c)
  BY DEF ReconfigureAll
<1>3. ASSUME NEW n \in DOMAIN Created(c)
      PROVE  /\ n \in Reconfigured => ReconfigureAll(Created(c), c)[n] = Configured(n, c)
             /\ n \notin Reconfigured => ReconfigureAll(Created(c), c)[n] = Created(c)[n]
  <2>1. /\ n \notin Labelled => Created(c)[n].labels = "none"
        /\ n \in Reconfigured \ Filterable => Created(c)[n].filter = Filter(Mentioned(TRUE, 0))
    BY CreatedFacts
  <2> QED BY <2>1, ReconfiguredFacts
<1> QED BY <1>1, <1>2, <1>3

LEMMA RunningFollow ==
  ASSUME NEW c, NEW watching \in BOOLEAN
  PROVE  Follow(Running(c, watching), c, watching)
<1>1. CASE watching = TRUE
  <2>1. ASSUME NEW n \in DOMAIN Created(c) \ Reconfigured
        PROVE  Running(c, TRUE)[n].labels = "none"
    <3>1. Running(c, TRUE)[n] = Created(c)[n] /\ n \notin Labelled
      BY RunningFacts, LabelledReconfigured
    <3>2. Created(c)[n].labels = "none"
      BY <3>1, CreatedFacts
    <3> QED BY <3>1, <3>2
  <2> QED BY <1>1, <2>1, RunningFacts, CreatedFacts DEF Follow
<1>2. CASE watching = FALSE
  <2>1. \A n \in DOMAIN Created(c) \ Reconfigured : Created(c)[n].labels = "none"
    BY CreatedFacts, LabelledReconfigured
  <2> QED BY <1>2, <2>1, RunningFacts, CreatedFacts DEF Follow
<1> QED BY <1>1, <1>2

LEMMA ReloadedFollow ==
  ASSUME NEW cols, NEW c, NEW old, Follow(cols, old, TRUE)
  PROVE  Follow(ReconfigureAll(cols, c), c, TRUE)
<1>1. DOMAIN ReconfigureAll(cols, c) = DOMAIN cols
  BY DEF ReconfigureAll
<1>2. ASSUME NEW n \in DOMAIN cols
      PROVE  /\ n \in Reconfigured => ReconfigureAll(cols, c)[n] = Configured(n, c)
             /\ n \notin Reconfigured => ReconfigureAll(cols, c)[n].labels = "none"
  <2>1. CASE n \in Reconfigured
    <3>1. cols[n] = Configured(n, old)
      BY <2>1 DEF Follow
    <3>2. /\ n \notin Labelled => cols[n].labels = "none"
          /\ n \in Reconfigured \ Filterable => cols[n].filter = Filter(Mentioned(TRUE, 0))
      <4>1. /\ Configured(n, old).labels = IF n \in Labelled THEN old[n].labels ELSE "none"
            /\ n \notin Filterable => Configured(n, old).filter = Filter(Mentioned(TRUE, 0))
        BY ConfiguredFacts
      <4> QED BY <3>1, <4>1
    <3> QED BY <2>1, <3>2, ReconfiguredFacts
  <2>2. CASE n \notin Reconfigured
    <3>1. cols[n].labels = "none"
      BY <2>2 DEF Follow
    <3> QED BY <2>2, <3>1, ReconfiguredFacts
  <2> QED BY <2>1, <2>2
<1> QED BY <1>1, <1>2 DEF Follow

LEMMA FollowFacts ==
  ASSUME NEW cols, NEW c, NEW watching \in BOOLEAN, Follow(cols, c, watching),
         NEW n \in DOMAIN cols
  PROVE  /\ cols[n].labels = "clash" => n \in Labelled /\ c[n].labels = "clash"
         /\ n \in Reconfigured /\ cols[n].enabled => c[n].enabled
         /\ n \in Reconfigured /\ n \in DOMAIN Created(c) =>
              cols[n] = Running(c, watching)[n]
         /\ n \notin DOMAIN Created(c) => ~c[n].enabled
         /\ DOMAIN Running(c, watching) = DOMAIN Created(c)
<1>1. CASE watching = TRUE
  <2>1. CASE n \in Reconfigured
    <3>1. cols[n] = Configured(n, c)
      BY <1>1, <2>1 DEF Follow
    <3>2. n \notin DOMAIN Created(c) => ~c[n].enabled
      BY CreatedFacts DEF Follow
    <3>3. /\ cols[n].enabled = c[n].enabled
          /\ cols[n].labels = IF n \in Labelled THEN c[n].labels ELSE "none"
      BY <3>1, ConfiguredFacts
    <3>4. n \in DOMAIN Created(c) => cols[n] = Running(c, TRUE)[n]
      BY <2>1, <3>1, RunningFacts
    <3> QED BY <1>1, <3>2, <3>3, <3>4, RunningFacts
  <2>2. CASE n \notin Reconfigured
    <3>1. n \notin DOMAIN Created(c) => ~c[n].enabled
      BY CreatedFacts DEF Follow
    <3>2. cols[n].labels = "none"
      BY <2>2 DEF Follow
    <3> QED BY <1>1, <2>2, <3>1, <3>2, RunningFacts
  <2> QED BY <2>1, <2>2
<1>2. CASE watching = FALSE
  <2>1. cols = Created(c) /\ Running(c, watching) = Created(c)
    BY <1>2, RunningFacts DEF Follow
  <2>2. /\ cols[n].labels = IF n \in Labelled THEN c[n].labels ELSE "none"
        /\ c[n].enabled
    BY <2>1, CreatedFacts
  <2> QED BY <2>1, <2>2
<1> QED BY <1>1, <1>2

\* What NewLogger, NewClient, the registry, server.New and the listening server
\* refuse of a valid configuration, no validator has looked at.
LEMMA OnlyOverlookedFails ==
  ASSUME NEW c, ValidEnhanced(c), ~Starts(c) \/ ~Listens(c)
  PROVE  Overlooked(c)
<1>1. CASE ~AuthConfigured(c.auth)
  <2>1. AuthValid(c.auth)
    BY DEF ValidEnhanced, BasicValid, SLURMValid
  <2>2. c.auth.type \in {"jwt", "basic", "apikey"}
    BY <1>1, <2>1 DEF AuthValid, AuthConfigured
  <2>3. CASE c.auth.type = "jwt"
    BY <1>1, <2>1, <2>3 DEF AuthValid, AuthConfigured, Secret, SecretRead, Good, Overlooked
  <2>4. CASE c.auth.type = "basic"
    BY <1>1, <2>1, <2>4 DEF AuthValid, AuthConfigured, Secret, SecretRead, Good, Overlooked
  <2>5. CASE c.auth.type = "apikey"
    BY <1>1, <2>1, <2>5 DEF AuthValid, AuthConfigured, Secret, SecretRead, Good, Overlooked
  <2> QED BY <2>2, <2>3, <2>4, <2>5
<1>2. CASE ~Registers(Created(c))
  <2>1. PICK n \in DOMAIN Created(c) : Created(c)[n].labels = "clash"
    BY <1>2 DEF Registers
  <2>2. n \in Labelled /\ c[n].enabled /\ c[n].labels = "clash"
    BY <2>1, CreatedFacts
  <2> QED BY <2>2 DEF Overlooked
<1>3. CASE ~RoutesSetUp(c.server)
  BY <1>3 DEF Overlooked
<1>4. CASE ~TLSLoads(c.tls)
  <2>1. /\ c.tls.enabled
        /\ c.tls.min_version \in {"", "1.0", "1.1", "1.2", "1.3"}
        /\ c.tls.cert_file \notin {"", "missing"} /\ c.tls.key_file \notin {"", "missing"}
    BY <1>4 DEF TLSLoads, ValidEnhanced, SecurityValid, BasicValid, ServerValid, Given
  <2>2. ~Good(c.tls.cert_file) \/ ~Good(c.tls.key_file)
    BY <1>4, <2>1 DEF TLSLoads
  <2> QED BY <2>1, <2>2 DEF Good, Overlooked
<1>5. CASE ~LoggerStarts(c.logging)
  BY <1>5 DEF LoggerStarts, Overlooked
<1>6. CASE c.slurm.base_url = "unusable"
  BY <1>6 DEF Overlooked
<1>7. CASE ~Listens(c)
  BY <1>7 DEF Listens, Overlooked
<1> QED BY <1>1, <1>2, <1>3, <1>4, <1>5, <1>6, <1>7 DEF Starts, ClientStarts

-----------------------------------------------------------------------------

LEMMA InitConfigInv == ConfigInit => ConfigInv
  BY DEF ConfigInit, ConfigInv

LEMMA StartConfigInv ==
  ASSUME ConfigInv, FailToStart \/ StartExporter
  PROVE  ConfigInv'
<1> DEFINE c == Effective(content)
<1>1. Effective(begun)' = c /\ ValidEnhanced(c)
  BY EffectiveLater DEF FailToStart, StartExporter, Loads
<1>2. CASE FailToStart
  BY <1>1, <1>2 DEF FailToStart, ConfigInv
<1>3. CASE StartExporter
  <2>1. /\ collectors' = Running(c, watched') /\ watched' \in BOOLEAN
        /\ Effective(adopted)' = c
    BY <1>3, EffectiveLater DEF StartExporter
  <2>2. Follow(collectors', c, watched')
    BY <2>1, RunningFollow
  <2> QED BY <1>1, <1>3, <2>1, <2>2 DEF StartExporter, ConfigInv
<1> QED BY <1>2, <1>3

LEMMA ReloadConfigInv ==
  ASSUME ConfigInv, ReloadFile
  PROVE  ConfigInv'
<1> DEFINE c == Effective(content)
<1>1. /\ Effective(adopted)' = c /\ ValidEnhanced(c)
      /\ Effective(begun)' = Effective(begun)
      /\ process = "up" /\ process' = "up" /\ watched = TRUE /\ watched' = TRUE
      /\ collectors' = ReconfigureAll(collectors, c)
  BY EffectiveLater DEF ReloadFile, Loads, ConfigInv
<1>2. Follow(collectors, Effective(adopted), TRUE)
  BY <1>1 DEF ConfigInv
<1>3. Follow(collectors', c, TRUE)
  BY <1>1, <1>2, ReloadedFollow
<1> QED BY <1>1, <1>3 DEF ConfigInv

LEMMA NextConfigInv == ConfigInv /\ [ConfigNext]_configVars => ConfigInv'
<1> SUFFICES ASSUME ConfigInv, [ConfigNext]_configVars PROVE ConfigInv'
  OBVIOUS
<1>1. CASE ChangeSetting \/ UNCHANGED configVars
  <2>1. UNCHANGED <<environ, process, watched, begun, adopted, collectors>>
    BY <1>1 DEF ChangeSetting, configVars
  <2> QED BY <2>1, EffectiveLater DEF ConfigInv
<1>2. CASE RefuseFile
  BY <1>2 DEF RefuseFile, ConfigInv
<1>3. CASE FailToStart \/ StartExporter
  BY <1>3, StartConfigInv
<1>4. CASE ReloadFile
  BY <1>4, ReloadConfigInv
<1>5. CASE ScrapePanics
  <2>1. UNCHANGED <<environ, watched, adopted, collectors>> /\ process = "up"
    BY <1>5 DEF ScrapePanics
  <2> QED BY <1>5, <2>1, EffectiveLater DEF ScrapePanics, ConfigInv
<1>6. CASE ServerFails
  <2>1. UNCHANGED <<environ, watched, begun>> /\ process = "up" /\ process' = "failed"
    BY <1>6 DEF ServerFails
  <2> QED BY <1>6, <2>1, EffectiveLater DEF ServerFails, ConfigInv
<1>7. CASE EndProcess
  BY <1>7 DEF EndProcess, ConfigInv
<1> QED BY <1>1, <1>2, <1>3, <1>4, <1>5, <1>6, <1>7 DEF ConfigNext

LEMMA AlwaysConfigInv == ConfigSpec => []ConfigInv
  BY InitConfigInv, NextConfigInv, PTL DEF ConfigSpec

\* Whatever the files, the environment and the reloads: an exporter whose
\* configuration the validators have accepted fails to start or to listen, or
\* panics in a scrape, only for one of the causes of Overlooked; of what
\* NewLogger, NewClient, the registry, server.New and the listening server check
\* again, everything else has been checked before.
THEOREM AcceptedRuns == ConfigSpec => []OnlyOverlookedKills
<1>1. ConfigInv => OnlyOverlookedKills
  <2> SUFFICES ASSUME ConfigInv PROVE OnlyOverlookedKills
    OBVIOUS
  <2>1. ASSUME process = "failed" PROVE Overlooked(Effective(begun))
    BY <2>1, OnlyOverlookedFails DEF ConfigInv
  <2>2. ASSUME process = "crashed" PROVE Overlooked(Effective(adopted))
    <3>1. PICK n \in DOMAIN collectors : collectors[n].enabled /\ collectors[n].labels = "clash"
      BY <2>2 DEF ConfigInv
    <3> DEFINE c == Effective(adopted)
    <3>2. watched \in BOOLEAN /\ Follow(collectors, c, watched)
      BY <2>2 DEF ConfigInv
    <3> HIDE DEF c
    <3>3. n \in Labelled /\ c[n].labels = "clash"
      BY <3>1, <3>2, FollowFacts
    <3>4. c[n].enabled
      BY <3>1, <3>2, <3>3, FollowFacts, LabelledReconfigured
    <3> QED BY <3>3, <3>4 DEF Overlooked, c
  <2> QED BY <2>1, <2>2 DEF OnlyOverlookedKills
<1> QED BY <1>1, AlwaysConfigInv, PTL

\* After any sequence of changes of the file and reloads, the collectors that
\* a reload reaches are what a restart with the same file would make of them,
\* or disabled where it would not create them (ReconfigureCollectors against
\* CreateCollectorsFromConfig).
THEOREM ReloadsAreRestarts == ConfigSpec => []ReloadIsRestart
<1>1. ConfigInv => ReloadIsRestart
  <2> SUFFICES ASSUME ConfigInv, process = "up" PROVE ReloadIsRestart
    BY DEF ReloadIsRestart
  <2> DEFINE c == Effective(adopted)
  <2>1. watched \in BOOLEAN /\ Follow(collectors, c, watched)
    BY DEF ConfigInv
  <2> HIDE DEF c
  <2>2. ASSUME NEW n \in DOMAIN collectors \cap Reconfigured
        PROVE  IF n \in DOMAIN Running(c, watched) THEN collectors[n] = Running(c, watched)[n]
               ELSE ~collectors[n].enabled
    BY <2>1, FollowFacts
  <2> QED BY <2>2 DEF ReloadIsRestart, c
<1> QED BY <1>1, AlwaysConfigInv, PTL
=============================================================================
