---------------------------- MODULE SupportProofs ----------------------------
(***************************************************************************)
(* Four parts of the exporter that share no state and support what it      *)
(* collects. For every order of distinct shutdown hooks and every set of   *)
(* requests and signals: what exit code 0 means (Lifecycle). For every set *)
(* of types and keys, every batch size and every number of calls: no item  *)
(* of a batch is lost or handled twice, so that the life of each is the    *)
(* one of ItemLife (BatchProcessor). For every set of profiled collections *)
(* and readers and every storage limit: nothing that the profiler has made *)
(* outlives its operation (Profiling). For every set of requests and tests *)
(* of the connection: what the client says of it agrees (SlurmClient).     *)
(***************************************************************************)
EXTENDS BatchProcessor, Profiling, Lifecycle, SlurmClient, FiniteSetTheorems, TLAPS

-----------------------------------------------------------------------------
(* Lifecycle. main runs the hooks from the end of hookOrder: a hook behind *)
(* its position has ended well or is reported, whatever its goroutine does *)
(* after main has stopped waiting for it.                                  *)

PassedHooksReported ==
  \A i \in position + 1 .. Len(HookOrder) :
    hook[HookOrder[i]] = "ok" \/ HookOrder[i] \in failures

\* The hook of the server ends well only when nobody waits for an answer.
ServerHookTrue ==
  hook[ServerHook] = "ok" => inFlight = {} /\ server = "closed"

\* What Exit has decided stands.
ExitCodeTrue ==
  main = "exited" => position = 0 /\ (exitCode = 0 => failures = {})

LifecycleInv ==
  /\ LifecycleTypeOK
  /\ PassedHooksReported
  /\ ServerHookTrue
  /\ ExitCodeTrue

\* main's hook is not one of those behind it.
LEMMA CurrentIsNew ==
  ASSUME LifecycleTypeOK, position > 0
  PROVE  /\ Current \in Hooks
         /\ Len(HookOrder) \in Nat
         /\ position \in 1 .. Len(HookOrder)
         /\ \A i \in position + 1 .. Len(HookOrder) :
              HookOrder[i] \in Hooks /\ HookOrder[i] # Current
  BY LifecycleAssumption DEF LifecycleTypeOK, Current

LEMMA InitLifecycleInv == LifecycleInit => LifecycleInv
<1> SUFFICES ASSUME LifecycleInit PROVE LifecycleInv
  OBVIOUS
<1>1. Len(HookOrder) \in Nat
  BY LifecycleAssumption
<1>2. LifecycleTypeOK
  <2>1. position \in 0 .. Len(HookOrder)
    BY <1>1 DEF LifecycleInit
  <2> QED BY <2>1 DEF LifecycleInit, LifecycleTypeOK
<1>3. PassedHooksReported
  BY <1>1 DEF LifecycleInit, PassedHooksReported
<1>4. ServerHookTrue /\ ExitCodeTrue
  BY LifecycleAssumption DEF LifecycleInit, ServerHookTrue, ExitCodeTrue
<1> QED BY <1>2, <1>3, <1>4 DEF LifecycleInv

\* main's step over a hook that has ended, or that it has given up.
LEMMA ProceedKeepsInv ==
  ASSUME LifecycleInv, main = "wait", NEW errors \in SUBSET {Current}, Proceed(errors),
         hook[Current] = "ok" \/ Current \in errors
  PROVE  LifecycleInv'
<1> USE DEF LifecycleInv
<1>1. /\ Current \in Hooks
      /\ Len(HookOrder) \in Nat
      /\ position \in 1 .. Len(HookOrder)
  BY CurrentIsNew DEF LifecycleTypeOK
<1>2. LifecycleTypeOK'
  BY <1>1 DEF Proceed, LifecycleTypeOK
<1>3. PassedHooksReported'
  <2> SUFFICES ASSUME NEW i \in position' + 1 .. Len(HookOrder)
               PROVE  (hook[HookOrder[i]] = "ok" \/ HookOrder[i] \in failures)'
    BY DEF PassedHooksReported
  <2>1. i = position \/ i \in position + 1 .. Len(HookOrder)
    BY <1>1 DEF Proceed
  <2> QED BY <2>1 DEF Proceed, PassedHooksReported, Current
<1>4. ServerHookTrue' /\ ExitCodeTrue'
  BY DEF Proceed, ServerHookTrue, ExitCodeTrue
<1> QED BY <1>2, <1>3, <1>4

LEMMA NextLifecycleInv == LifecycleInv /\ [LifecycleNext]_lifecycleVars => LifecycleInv'
<1> SUFFICES ASSUME LifecycleInv, [LifecycleNext]_lifecycleVars PROVE LifecycleInv'
  OBVIOUS
<1> USE DEF LifecycleInv
<1>0. ServerHook \in Hooks /\ Len(HookOrder) \in Nat
      /\ \A i \in 1 .. Len(HookOrder) : HookOrder[i] \in Hooks
  BY LifecycleAssumption
<1>1. CASE Listen \/ Fail
  BY <1>1
     DEF Listen, Fail, mainVars, LifecycleTypeOK, PassedHooksReported, ServerHookTrue, ExitCodeTrue
<1>2. ASSUME NEW r \in Requests, Arrive(r) \/ Answer(r) PROVE LifecycleInv'
  BY <1>2
     DEF Arrive, Answer, mainVars, LifecycleTypeOK, PassedHooksReported, ServerHookTrue,
         ExitCodeTrue
<1>3. ASSUME NEW s \in Signals, Signal(s) PROVE LifecycleInv'
  BY <1>3
     DEF Signal, mainVars, ShuttingDown, LifecycleTypeOK, PassedHooksReported, ServerHookTrue,
         ExitCodeTrue
<1>4. CASE Select
  BY <1>4 DEF Select, LifecycleTypeOK, PassedHooksReported, ServerHookTrue, ExitCodeTrue
<1>5. CASE StartHook
  <2>1. /\ Current \in Hooks
        /\ \A i \in position + 1 .. Len(HookOrder) :
             HookOrder[i] \in Hooks /\ HookOrder[i] # Current
    BY <1>5, CurrentIsNew DEF StartHook
  <2>2. LifecycleTypeOK'
    BY <1>5, <2>1 DEF StartHook, LifecycleTypeOK
  <2>3. PassedHooksReported'
    BY <1>5, <2>1 DEF StartHook, LifecycleTypeOK, PassedHooksReported
  <2>4. ServerHookTrue' /\ ExitCodeTrue'
    BY <1>0, <1>5, <2>1 DEF StartHook, LifecycleTypeOK, ServerHookTrue, ExitCodeTrue
  <2> QED BY <2>2, <2>3, <2>4
<1>6. CASE Done
  BY <1>6, ProceedKeepsInv DEF Done
<1>7. CASE TimedOut
  BY <1>7, ProceedKeepsInv DEF TimedOut
<1>8. CASE Exit
  BY <1>8 DEF Exit, LifecycleTypeOK, PassedHooksReported, ServerHookTrue, ExitCodeTrue
<1>9. CASE CloseServer
  BY <1>9
     DEF CloseServer, mainVars, LifecycleTypeOK, PassedHooksReported, ServerHookTrue, ExitCodeTrue
<1>10. ASSUME NEW h \in Hooks, NEW result \in {"ok", "failed"},
              hook[h] = "running", hook' = [hook EXCEPT ![h] = result],
              h = ServerHook /\ result = "ok" => inFlight = {} /\ server = "closed",
              UNCHANGED <<mainVars, sigChan, errChan, expired, server, inFlight, answered,
                          received>>
       PROVE  LifecycleInv'
  <2>1. LifecycleTypeOK'
    BY <1>10 DEF mainVars, LifecycleTypeOK
  <2>2. PassedHooksReported'
    <3> SUFFICES ASSUME NEW i \in position + 1 .. Len(HookOrder)
                 PROVE  hook'[HookOrder[i]] = "ok" \/ HookOrder[i] \in failures
      BY <1>10 DEF mainVars, PassedHooksReported
    <3>1. hook[HookOrder[i]] = "ok" \/ HookOrder[i] \in failures
      BY DEF PassedHooksReported
    <3> QED BY <1>10, <3>1 DEF LifecycleTypeOK
  <2>3. ServerHookTrue' /\ ExitCodeTrue'
    BY <1>0, <1>10 DEF mainVars, LifecycleTypeOK, ServerHookTrue, ExitCodeTrue
  <2> QED BY <2>1, <2>2, <2>3
<1>11. CASE ServerHookReturns
  BY <1>0, <1>10, <1>11 DEF ServerHookReturns
<1>12. CASE OtherHookReturns
  BY <1>10, <1>12 DEF OtherHookReturns
<1>13. CASE Deadline
  BY <1>13
     DEF Deadline, mainVars, LifecycleTypeOK, PassedHooksReported, ServerHookTrue, ExitCodeTrue
<1>14. CASE UNCHANGED lifecycleVars
  BY <1>14
     DEF lifecycleVars, mainVars, LifecycleTypeOK, PassedHooksReported, ServerHookTrue,
         ExitCodeTrue
<1> QED
  BY <1>1, <1>2, <1>3, <1>4, <1>5, <1>6, <1>7, <1>8, <1>9, <1>11, <1>12, <1>13, <1>14
     DEF LifecycleNext, Shutdown

\* Exit code 0 means that every hook has ended well, that no request was cut
\* off and that the server is closed, for every order of hooks, wherever the
\* deadline and late returns of hooks fall.
THEOREM ZeroIsClean == LifecycleSpec => []ZeroMeansClean
<1>1. LifecycleInv => ZeroMeansClean
  <2> SUFFICES ASSUME LifecycleInv, main = "exited", exitCode = 0
               PROVE  (\A h \in Hooks : hook[h] = "ok") /\ inFlight = {} /\ server = "closed"
    BY DEF LifecycleInv, ZeroMeansClean
  <2>1. position = 0 /\ failures = {}
    BY DEF LifecycleInv, ExitCodeTrue
  <2>2. \A i \in 1 .. Len(HookOrder) : hook[HookOrder[i]] = "ok"
    BY <2>1 DEF LifecycleInv, PassedHooksReported
  <2>3. \A h \in Hooks : hook[h] = "ok"
    BY <2>2, LifecycleAssumption
  <2> QED BY <2>3, LifecycleAssumption DEF LifecycleInv, ServerHookTrue
<1> QED BY <1>1, InitLifecycleInv, NextLifecycleInv, PTL DEF LifecycleSpec

-----------------------------------------------------------------------------
(* BatchProcessor. An item is in one place only if no two batches hold it  *)
(* and no two goroutines process it: who takes a batch takes all of it and *)
(* nothing else.                                                           *)

Held(t) == ToSet(batches[t])

BatchTypes ==
  /\ TypeOK
  /\ batches \in [Types -> Seq(Nat)]
  /\ work \subseteq [items : SUBSET Nat, type : Types, attempts : Nat, byLoop : BOOLEAN]

OnePlaceEach ==
  /\ 1 .. Len(keys) = Pending \cup InWork \cup settled
  /\ Pending \cap InWork = {}
  /\ (Pending \cup InWork) \cap settled = {}

HandledOnce ==
  /\ \A t, u \in Types : t # u => Held(t) \cap Held(u) = {}
  /\ \A v, w \in work : v # w => v.items \cap w.items = {}

BatchInv == BatchTypes /\ OnePlaceEach /\ HandledOnce

LEMMA InitBatchInv == Init => BatchInv
<1> SUFFICES ASSUME Init PROVE BatchInv
  OBVIOUS
<1> USE DEF Init
<1>1. \A t \in Types : batches[t] = <<>> /\ Held(t) = {}
  BY DEF Held, ToSet
<1>2. Pending = {} /\ InWork = {}
  BY <1>1 DEF Pending, InWork, Held
<1>3. BatchTypes
  BY BatchAssumption DEF BatchTypes, TypeOK
<1>4. OnePlaceEach
  BY <1>2 DEF OnePlaceEach
<1>5. HandledOnce
  BY <1>1 DEF HandledOnce
<1> QED BY <1>3, <1>4, <1>5 DEF BatchInv

\* An item appended to a sequence joins its set.
LEMMA AppendedItem ==
  ASSUME NEW s \in Seq(Nat), NEW e \in Nat
  PROVE  /\ Append(s, e) \in Seq(Nat) /\ Append(s, e) # <<>>
         /\ ToSet(Append(s, e)) = ToSet(s) \cup {e}
<1>1. /\ Len(Append(s, e)) = Len(s) + 1 /\ Len(s) \in Nat
      /\ DOMAIN s = 1 .. Len(s) /\ DOMAIN Append(s, e) = 1 .. Len(s) + 1
      /\ \A i \in 1 .. Len(s) : Append(s, e)[i] = s[i]
      /\ Append(s, e)[Len(s) + 1] = e
  OBVIOUS
<1>2. ToSet(Append(s, e)) \subseteq ToSet(s) \cup {e}
  BY <1>1 DEF ToSet
<1>3. ToSet(s) \subseteq ToSet(Append(s, e)) /\ e \in ToSet(Append(s, e))
  BY <1>1 DEF ToSet
<1> QED BY <1>1, <1>2, <1>3

\* Add: the new item is larger than all others, and goes into its batch or,
\* as a duplicate, is settled at once.
LEMMA AddKeepsBatchInv ==
  ASSUME BatchInv, NEW t \in Types, NEW k \in Keys, Add(t, k)
  PROVE  BatchInv'
<1> USE DEF BatchInv
<1> DEFINE n == Len(keys)
<1>0. keys \in Seq(Keys) /\ n \in Nat
  <2>1. keys \in Seq(Keys)
    BY DEF BatchTypes, TypeOK
  <2> QED BY <2>1
<1>1. /\ n \in Nat /\ n < MaxItems
      /\ keys' = Append(keys, k)
      /\ UNCHANGED <<aged, work, flushing, loop, timer, stop>>
  BY <1>0 DEF Add
<1>2. keys' \in Seq(Keys) /\ Len(keys') = n + 1 /\ Len(keys') <= MaxItems
  BY BatchAssumption, <1>0, <1>1
<1>3. InWork' = InWork
  BY <1>1 DEF InWork
<1>4. 1 .. Len(keys') = 1 .. n \cup {n + 1} /\ n + 1 \notin 1 .. n
  BY <1>1, <1>2
<1>5. CASE HasKey(t, k)
  <2>1. settled' = settled \cup {n + 1} /\ batches' = batches
    BY <1>2, <1>5 DEF Add
  <2>2. Pending' = Pending
    BY <2>1 DEF Pending
  <2>3. BatchTypes'
    BY <1>1, <1>2, <2>1 DEF BatchTypes, TypeOK
  <2>4. OnePlaceEach'
    BY <1>3, <1>4, <2>1, <2>2 DEF OnePlaceEach
  <2>5. HandledOnce'
    BY <1>1, <2>1 DEF HandledOnce, Held
  <2> QED BY <2>3, <2>4, <2>5
<1>6. CASE ~HasKey(t, k)
  <2>1. batches' = [batches EXCEPT ![t] = Append(batches[t], n + 1)] /\ settled' = settled
    BY <1>2, <1>6 DEF Add
  <2>2. batches \in [Types -> Seq(Nat)] /\ batches[t] \in Seq(Nat) /\ n + 1 \in Nat
    BY <1>1 DEF BatchTypes
  <2>3. /\ Append(batches[t], n + 1) \in Seq(Nat) /\ Append(batches[t], n + 1) # <<>>
        /\ ToSet(Append(batches[t], n + 1)) = Held(t) \cup {n + 1}
    BY <2>2, AppendedItem DEF Held
  <2>4. /\ batches' \in [Types -> Seq(Nat)]
        /\ batches'[t] = Append(batches[t], n + 1)
        /\ \A u \in Types \ {t} : batches'[u] = batches[u]
    BY <2>1, <2>2, <2>3
  <2>5. /\ Held(t)' = Held(t) \cup {n + 1}
        /\ \A u \in Types \ {t} : Held(u)' = Held(u)
    BY <2>3, <2>4 DEF Held
  <2>6. Pending = UNION {Held(u) : u \in Types} /\ Pending' = UNION {Held(u)' : u \in Types}
    BY DEF Pending, Held
  <2>7. Pending' = Pending \cup {n + 1}
    BY <2>5, <2>6
  <2>8. BatchTypes'
    BY <1>1, <1>2, <2>3, <2>4 DEF BatchTypes, TypeOK
  <2>9. OnePlaceEach'
    BY <1>3, <1>4, <2>1, <2>7 DEF OnePlaceEach
  <2>10. \A u \in Types : n + 1 \notin Held(u)
    BY <1>4, <2>6 DEF OnePlaceEach
  <2>11. \A u, v \in Types : u # v => Held(u)' \cap Held(v)' = {}
    BY <2>5, <2>10 DEF HandledOnce
  <2>12. HandledOnce'
    BY <1>1, <2>11 DEF HandledOnce
  <2> QED BY <2>8, <2>9, <2>12
<1> QED BY <1>5, <1>6

\* Who takes a batch takes its items out of the map, and no other item.
LEMMA TakenItems ==
  ASSUME BatchInv, NEW t \in Types, Take(t)
  PROVE  /\ batches' \in [Types -> Seq(Nat)]
         /\ batches'[t] = <<>> /\ \A u \in Types \ {t} : batches'[u] = batches[u]
         /\ Held(t)' = {} /\ \A u \in Types \ {t} : Held(u)' = Held(u)
         /\ Held(t) \subseteq Pending
         /\ Pending' = Pending \ Held(t)
         /\ aged' \subseteq {u \in Types : batches'[u] # <<>>}
<1> USE DEF BatchInv
<1>1. /\ batches' \in [Types -> Seq(Nat)]
      /\ batches'[t] = <<>> /\ \A u \in Types \ {t} : batches'[u] = batches[u]
  BY DEF Take, BatchTypes
<1>2. Held(t)' = {} /\ \A u \in Types \ {t} : Held(u)' = Held(u)
  BY <1>1 DEF Held, ToSet
<1>3. Pending = UNION {Held(u) : u \in Types} /\ Pending' = UNION {Held(u)' : u \in Types}
  BY DEF Pending, Held
<1>4. Held(t) \subseteq Pending
  BY <1>3
<1>5. Pending' = Pending \ Held(t)
  BY <1>2, <1>3 DEF HandledOnce
<1>6. aged' \subseteq {u \in Types : batches'[u] # <<>>}
  BY <1>1 DEF Take, BatchTypes, TypeOK
<1> QED BY <1>1, <1>2, <1>4, <1>5, <1>6

\* A batch that is taken is processed by one goroutine.
LEMMA ProcessedOnce ==
  ASSUME BatchInv, NEW t \in Types, NEW byLoop \in BOOLEAN,
         Take(t), Process(t, byLoop), UNCHANGED <<keys, settled>>
  PROVE  /\ work' \subseteq [items : SUBSET Nat, type : Types, attempts : Nat, byLoop : BOOLEAN]
         /\ OnePlaceEach' /\ HandledOnce'
<1> USE DEF BatchInv
<1> DEFINE job == [items |-> Held(t), type |-> t, attempts |-> 0, byLoop |-> byLoop]
<1>1. work' = work \cup {job}
  BY DEF Process, Held
<1>2. Held(t) \subseteq Nat
  BY DEF Held, ToSet, BatchTypes
<1>3. job \in [items : SUBSET Nat, type : Types, attempts : Nat, byLoop : BOOLEAN]
      /\ job.items = Held(t)
  BY <1>2
<1>4. work' \subseteq [items : SUBSET Nat, type : Types, attempts : Nat, byLoop : BOOLEAN]
  BY <1>1, <1>3 DEF BatchTypes
<1> HIDE DEF job
<1>5. InWork' = InWork \cup Held(t)
  BY <1>1, <1>3 DEF InWork
<1>6. /\ Held(t) \subseteq Pending /\ Pending' = Pending \ Held(t)
      /\ Held(t)' = {} /\ \A u \in Types \ {t} : Held(u)' = Held(u)
  BY TakenItems
<1>7. OnePlaceEach'
  BY <1>5, <1>6 DEF OnePlaceEach
<1>8. \A w \in work : w.items \cap Held(t) = {}
  BY <1>6 DEF OnePlaceEach, InWork
<1>9. \A v, w \in work' : v # w => v.items \cap w.items = {}
  BY <1>1, <1>3, <1>8 DEF HandledOnce
<1>10. \A u, v \in Types : u # v => Held(u)' \cap Held(v)' = {}
  BY <1>6 DEF HandledOnce
<1> QED BY <1>4, <1>7, <1>9, <1>10 DEF HandledOnce

LEMMA FlushKeepsBatchInv ==
  ASSUME BatchInv, NEW t \in Types, FlushBatch(t),
         UNCHANGED <<keys, loop, timer, stop>>, flushing' \in [Flushers -> SUBSET Types]
  PROVE  BatchInv'
<1> USE DEF BatchInv
<1>1. CASE batches[t] = <<>>
  <2>1. UNCHANGED <<batches, aged, work, settled>>
    BY <1>1 DEF FlushBatch
  <2>2. BatchTypes'
    BY <2>1 DEF BatchTypes, TypeOK
  <2>3. OnePlaceEach'
    BY <2>1 DEF OnePlaceEach, Pending, InWork
  <2>4. HandledOnce'
    BY <2>1 DEF HandledOnce, Held
  <2> QED BY <2>2, <2>3, <2>4
<1>2. CASE batches[t] # <<>> /\ t \in registered
  <2>1. Take(t) /\ Process(t, FALSE) /\ settled' = settled
    BY <1>2 DEF FlushBatch
  <2>2. /\ work' \subseteq [items : SUBSET Nat, type : Types, attempts : Nat, byLoop : BOOLEAN]
        /\ OnePlaceEach' /\ HandledOnce'
    BY <2>1, ProcessedOnce
  <2>3. BatchTypes'
    BY <2>1, <2>2, TakenItems DEF BatchTypes, TypeOK
  <2> QED BY <2>2, <2>3
<1>3. CASE batches[t] # <<>> /\ t \notin registered
  <2>1. Take(t) /\ settled' = settled \cup Held(t) /\ work' = work
    BY <1>3 DEF FlushBatch, Held
  <2>2. /\ Held(t) \subseteq Pending /\ Pending' = Pending \ Held(t)
        /\ Held(t)' = {} /\ \A u \in Types \ {t} : Held(u)' = Held(u)
    BY <2>1, TakenItems
  <2>3. InWork' = InWork
    BY <2>1 DEF InWork
  <2>4. OnePlaceEach'
    BY <2>1, <2>2, <2>3 DEF OnePlaceEach
  <2>5. \A u, v \in Types : u # v => Held(u)' \cap Held(v)' = {}
    BY <2>2 DEF HandledOnce
  <2>6. HandledOnce'
    BY <2>1, <2>5 DEF HandledOnce
  <2>7. BatchTypes'
    BY <2>1, TakenItems DEF BatchTypes, TypeOK
  <2> QED BY <2>4, <2>6, <2>7
<1> QED BY <1>1, <1>2, <1>3

LEMMA AttemptKeepsBatchInv ==
  ASSUME BatchInv, NEW w \in work, Attempt(w)
  PROVE  BatchInv'
<1> USE DEF BatchInv
<1> DEFINE Jobs == [items : SUBSET Nat, type : Types, attempts : Nat, byLoop : BOOLEAN]
<1>1. work \subseteq Jobs /\ w \in Jobs
  BY DEF BatchTypes
<1>2. UNCHANGED <<keys, batches, aged, flushing, timer, stop>> /\ Pending' = Pending
  BY DEF Attempt, addVars, Pending
<1>3. \A u \in Types : Held(u)' = Held(u)
  BY <1>2 DEF Held
<1>4. CASE Retry(w)
  <2> DEFINE again == [w EXCEPT !.attempts = @ + 1]
  <2>1. work' = (work \ {w}) \cup {again} /\ UNCHANGED <<settled, loop>>
    BY <1>4 DEF Retry
  <2>2. again \in Jobs /\ again.items = w.items
    BY <1>1
  <2> HIDE DEF again
  <2>3. work' \subseteq Jobs
    BY <1>1, <2>1, <2>2
  <2>4. InWork' = InWork
    BY <2>1, <2>2 DEF InWork
  <2>5. \A u, v \in work' : u # v => u.items \cap v.items = {}
    BY <2>1, <2>2 DEF HandledOnce
  <2> QED
    BY <1>2, <1>3, <2>1, <2>3, <2>4, <2>5 DEF BatchTypes, TypeOK, OnePlaceEach, HandledOnce
<1>5. CASE Settle(w)
  <2>1. work' = work \ {w} /\ settled' = settled \cup w.items
    BY <1>5 DEF Settle
  <2>2. loop' \in [Types -> {"none", "waiting", "busy", "ended"}]
    BY <1>5 DEF Settle, BatchTypes, TypeOK
  <2>3. InWork' = InWork \ w.items /\ w.items \subseteq InWork
    BY <2>1 DEF InWork, HandledOnce
  <2>4. OnePlaceEach'
    BY <1>2, <2>1, <2>3 DEF OnePlaceEach
  <2>5. HandledOnce'
    BY <1>3, <2>1 DEF HandledOnce
  <2>6. BatchTypes'
    BY <1>2, <2>1, <2>2 DEF BatchTypes, TypeOK
  <2> QED BY <2>4, <2>5, <2>6
<1> QED BY <1>4, <1>5 DEF Attempt

LEMMA NextBatchInv == BatchInv /\ [Next]_vars => BatchInv'
<1> SUFFICES ASSUME BatchInv, [Next]_vars PROVE BatchInv'
  OBVIOUS
<1> USE DEF BatchInv
<1>1. ASSUME NEW t \in Types, NEW k \in Keys, Add(t, k) PROVE BatchInv'
  BY <1>1, AddKeepsBatchInv
<1>2. ASSUME NEW t \in Types, FlushFull(t) PROVE BatchInv'
  BY <1>2, FlushKeepsBatchInv DEF FlushFull, addVars, BatchTypes, TypeOK
<1>3. ASSUME NEW f \in Flushers, NEW t \in Types, FlushNext(f, t) PROVE BatchInv'
  <2>1. flushing' \in [Flushers -> SUBSET Types]
    BY <1>3 DEF FlushNext, BatchTypes, TypeOK
  <2> QED BY <1>3, <2>1, FlushKeepsBatchInv DEF FlushNext, addVars
<1>4. ASSUME NEW t \in Types, CollectBatchedMetrics(t) PROVE BatchInv'
  BY <1>4, FlushKeepsBatchInv DEF CollectBatchedMetrics, addVars, threadVars, BatchTypes, TypeOK
<1>5. ASSUME NEW t \in Types, CheckAndFlush(t) PROVE BatchInv'
  <2>1. /\ Take(t) /\ Process(t, TRUE) /\ loop[t] = "waiting"
        /\ loop' = [loop EXCEPT ![t] = "busy"]
        /\ UNCHANGED <<keys, settled, flushing, timer, stop>>
    BY <1>5 DEF CheckAndFlush, addVars
  <2>2. /\ work' \subseteq [items : SUBSET Nat, type : Types, attempts : Nat, byLoop : BOOLEAN]
        /\ OnePlaceEach' /\ HandledOnce'
    BY <2>1, ProcessedOnce
  <2>3. BatchTypes'
    BY <2>1, <2>2, TakenItems DEF BatchTypes, TypeOK
  <2> QED BY <2>2, <2>3
<1>6. ASSUME NEW w \in work, Attempt(w) PROVE BatchInv'
  BY <1>6, AttemptKeepsBatchInv
\* The other steps leave the items where they are.
<1>7. ASSUME UNCHANGED <<keys, batches, work, settled>>,
             aged' \subseteq {t \in Types : batches[t] # <<>>},
             loop' \in [Types -> {"none", "waiting", "busy", "ended"}],
             timer' \in {"waiting", "flushing", "ended"},
             stop' \in {"no", "flushing", "waiting", "stopped", "timed out"},
             flushing' \in [Flushers -> SUBSET Types]
      PROVE  BatchInv'
  <2>1. BatchTypes'
    BY <1>7 DEF BatchTypes, TypeOK
  <2>2. OnePlaceEach'
    <3>1. Pending' = Pending /\ InWork' = InWork
      BY <1>7 DEF Pending, InWork
    <3> QED BY <1>7, <3>1 DEF OnePlaceEach
  <2>3. HandledOnce'
    BY <1>7 DEF HandledOnce, Held
  <2> QED BY <2>1, <2>2, <2>3
<1>8. ASSUME NEW t \in Types, Age(t) \/ ProcessBatch(t) \/ LoopEnds(t) PROVE BatchInv'
  BY <1>7, <1>8 DEF Age, ProcessBatch, LoopEnds, addVars, threadVars, BatchTypes, TypeOK
<1>9. CASE TimerFires \/ StopCall
  BY <1>7, <1>9
     DEF TimerFires, StopCall, Snapshot, OtherThanFlushing, addVars, BatchTypes, TypeOK
<1>10. CASE TimerFlushed \/ TimerEnds \/ StopCancel \/ StopReturns
  BY <1>7, <1>10
     DEF TimerFlushed, TimerEnds, StopCancel, StopReturns, OtherThanFlushing, addVars,
         BatchTypes, TypeOK
<1>11. CASE UNCHANGED vars
  BY <1>7, <1>11 DEF vars, addVars, threadVars, BatchTypes, TypeOK
<1> QED
  BY <1>1, <1>2, <1>3, <1>4, <1>5, <1>6, <1>8, <1>9, <1>10, <1>11 DEF Next, Goroutines

\* Every item added is in one batch, with one goroutine that processes it, or
\* settled, whoever flushes: the loops, full batches, the timer, Stop and
\* CollectBatchedMetrics, in any interleaving and for any sizes.
THEOREM ItemsAreConserved == Spec => []ItemsConserved
<1>1. BatchInv => ItemsConserved
  BY DEF BatchInv, BatchTypes, OnePlaceEach, HandledOnce, ItemsConserved
<1> QED BY <1>1, InitBatchInv, NextBatchInv, PTL DEF Spec

\* Every step of the batches is a step of the life of some items, or leaves
\* each of them where it is. The items in batches wait, those that goroutines
\* process are worked on.
Life == INSTANCE ItemLife WITH waiting <- Pending, working <- InWork

LEMMA AddIsAccept ==
  ASSUME BatchInv, NEW t \in Types, NEW k \in Keys, Add(t, k)
  PROVE  \E n \in Items : Life!Accept(n)
<1> DEFINE n == Len(keys) + 1
<1>1. /\ keys \in Seq(Keys) /\ Len(keys) \in Nat /\ Len(keys) < MaxItems
      /\ batches \in [Types -> Seq(Nat)] /\ batches[t] \in Seq(Nat)
  <2>1. keys \in Seq(Keys) /\ batches \in [Types -> Seq(Nat)]
    BY DEF BatchInv, BatchTypes, TypeOK
  <2> QED BY <2>1 DEF Add
<1>2. Len(keys') = n /\ work' = work
  BY <1>1 DEF Add
<1>3. n \in Items /\ n \notin Pending \cup InWork \cup settled
  BY <1>1, BatchAssumption DEF Items, BatchInv, OnePlaceEach
<1>4. InWork' = InWork
  BY <1>2 DEF InWork
<1>5. CASE HasKey(t, k)
  <2>1. settled' = settled \cup {n} /\ batches' = batches
    BY <1>2, <1>5 DEF Add
  <2> QED BY <1>3, <1>4, <2>1 DEF Life!Accept, Pending
<1>6. CASE ~HasKey(t, k)
  <2>1. batches' = [batches EXCEPT ![t] = Append(batches[t], n)] /\ settled' = settled
    BY <1>2, <1>6 DEF Add
  <2>2. Held(t)' = Held(t) \cup {n} /\ \A u \in Types \ {t} : Held(u)' = Held(u)
    BY <1>1, <2>1, AppendedItem DEF Held
  <2>3. Pending = UNION {Held(u) : u \in Types} /\ Pending' = UNION {Held(u)' : u \in Types}
    BY DEF Pending, Held
  <2>4. Pending' = Pending \cup {n}
    BY <2>2, <2>3
  <2> QED BY <1>3, <1>4, <2>1, <2>4 DEF Life!Accept
<1> QED BY <1>5, <1>6

LEMMA ProcessIsTakeUp ==
  ASSUME BatchInv, NEW t \in Types, NEW byLoop, Take(t), Process(t, byLoop),
         UNCHANGED settled
  PROVE  Life!TakeUp(Held(t)) /\ Held(t) \subseteq Pending
<1> DEFINE job == [items |-> Held(t), type |-> t, attempts |-> 0, byLoop |-> byLoop]
<1>1. work' = work \cup {job} /\ job.items = Held(t)
  BY DEF Process, Held
<1> HIDE DEF job
<1>2. InWork' = InWork \cup Held(t)
  BY <1>1 DEF InWork
<1> QED BY <1>2, TakenItems DEF Life!TakeUp

LEMMA FlushIsTakeUp ==
  ASSUME BatchInv, NEW t \in Types, FlushBatch(t)
  PROVE  [Life!LifeNext]_(Life!lifeVars)
<1>1. CASE batches[t] = <<>>
  BY <1>1 DEF FlushBatch, Life!lifeVars, Pending, InWork
<1>2. CASE batches[t] # <<>> /\ t \in registered
  BY <1>2, ProcessIsTakeUp DEF FlushBatch, Life!LifeNext
<1>3. CASE batches[t] # <<>> /\ t \notin registered
  <2>1. Take(t) /\ settled' = settled \cup Held(t) /\ InWork' = InWork
    BY <1>3 DEF FlushBatch, Held, InWork
  <2>2. Life!TakeUp(Held(t)) /\ Held(t) \subseteq Pending
    BY <2>1, TakenItems DEF Life!TakeUp
  <2> QED BY <2>2 DEF Life!LifeNext
<1> QED BY <1>1, <1>2, <1>3

\* Another attempt leaves the items in work, the last one settles them.
LEMMA AttemptIsFinish ==
  ASSUME BatchInv, NEW w \in work, Attempt(w)
  PROVE  [Life!LifeNext]_(Life!lifeVars)
<1>1. w \in [items : SUBSET Nat, type : Types, attempts : Nat, byLoop : BOOLEAN]
  BY DEF BatchInv, BatchTypes
<1>2. Pending' = Pending
  BY DEF Attempt, Pending
<1>3. CASE Retry(w)
  <2> DEFINE again == [w EXCEPT !.attempts = @ + 1]
  <2>1. work' = (work \ {w}) \cup {again} /\ settled' = settled /\ again.items = w.items
    BY <1>1, <1>3 DEF Retry
  <2> HIDE DEF again
  <2>2. InWork' = InWork
    BY <2>1 DEF InWork
  <2> QED BY <1>2, <2>1, <2>2 DEF Life!lifeVars
<1>4. CASE Settle(w)
  <2>1. work' = work \ {w} /\ settled' = settled \cup w.items
    BY <1>4 DEF Settle
  <2>2. InWork' = InWork \ w.items /\ w.items \subseteq InWork
    BY <2>1 DEF InWork, BatchInv, HandledOnce
  <2>3. Life!Finish(w.items)
    BY <1>2, <2>1, <2>2 DEF Life!Finish
  <2> QED BY <2>2, <2>3 DEF Life!LifeNext
<1> QED BY <1>3, <1>4 DEF Attempt

LEMMA NextIsLife == BatchInv /\ [Next]_vars => [Life!LifeNext]_(Life!lifeVars)
<1> SUFFICES ASSUME BatchInv, [Next]_vars PROVE [Life!LifeNext]_(Life!lifeVars)
  OBVIOUS
<1>1. ASSUME NEW t \in Types, NEW k \in Keys, Add(t, k) PROVE Life!LifeNext
  BY <1>1, AddIsAccept DEF Life!LifeNext
<1>2. ASSUME NEW t \in Types, FlushFull(t) \/ CollectBatchedMetrics(t)
      PROVE  [Life!LifeNext]_(Life!lifeVars)
  BY <1>2, FlushIsTakeUp DEF FlushFull, CollectBatchedMetrics
<1>3. ASSUME NEW f \in Flushers, NEW t \in Types, FlushNext(f, t)
      PROVE  [Life!LifeNext]_(Life!lifeVars)
  BY <1>3, FlushIsTakeUp DEF FlushNext
<1>4. ASSUME NEW t \in Types, CheckAndFlush(t) PROVE Life!LifeNext
  BY <1>4, ProcessIsTakeUp DEF CheckAndFlush, Life!LifeNext
\* The other steps leave the items where they are.
<1>5. ASSUME UNCHANGED <<batches, work, settled>> PROVE UNCHANGED Life!lifeVars
  BY <1>5 DEF Life!lifeVars, Pending, InWork
<1>6. ASSUME NEW t \in Types, Age(t) \/ ProcessBatch(t) \/ LoopEnds(t)
      PROVE  UNCHANGED Life!lifeVars
  BY <1>5, <1>6 DEF Age, ProcessBatch, LoopEnds
<1>7. CASE \/ TimerFires \/ TimerFlushed \/ TimerEnds
           \/ StopCall \/ StopCancel \/ StopReturns
  BY <1>5, <1>7
     DEF TimerFires, TimerFlushed, TimerEnds, StopCall, StopCancel, StopReturns,
         OtherThanFlushing
<1>8. CASE UNCHANGED vars
  BY <1>5, <1>8 DEF vars
<1> QED
  BY <1>1, <1>2, <1>3, <1>4, <1>6, <1>7, <1>8, AttemptIsFinish DEF Next, Goroutines

\* Whoever flushes, and however often a batch is tried: the batch processor
\* implements the life of items, in which an item is taken up once, settled
\* once and never comes back.
THEOREM BatchesKeepItemLife == Spec => Life!LifeSpec
<1>1. Init => Life!LifeInit
  BY DEF Init, Life!LifeInit, Pending, InWork, ToSet
<1> QED BY <1>1, InitBatchInv, NextBatchInv, NextIsLife, PTL DEF Spec, Life!LifeSpec

-----------------------------------------------------------------------------
(* Profiling. Operations of one name overwrite each other's entry and stop *)
(* each other's CPU profile, so that neither belongs to the operation that *)
(* made it; what holds is that whoever is registered has not ended, and    *)
(* that only one Save at a time is inside fs.mu.                           *)

BusyReaders == {r \in Readers : reader[r] # "idle"}
Writing(o) == op[o] \in {"writing", "listing"}

ProfilingTypes ==
  /\ mu \in [writer : {{}} \cup {{o} : o \in Profiled}, readers : Nat]
  /\ op \in [Profiled -> {"idle", "starting", "collecting", "sampling", "saving", "writing",
                          "listing", "leaving", "done"}]
  /\ reader \in [Readers -> {"idle", "listing", "listed"}]
  /\ stored \in Seq(ProfileSizes)
  /\ active \in Operations \cup {Nobody} /\ cpu \in Profiled \cup {Nobody}
  /\ \A o \in Profiled : op[o] \in {"starting", "collecting"} => o \in Operations

StorageLocked ==
  /\ IsFiniteSet(BusyReaders) /\ mu.readers = Cardinality(BusyReaders)
  /\ \A o \in Profiled : mu.writer = {o} <=> Writing(o)

RegisteredLives ==
  /\ cpu # Nobody => op[cpu] \in {"starting", "collecting", "sampling"}
  /\ active # Nobody => op[active] # "done"

ProfilingInv == ProfilingTypes /\ StorageLocked /\ RegisteredLives

LEMMA InitProfilingInv == ProfilingInit => ProfilingInv
<1> SUFFICES ASSUME ProfilingInit PROVE ProfilingInv
  OBVIOUS
<1> USE DEF ProfilingInit
<1>1. ProfilingTypes
  BY DEF ProfilingTypes, Unlocked
<1>2. BusyReaders = {}
  BY DEF BusyReaders
<1>3. StorageLocked
  BY <1>2, FS_EmptySet DEF StorageLocked, Unlocked, Writing
<1> QED BY <1>1, <1>3 DEF ProfilingInv, RegisteredLives

\* The steps of an operation that leave the storage and its mutex alone.
LEMMA OutsideStorage ==
  ASSUME ProfilingInv, NEW o \in Profiled, UNCHANGED <<mu, stored, reader>>,
         \A p \in Profiled \ {o} : op'[p] = op[p],
         ~Writing(o), ~Writing(o)', ProfilingTypes', RegisteredLives'
  PROVE  ProfilingInv'
<1> USE DEF ProfilingInv
<1>1. BusyReaders' = BusyReaders
  BY DEF BusyReaders
<1>2. \A p \in Profiled : Writing(p)' <=> Writing(p)
  BY DEF Writing
<1> QED BY <1>1, <1>2 DEF StorageLocked

\* Save gives the lock back, or stays inside it above the limit.
LEMMA SaveEnds ==
  ASSUME ProfilingInv, NEW o \in Profiled, NEW size \in ProfileSizes,
         SaveFails(o, size) \/ Save(o, size)
  PROVE  ProfilingInv'
<1> USE DEF ProfilingInv
<1>1. /\ mu.writer = {o} /\ mu.readers = 0
      /\ stored' = Append(stored, size) /\ UNCHANGED <<active, cpu, reader>>
      /\ op[o] = "writing"
  BY DEF SaveFails, Save, HoldsLock, Step
<1>2. mu = [writer |-> mu.writer, readers |-> mu.readers]
  BY DEF ProfilingTypes
<1>3. WriteUnlocked(mu) = [writer |-> {}, readers |-> mu.readers]
  BY <1>2 DEF WriteUnlocked
<1>4. \/ mu' = WriteUnlocked(mu) /\ op' = [op EXCEPT ![o] = "leaving"]
      \/ mu' = mu /\ op' = [op EXCEPT ![o] = "listing"]
  BY DEF SaveFails, Save, Step
<1>5. PICK st \in {"leaving", "listing"} :
        /\ op' = [op EXCEPT ![o] = st]
        /\ mu' = [writer |-> IF st = "listing" THEN {o} ELSE {}, readers |-> mu.readers]
  BY <1>1, <1>2, <1>3, <1>4
<1>6. /\ op'[o] = st /\ \A p \in Profiled \ {o} : op'[p] = op[p]
      /\ op' \in [Profiled -> {"idle", "starting", "collecting", "sampling", "saving", "writing",
                               "listing", "leaving", "done"}]
  BY <1>5 DEF ProfilingTypes
<1>7. ProfilingTypes'
  <2>1. stored' \in Seq(ProfileSizes)
    BY <1>1 DEF ProfilingTypes
  <2>2. mu' \in [writer : {{}} \cup {{p} : p \in Profiled}, readers : Nat]
    BY <1>5 DEF ProfilingTypes
  <2>3. \A p \in Profiled : op'[p] \in {"starting", "collecting"} => p \in Operations
    BY <1>6 DEF ProfilingTypes
  <2> QED BY <1>1, <1>6, <2>1, <2>2, <2>3 DEF ProfilingTypes
<1>8. BusyReaders' = BusyReaders /\ mu'.readers = mu.readers
  BY <1>1, <1>5 DEF BusyReaders
<1>9. \A p \in Profiled \ {o} : ~Writing(p) /\ ~Writing(p)'
  <2>1. \A p \in Profiled \ {o} : ~Writing(p)
    BY <1>1 DEF StorageLocked
  <2> QED BY <1>6, <2>1 DEF Writing
<1>10. \/ mu'.writer = {o} /\ Writing(o)'
       \/ mu'.writer = {} /\ ~Writing(o)'
  <2>1. CASE st = "leaving"
    BY <1>5, <1>6, <2>1 DEF Writing
  <2>2. CASE st = "listing"
    BY <1>5, <1>6, <2>2 DEF Writing
  <2> QED BY <2>1, <2>2
<1>11. StorageLocked'
  BY <1>8, <1>9, <1>10 DEF StorageLocked
<1>12. RegisteredLives'
  <2>1. \A p \in Profiled :
          /\ op[p] \in {"starting", "collecting", "sampling"} =>
               op'[p] \in {"starting", "collecting", "sampling"}
          /\ op[p] # "done" => op'[p] # "done"
    BY <1>1, <1>6
  <2> QED BY <1>1, <2>1 DEF RegisteredLives, ProfilingTypes, Profiled
<1> QED BY <1>7, <1>11, <1>12

LEMMA SaveBegins ==
  ASSUME ProfilingInv, NEW o \in Profiled, SaveLock(o)
  PROVE  ProfilingInv'
<1> USE DEF ProfilingInv
<1>1. /\ mu.writer = {} /\ mu' = Announced(mu, o) /\ UNCHANGED <<stored, active, cpu, reader>>
      /\ op[o] = "saving" /\ op' = [op EXCEPT ![o] = "writing"]
  BY DEF SaveLock, MayAnnounce, Step
<1>2. mu = [writer |-> mu.writer, readers |-> mu.readers]
  BY DEF ProfilingTypes
<1>3. mu' = [writer |-> {o}, readers |-> mu.readers]
  BY <1>1, <1>2 DEF Announced
<1>4. ProfilingTypes'
  BY <1>1, <1>3 DEF ProfilingTypes
<1>5. BusyReaders' = BusyReaders
  BY <1>1 DEF BusyReaders
<1>6. Writing(o)' /\ \A p \in Profiled \ {o} : ~Writing(p)'
  BY <1>1 DEF StorageLocked, Writing, ProfilingTypes
<1>7. StorageLocked'
  BY <1>3, <1>5, <1>6 DEF StorageLocked
<1>8. RegisteredLives'
  BY <1>1 DEF RegisteredLives, ProfilingTypes
<1> QED BY <1>4, <1>7, <1>8

\* GetStats holds one read lock from its RLock to its return.
LEMMA StatsKeepInv ==
  ASSUME ProfilingInv, NEW r \in Readers, StatsRLock(r) \/ StatsList(r) \/ StatsReturn(r)
  PROVE  ProfilingInv'
<1> USE DEF ProfilingInv
<1>1. UNCHANGED <<stored, op, active, cpu>>
  BY DEF StatsRLock, StatsList, StatsReturn
<1>2. RegisteredLives' /\ \A o \in Profiled : Writing(o)' <=> Writing(o)
  BY <1>1 DEF RegisteredLives, Writing
<1>3. IsFiniteSet(BusyReaders) /\ mu.readers = Cardinality(BusyReaders)
  BY DEF StorageLocked
<1>4. mu = [writer |-> mu.writer, readers |-> mu.readers] /\ mu.readers \in Nat
  BY DEF ProfilingTypes
<1>5. CASE StatsRLock(r)
  <2>1. /\ reader[r] = "idle" /\ reader' = [reader EXCEPT ![r] = "listing"]
        /\ mu' = RLocked(mu)
    BY <1>5 DEF StatsRLock
  <2>2. mu' = [writer |-> mu.writer, readers |-> mu.readers + 1]
    BY <1>4, <2>1 DEF RLocked
  <2>3. BusyReaders' = BusyReaders \cup {r} /\ r \notin BusyReaders
    BY <2>1 DEF BusyReaders, ProfilingTypes
  <2>4. IsFiniteSet(BusyReaders') /\ Cardinality(BusyReaders') = Cardinality(BusyReaders) + 1
    BY <1>3, <2>3, FS_AddElement
  <2>5. StorageLocked'
    BY <1>2, <1>3, <2>2, <2>4 DEF StorageLocked
  <2>6. ProfilingTypes'
    BY <1>1, <1>4, <2>1, <2>2 DEF ProfilingTypes
  <2> QED BY <1>2, <2>5, <2>6
<1>6. CASE StatsList(r)
  <2>1. /\ reader[r] = "listing" /\ reader' = [reader EXCEPT ![r] = "listed"]
        /\ mu' = mu
    BY <1>6 DEF StatsList
  <2>2. BusyReaders' = BusyReaders
    BY <2>1 DEF BusyReaders, ProfilingTypes
  <2>3. StorageLocked'
    BY <1>2, <1>3, <2>1, <2>2 DEF StorageLocked
  <2>4. ProfilingTypes'
    BY <1>1, <2>1 DEF ProfilingTypes
  <2> QED BY <1>2, <2>3, <2>4
<1>7. CASE StatsReturn(r)
  <2>1. /\ reader[r] = "listed" /\ reader' = [reader EXCEPT ![r] = "idle"]
        /\ mu' = RUnlocked(mu)
    BY <1>7 DEF StatsReturn
  <2>2. mu' = [writer |-> mu.writer, readers |-> mu.readers - 1]
    BY <1>4, <2>1 DEF RUnlocked
  <2>3. BusyReaders' = BusyReaders \ {r} /\ r \in BusyReaders
    BY <2>1 DEF BusyReaders, ProfilingTypes
  <2>4. IsFiniteSet(BusyReaders') /\ Cardinality(BusyReaders') = Cardinality(BusyReaders) - 1
    BY <1>3, <2>3, FS_RemoveElement
  <2>5. mu'.readers = Cardinality(BusyReaders') /\ mu'.readers \in Nat
    BY <1>3, <2>2, <2>4, FS_CardinalityType
  <2>6. StorageLocked'
    BY <1>2, <2>2, <2>4, <2>5 DEF StorageLocked
  <2>7. ProfilingTypes'
    BY <1>1, <2>1, <2>2, <2>5 DEF ProfilingTypes
  <2> QED BY <1>2, <2>6, <2>7
<1> QED BY <1>5, <1>6, <1>7

LEMMA NextProfilingInv == ProfilingInv /\ [ProfilingNext]_profilingVars => ProfilingInv'
<1> SUFFICES ASSUME ProfilingInv, [ProfilingNext]_profilingVars PROVE ProfilingInv'
  OBVIOUS
<1> USE DEF ProfilingInv
<1>1. ASSUME NEW o \in Operations, StartOperation(o) PROVE ProfilingInv'
  <2>1. o \in Profiled
    BY DEF Profiled
  <2>2. ProfilingTypes' /\ RegisteredLives'
    BY <1>1, <2>1 DEF StartOperation, Step, ProfilingTypes, RegisteredLives
  <2> QED BY <1>1, <2>1, <2>2, OutsideStorage DEF StartOperation, Step, Writing, ProfilingTypes
<1>2. ASSUME NEW o \in Continuous, StartRound(o) PROVE ProfilingInv'
  <2>1. o \in Profiled
    BY DEF Profiled
  <2>2. ProfilingTypes' /\ RegisteredLives'
    <3>1. PICK st \in {"sampling", "saving"} :
            /\ op[o] = "idle" /\ op' = [op EXCEPT ![o] = st]
            /\ IF st = "sampling" THEN cpu' = o ELSE cpu' = cpu
      BY <1>2 DEF StartRound, Step
    <3>2. UNCHANGED <<mu, stored, active, reader>>
      BY <1>2 DEF StartRound
    <3>3. /\ op'[o] = st /\ \A p \in Profiled \ {o} : op'[p] = op[p]
          /\ op' \in [Profiled -> {"idle", "starting", "collecting", "sampling", "saving",
                                   "writing", "listing", "leaving", "done"}]
      BY <2>1, <3>1 DEF ProfilingTypes
    <3>4. ProfilingTypes'
      BY <2>1, <3>1, <3>2, <3>3 DEF ProfilingTypes
    <3>5. cpu' # Nobody => op'[cpu'] \in {"starting", "collecting", "sampling"}
      BY <3>1, <3>3 DEF ProfilingTypes, RegisteredLives
    <3>6. active' # Nobody => op'[active'] # "done"
      BY <2>1, <3>1, <3>2, <3>3 DEF ProfilingTypes, RegisteredLives, Profiled
    <3> QED BY <3>4, <3>5, <3>6 DEF RegisteredLives
  <2> QED BY <1>2, <2>1, <2>2, OutsideStorage DEF StartRound, Step, Writing, ProfilingTypes
<1>3. ASSUME NEW o \in Profiled, EnterProfile(o) PROVE ProfilingInv'
  <2>1. ProfilingTypes' /\ RegisteredLives'
    BY <1>3 DEF EnterProfile, Step, ProfilingTypes, RegisteredLives
  <2> QED BY <1>3, <2>1, OutsideStorage DEF EnterProfile, Step, Writing, ProfilingTypes
<1>4. ASSUME NEW o \in Profiled, Stop(o) PROVE ProfilingInv'
  <2>1. ProfilingTypes' /\ RegisteredLives'
    <3>1. PICK st \in {"saving", "leaving"} : op' = [op EXCEPT ![o] = st]
      BY <1>4 DEF Stop, Step
    <3>2. /\ op[o] = "collecting" /\ cpu' = Nobody
          /\ UNCHANGED <<mu, stored, active, reader>>
      BY <1>4 DEF Stop, Step
    <3> QED BY <3>1, <3>2 DEF ProfilingTypes, RegisteredLives
  <2> QED BY <1>4, <2>1, OutsideStorage DEF Stop, Step, Writing, ProfilingTypes
<1>5. ASSUME NEW o \in Profiled, LeaveProfile(o) PROVE ProfilingInv'
  <2>1. ProfilingTypes' /\ RegisteredLives'
    BY <1>5 DEF LeaveProfile, Step, ProfilingTypes, RegisteredLives
  <2> QED BY <1>5, <2>1, OutsideStorage DEF LeaveProfile, Step, Writing, ProfilingTypes
<1>6. ASSUME NEW o \in Profiled, StopRound(o) PROVE ProfilingInv'
  <2>1. ProfilingTypes' /\ RegisteredLives'
    BY <1>6 DEF StopRound, Step, ProfilingTypes, RegisteredLives
  <2> QED BY <1>6, <2>1, OutsideStorage DEF StopRound, Step, Writing, ProfilingTypes
<1>7. ASSUME NEW o \in Profiled, OperationStep(o) \/ SaveLock(o) PROVE ProfilingInv'
  BY <1>3, <1>4, <1>5, <1>6, <1>7, SaveEnds, SaveBegins DEF OperationStep
<1>8. ASSUME NEW i \in DOMAIN stored, DeleteProfile(i) PROVE ProfilingInv'
  <2>1. i \in 1 .. Len(stored) /\ stored \in Seq(ProfileSizes) /\ Len(stored) \in Nat
    BY DEF ProfilingTypes
  <2>2. /\ SubSeq(stored, 1, i - 1) \in Seq(ProfileSizes)
        /\ SubSeq(stored, i + 1, Len(stored)) \in Seq(ProfileSizes)
    BY <2>1
  <2>3. stored' \in Seq(ProfileSizes) /\ UNCHANGED <<mu, op, active, cpu, reader>>
    BY <1>8, <2>2 DEF DeleteProfile
  <2> QED
    BY <2>3 DEF ProfilingTypes, StorageLocked, RegisteredLives, BusyReaders, Writing
<1>9. CASE UNCHANGED profilingVars
  BY <1>9
     DEF profilingVars, ProfilingTypes, StorageLocked, RegisteredLives, BusyReaders, Writing
<1> QED BY <1>1, <1>2, <1>7, <1>8, <1>9, StatsKeepInv DEF ProfilingNext

\* Neither a CPU profile nor an entry of the profiler outlives the operation
\* it was made for, for any number of operations, rounds and readers, whatever
\* the storage limit.
THEOREM NothingOutlives == ProfilingSpec => []NothingOutlived
<1>1. ProfilingInv => NothingOutlived
  BY DEF ProfilingInv, ProfilingTypes, StorageLocked, RegisteredLives, NothingOutlived,
         ProfilingTypeOK, BusyReaders, Writing
<1> QED BY <1>1, InitProfilingInv, NextProfilingInv, PTL DEF ProfilingSpec
-----------------------------------------------------------------------------
(* SlurmClient. What connected, lastError and retryCount say fits          *)
(* together, whoever wrote each of them, and an attempt is counted before  *)
(* it is followed by another.                                              *)

VerdictsAgree ==
  /\ connected => ~lastError /\ retryCount = 0
  /\ retryCount > 0 => lastError

AttemptsBounded ==
  \A r \in ApiCalls :
    /\ request[r] \in {"limited", "operating", "delayed"} => attempt[r] <= MaxRetries
    /\ request[r] = "failed" => attempt[r] = MaxRetries + 1

TestsAlone ==
  \A s, t \in Testers : tester[s] = "testing" /\ tester[t] = "testing" => s = t

ClientInv ==
  /\ ClientTypeOK
  /\ VerdictsAgree
  /\ AttemptsBounded
  /\ TestsAlone
  /\ request \in [ApiCalls -> {"idle", "limited", "operating", "delayed", "succeeded",
                               "failed", "returned"}]
  /\ \A r \in ApiCalls : request[r] = "idle" => attempt[r] = 0
  /\ tester \in [Testers -> {"idle", "testing", "returned"}]

LEMMA InitClientInv == ClientInit => ClientInv
<1> SUFFICES ASSUME ClientInit PROVE ClientInv
  OBVIOUS
<1>1. connected \in BOOLEAN /\ lastError \in BOOLEAN
  BY Zenon DEF ClientInit
<1>2. retryCount = 0 /\ (connected => ~lastError)
  BY DEF ClientInit
<1>3. VerdictsAgree
  BY <1>2 DEF VerdictsAgree
<1>4. retryCount \in 0 .. MaxRetryCount
  BY <1>2, ClientAssumption
<1>5. attempt \in [ApiCalls -> 0 .. MaxRetries + 1] /\ AttemptsBounded
  BY ClientAssumption DEF ClientInit, AttemptsBounded
<1>6. (locked <=> \E t \in Testers : tester[t] = "testing") /\ TestsAlone
  BY DEF ClientInit, TestsAlone
<1> QED
  BY <1>1, <1>3, <1>4, <1>5, <1>6 DEF ClientInit, ClientInv, ClientTypeOK

\* A request that neither fails an attempt nor records a verdict only moves,
\* without leaving what its attempts allow.
LEMMA RequestMoves ==
  ASSUME ClientInv, NEW r \in ApiCalls, NEW from, NEW to, RequestGoes(r, from, to),
         UNCHANGED <<locked, verdictVars, attempt, tester>>,
         \/ from \in {"idle", "delayed"} /\ to = "limited"
         \/ from = "limited" /\ to = "operating"
         \/ to \in {"succeeded", "returned"}
  PROVE  ClientInv'
  BY ClientAssumption
     DEF RequestGoes, ClientInv, ClientTypeOK, VerdictsAgree, AttemptsBounded, TestsAlone,
         verdictVars

LEMMA FailsKeepsClientInv ==
  ASSUME ClientInv, NEW r \in ApiCalls, Fails(r)
  PROVE  ClientInv'
<1>1. request[r] = "operating" /\ attempt[r] \in 0 .. MaxRetries
  BY ClientAssumption DEF Fails, RequestGoes, ClientInv, ClientTypeOK, AttemptsBounded
<1>2. /\ attempt' = [attempt EXCEPT ![r] = attempt[r] + 1]
      /\ attempt' \in [ApiCalls -> 0 .. MaxRetries + 1]
  BY <1>1, ClientAssumption DEF Fails, ClientInv, ClientTypeOK
<1>3. \/ request' = [request EXCEPT ![r] = "returned"]
      \/ attempt[r] < MaxRetries /\ request' = [request EXCEPT ![r] = "delayed"]
      \/ attempt[r] = MaxRetries /\ request' = [request EXCEPT ![r] = "failed"]
  BY <1>1, ClientAssumption DEF Fails, RequestGoes
<1>4. AttemptsBounded'
  BY <1>1, <1>2, <1>3, ClientAssumption DEF AttemptsBounded, ClientInv, ClientTypeOK
<1>5. UNCHANGED <<locked, connected, lastError, retryCount, tester>>
  BY DEF Fails, verdictVars
<1> QED
  BY <1>2, <1>3, <1>4, <1>5 DEF ClientInv, ClientTypeOK, VerdictsAgree, TestsAlone

LEMMA VerdictKeepsClientInv ==
  ASSUME ClientInv, NEW r \in ApiCalls, RecordSuccess(r) \/ RecordFailure(r)
  PROVE  ClientInv'
<1>1. /\ connected' \in BOOLEAN /\ lastError' \in BOOLEAN
      /\ connected' => ~lastError'
      /\ UNCHANGED <<locked, attempt, tester>>
  BY Zenon DEF RecordSuccess, RecordFailure
<1>2. retryCount' \in 0 .. MaxRetryCount
  BY ClientAssumption DEF RecordSuccess, RecordFailure, ClientInv, ClientTypeOK
<1>3. VerdictsAgree'
  BY <1>1 DEF RecordSuccess, RecordFailure, VerdictsAgree
<1>4. \E from \in {"succeeded", "failed"} : RequestGoes(r, from, "returned")
  BY DEF RecordSuccess, RecordFailure
<1> QED
  BY <1>1, <1>2, <1>3, <1>4
     DEF RequestGoes, ClientInv, ClientTypeOK, AttemptsBounded, TestsAlone

LEMMA TestKeepsClientInv ==
  ASSUME ClientInv, NEW t \in Testers, TestLock(t) \/ TestConnection(t)
  PROVE  ClientInv'
<1>1. /\ tester' \in [Testers -> {"idle", "testing", "returned"}]
      /\ locked' <=> \E s \in Testers : tester'[s] = "testing"
      /\ TestsAlone'
  BY DEF TestLock, TestConnection, ClientInv, ClientTypeOK, TestsAlone
<1>2. connected' \in BOOLEAN /\ lastError' \in BOOLEAN
  BY Zenon DEF TestLock, TestConnection, ClientInv, ClientTypeOK, verdictVars
<1>3. retryCount' \in 0 .. MaxRetryCount
  BY ClientAssumption DEF TestLock, TestConnection, ClientInv, ClientTypeOK, verdictVars
<1>4. VerdictsAgree'
  BY DEF TestLock, TestConnection, ClientInv, VerdictsAgree, verdictVars
<1> QED
  BY <1>1, <1>2, <1>3, <1>4
     DEF TestLock, TestConnection, ClientInv, ClientTypeOK, AttemptsBounded, requestVars

LEMMA NextClientInv == ClientInv /\ [ClientNext]_clientVars => ClientInv'
<1> SUFFICES ASSUME ClientInv, [ClientNext]_clientVars PROVE ClientInv'
  OBVIOUS
<1>1. ASSUME NEW r \in ApiCalls, BeginRequest(r) \/ Limiter(r) \/ Succeeds(r) \/ Delayed(r)
      PROVE  ClientInv'
  BY <1>1, RequestMoves DEF BeginRequest, Limiter, Succeeds, Delayed
<1>2. ASSUME NEW r \in ApiCalls, CancelRequest(r) PROVE ClientInv'
  BY <1>2
     DEF CancelRequest, ClientInv, ClientTypeOK, VerdictsAgree, AttemptsBounded,
         TestsAlone, verdictVars
<1>3. ASSUME NEW r \in ApiCalls, RequestStep(r) PROVE ClientInv'
  BY <1>1, <1>3, FailsKeepsClientInv, VerdictKeepsClientInv DEF RequestStep
<1>4. CASE Close \/ ResetRetryCount
  <2>1. connected' \in BOOLEAN /\ lastError' \in BOOLEAN
    BY <1>4, Zenon DEF Close, ResetRetryCount, ClientInv, ClientTypeOK
  <2>2. retryCount' \in 0 .. MaxRetryCount
    BY <1>4, ClientAssumption DEF Close, ResetRetryCount, ClientInv, ClientTypeOK
  <2>3. VerdictsAgree'
    BY <1>4 DEF Close, ResetRetryCount, ClientInv, VerdictsAgree
  <2> QED
    BY <1>4, <2>1, <2>2, <2>3
       DEF Close, ResetRetryCount, ClientInv, ClientTypeOK, AttemptsBounded, TestsAlone,
           requestVars
<1>5. CASE UNCHANGED clientVars
  BY <1>5
     DEF clientVars, verdictVars, requestVars, ClientInv, ClientTypeOK, VerdictsAgree,
         AttemptsBounded, TestsAlone
<1> QED BY <1>1, <1>2, <1>3, <1>4, <1>5, TestKeepsClientInv DEF ClientNext

\* A client that says that it is connected has no last error and no failed
\* calls in a row, one that counts failed calls has the error of the last of
\* them, and a call is a failure only after RetryAttempts + 1 attempts: for any
\* number of calls and tests, whose assignments interleave.
THEOREM ClientAgrees == ClientSpec => [](ClientTypeOK /\ VerdictsAgree /\ AttemptsBounded)
<1>1. ClientInv => ClientTypeOK /\ VerdictsAgree /\ AttemptsBounded
  BY DEF ClientInv
<1> QED BY <1>1, InitClientInv, NextClientInv, PTL DEF ClientSpec
=============================================================================
