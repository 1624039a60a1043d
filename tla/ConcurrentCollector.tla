------------------------- MODULE ConcurrentCollector -------------------------
(***************************************************************************)
(* The ConcurrentCollector of internal/collector/concurrent.go. A call of  *)
(* CollectAll starts one goroutine per enabled collector, a call of        *)
(* CollectNow one in all. A goroutine takes one of MaxConcurrency slots,   *)
(* collects, sends its result, gives the slot back and leaves the wait     *)
(* group, which all calls share. A further goroutine of CollectAll waits   *)
(* for the group and closes the channel of results, on which the caller    *)
(* ranges. The buffers of the channels hold one result per sender, so that *)
(* no send waits.                                                          *)
(***************************************************************************)
EXTENDS Naturals, FiniteSets

CONSTANTS
  Collectors,      \* the collectors that are registered
  AllCalls,        \* calls of CollectAll, each made at most once
  NowCalls,        \* calls of CollectNow, each made at most once
  MaxConcurrency,  \* slots of the semaphore
  None

Calls == AllCalls \cup NowCalls
Jobs == Calls \X Collectors

ASSUME ConcurrencyAssumption ==
  /\ IsFiniteSet(Collectors) /\ IsFiniteSet(Calls)
  /\ AllCalls \cap NowCalls = {} /\ None \notin Calls
  /\ MaxConcurrency \in Nat \ {0}

VARIABLES
  call,      \* call[k]: where the caller is
  todo,      \* todo[k]: collectors that CollectAll has not looked at yet
  ctxDone,   \* ctxDone[k]: the context of the call is done
  job,       \* job[<<k, c>>]: where the goroutine of call k for c is
  slots,     \* taken slots of the semaphore
  wg,        \* goroutines the wait group counts: its counter is their number
  waiter,    \* waiter[k]: where the goroutine is that closes the channel
  chan,      \* chan[k]: results sent and not received, as the collector's name
  got,       \* got[k]: results that the caller has received
  results,   \* cc.results: the call that wrote the entry, or None
  panic      \* what ended the program, or "no"

callVars == <<call, todo, got, results>>
jobVars == <<job, slots, wg>>
ccVars == <<callVars, ctxDone, jobVars, waiter, chan, panic>>

CCInit ==
  /\ call = [k \in Calls |-> "idle"]
  /\ todo = [k \in Calls |-> {}]
  /\ ctxDone = [k \in Calls |-> FALSE]
  /\ job = [j \in Jobs |-> "none"]
  /\ slots = 0
  /\ wg = {}
  /\ waiter = [k \in AllCalls |-> "none"]
  /\ chan = [k \in Calls |-> {}]
  /\ got = [k \in Calls |-> {}]
  /\ results = [c \in Collectors |-> None]
  /\ panic = "no"

-----------------------------------------------------------------------------
(* The goroutine of a collector: collectFromCollector                      *)

At(j, place) == job[j] = place
Moves(j, place) == job' = [job EXCEPT ![j] = place]

\* resultChan <- result. A send on a closed channel ends the program. Whether
\* the result is an error is left out.
Send(j) ==
  IF j[1] \in AllCalls /\ waiter[j[1]] = "closed"
  THEN panic' = "send on closed channel" /\ UNCHANGED chan
  ELSE chan' = [chan EXCEPT ![j[1]] = @ \cup {j[2]}] /\ UNCHANGED panic

Acquire(j) ==
  /\ At(j, "waiting")
  /\ slots < MaxConcurrency
  /\ slots' = slots + 1
  /\ Moves(j, "collecting")
  /\ UNCHANGED <<callVars, ctxDone, wg, waiter, chan, panic>>

\* Mutation: the deferred release is registered before the select.
GiveUpReleases(j) ==
  /\ At(j, "waiting")
  /\ ctxDone[j[1]]
  /\ Send(j)
  /\ Moves(j, "sent")
  /\ UNCHANGED <<callVars, ctxDone, slots, wg, waiter>>

\* The context is done first: when a slot is free too, select takes either.
GiveUp(j) ==
  /\ At(j, "waiting")
  /\ ctxDone[j[1]]
  /\ Send(j)
  /\ Moves(j, "released")
  /\ UNCHANGED <<callVars, ctxDone, slots, wg, waiter>>

\* Collect returns, with an error or not, and its result is sent.
Finish(j) ==
  /\ At(j, "collecting")
  /\ Send(j)
  /\ Moves(j, "sent")
  /\ UNCHANGED <<callVars, ctxDone, slots, wg, waiter>>

\* Mutation: the slot is not given back.
ReleaseNothing(j) ==
  /\ At(j, "sent")
  /\ Moves(j, "released")
  /\ UNCHANGED <<callVars, ctxDone, slots, wg, waiter, chan, panic>>

\* The deferred calls, last registered first.
Release(j) ==
  /\ At(j, "sent")
  /\ slots > 0
  /\ slots' = slots - 1
  /\ Moves(j, "released")
  /\ UNCHANGED <<callVars, ctxDone, wg, waiter, chan, panic>>

\* wg.Done wakes the waiters when the counter reaches zero.
Done(j) ==
  /\ At(j, "released")
  /\ wg' = wg \ {j}
  /\ waiter' = [k \in AllCalls |->
                  IF waiter[k] = "parked" /\ wg' = {} THEN "woken" ELSE waiter[k]]
  /\ Moves(j, "done")
  /\ UNCHANGED <<callVars, ctxDone, slots, chan, panic>>

Work(j) == Acquire(j) \/ GiveUp(j) \/ Finish(j) \/ Release(j) \/ Done(j)

\* Mutation: the goroutine is started without wg.Add(1).
SpawnUncounted(j) ==
  /\ wg' = wg
  /\ Moves(j, "waiting")

\* wg.Add(1) and the go statement.
Spawn(j) ==
  /\ wg' = wg \cup {j}
  /\ Moves(j, "waiting")

-----------------------------------------------------------------------------
(* CollectAll                                                              *)

Advance(k, from, to) ==
  /\ call[k] = from
  /\ call' = [call EXCEPT ![k] = to]

BeginAll(k) ==
  /\ Advance(k, "idle", "starting")
  /\ todo' = [todo EXCEPT ![k] = Collectors]
  /\ results' = [c \in Collectors |-> None]
  /\ UNCHANGED <<got, ctxDone, jobVars, waiter, chan, panic>>

\* IsEnabled may answer either: collectors are enabled and disabled meanwhile.
StartOrSkip(k, c) ==
  /\ call[k] = "starting"
  /\ c \in todo[k]
  /\ todo' = [todo EXCEPT ![k] = @ \ {c}]
  /\ \/ Spawn(<<k, c>>)
     \/ UNCHANGED <<wg, job>>
  /\ UNCHANGED <<call, got, results, ctxDone, slots, waiter, chan, panic>>

StartWaiter(k) ==
  /\ todo[k] = {}
  /\ Advance(k, "starting", "receiving")
  /\ waiter' = [waiter EXCEPT ![k] = "new"]
  /\ UNCHANGED <<todo, got, results, ctxDone, jobVars, chan, panic>>

\* Mutation: the channel is closed without waiting.
WaitNot(k) ==
  /\ waiter[k] = "new"
  /\ waiter' = [waiter EXCEPT ![k] = "closed"]
  /\ UNCHANGED <<callVars, ctxDone, jobVars, chan, panic>>

\* wg.Wait: returns when the counter is zero, and otherwise parks.
Wait(k) ==
  /\ waiter[k] = "new"
  /\ waiter' = [waiter EXCEPT ![k] = IF wg = {} THEN "closed" ELSE "parked"]
  /\ UNCHANGED <<callVars, ctxDone, jobVars, chan, panic>>

\* A waiter that finds the group in use again panics, as sync.WaitGroup does.
WakeUp(k) ==
  /\ waiter[k] = "woken"
  /\ IF wg = {}
     THEN waiter' = [waiter EXCEPT ![k] = "closed"] /\ UNCHANGED panic
     ELSE panic' = "wait group reused" /\ UNCHANGED waiter
  /\ UNCHANGED <<callVars, ctxDone, jobVars, chan>>

Receive(k) ==
  /\ call[k] = "receiving"
  /\ \E c \in chan[k] :
       /\ chan' = [chan EXCEPT ![k] = @ \ {c}]
       /\ got' = [got EXCEPT ![k] = @ \cup {c}]
       /\ results' = [results EXCEPT ![c] = k]
  /\ UNCHANGED <<call, todo, ctxDone, jobVars, waiter, panic>>

ReturnAll(k) ==
  /\ chan[k] = {}
  /\ waiter[k] = "closed"
  /\ Advance(k, "receiving", "returned")
  /\ UNCHANGED <<todo, got, results, ctxDone, jobVars, waiter, chan, panic>>

CollectAll(k) ==
  \/ \E c \in Collectors : StartOrSkip(k, c)
  \/ StartWaiter(k) \/ Wait(k) \/ WakeUp(k) \/ Receive(k) \/ ReturnAll(k)

-----------------------------------------------------------------------------
(* CollectNow of the orchestrator, on the same slots and wait group        *)

BeginNow(k, c) ==
  /\ \/ Advance(k, "idle", "receiving") /\ Spawn(<<k, c>>)
     \/ Advance(k, "idle", "refused") /\ UNCHANGED <<wg, job>>
  /\ UNCHANGED <<todo, got, results, ctxDone, slots, waiter, chan, panic>>

\* The caller receives its one result. The deferred cancel comes too late to
\* matter: the goroutine has sent.
ReturnNow(k) ==
  /\ chan[k] # {}
  /\ Advance(k, "receiving", "returned")
  /\ got' = [got EXCEPT ![k] = chan[k]]
  /\ chan' = [chan EXCEPT ![k] = {}]
  /\ UNCHANGED <<todo, results, ctxDone, jobVars, waiter, panic>>

-----------------------------------------------------------------------------
(* The contexts of the calls                                               *)

\* The deadline of the call passes or its caller cancels it. Only a goroutine
\* that waits for a slot looks at the context here.
CtxDone(k) ==
  /\ \E c \in Collectors : At(<<k, c>>, "waiting")
  /\ ~ctxDone[k]
  /\ ctxDone' = [ctxDone EXCEPT ![k] = TRUE]
  /\ UNCHANGED <<callVars, jobVars, waiter, chan, panic>>

Goroutines ==
  \/ \E j \in Jobs : Work(j)
  \/ \E k \in AllCalls : CollectAll(k)
  \/ \E k \in NowCalls : ReturnNow(k)

CCNext ==
  /\ panic = "no"
  /\ \/ Goroutines
     \/ \E k \in AllCalls : BeginAll(k)
     \/ \E k \in NowCalls, c \in Collectors : BeginNow(k, c)
     \/ \E k \in Calls : CtxDone(k)

\* Go goes on as long as a goroutine can run; every call takes finitely many
\* steps, so that nothing more is needed. That Collect returns is what the
\* timeouts of the SLURM calls ensure. Nobody has to make a call, and no
\* context has to end.
CCFairness == WF_ccVars(panic = "no" /\ Goroutines)

CCSpec == CCInit /\ [][CCNext]_ccVars /\ CCFairness

-----------------------------------------------------------------------------
(* Properties                                                              *)

JobPlaces == {"none", "waiting", "collecting", "sent", "released", "done"}

CCTypeOK ==
  /\ call \in [Calls -> {"idle", "starting", "receiving", "returned", "refused"}]
  /\ todo \in [Calls -> SUBSET Collectors]
  /\ ctxDone \in [Calls -> BOOLEAN]
  /\ job \in [Jobs -> JobPlaces]
  /\ slots \in Nat
  /\ wg \in SUBSET Jobs
  /\ waiter \in [AllCalls -> {"none", "new", "parked", "woken", "closed"}]
  /\ chan \in [Calls -> SUBSET Collectors]
  /\ got \in [Calls -> SUBSET Collectors]
  /\ results \in [Collectors -> AllCalls \cup {None}]
  /\ panic \in {"no", "send on closed channel", "wait group reused"}

Holders == {j \in Jobs : job[j] \in {"collecting", "sent"}}

\* The semaphore counts the goroutines that hold a slot, however they came to
\* give up or end, so that no more than MaxConcurrency collections of the
\* calls run at any moment; the state is well formed.
SlotsAccounted ==
  /\ CCTypeOK
  /\ slots = Cardinality(Holders)
  /\ slots <= MaxConcurrency

Started(k) == {c \in Collectors : job[<<k, c>>] # "none"}

\* A call that has returned has the result of every collection it started,
\* whatever other calls did with the wait group. If no other CollectAll was
\* made, GetLastResults has the same.
ResultsComplete ==
  /\ \A k \in Calls : call[k] = "returned" => got[k] = Started(k)
  /\ \A k \in AllCalls :
       call[k] = "returned" /\ (\A m \in AllCalls \ {k} : call[m] = "idle")
         => {c \in Collectors : results[c] = k} = Started(k)

\* No goroutine ever sends on the channel that the waiter has closed. What can
\* end the program is a call begun while another one's waiter is waking up.
PanicOnlyByReuse ==
  panic # "no" =>
    /\ panic = "wait group reused"
    /\ \E k \in AllCalls, j \in wg : waiter[k] = "woken" /\ j[1] # k

\* A call that has begun returns: no slot is lost, no waiter is forgotten.
CallsReturn ==
  \A k \in Calls :
    call[k] \in {"starting", "receiving"} ~> (call[k] = "returned" \/ panic # "no")
=============================================================================
