--------------------------- MODULE CollectingProofs ---------------------------
(***************************************************************************)
(* What runs around a collection. ConcurrentCollector, for any number of   *)
(* calls, collectors and slots: the semaphore is exact, calls return       *)
(* complete results, and a panic comes from the reuse of the wait group    *)
(* only. The argument: the wait group counts the goroutines that are       *)
(* active; a waiter that has left it saw none, its call starts no more, so *)
(* none of them can find the channel closed. Orchestrator, for any number  *)
(* of collectors and of calls of Start: no timer goroutine waits for a     *)
(* timer that nobody has stopped and that will not fire. CollectPipe, for  *)
(* any capacity and any number of metrics: the wrappers of a collector     *)
(* lose none.                                                              *)
(***************************************************************************)
EXTENDS ConcurrentCollector, Orchestrator, CollectPipe, FiniteSetTheorems, TLAPS

Active(j) == job[j] \notin {"none", "done"}
HasSent(k) == {c \in Collectors : job[<<k, c>>] \in {"sent", "released", "done"}}

GroupCounts == wg = {j \in Jobs : Active(j)}

SlotsCounted == slots = Cardinality(Holders) /\ slots <= MaxConcurrency

\* Goroutines are started once, by a CollectAll that has not its waiter yet.
StartedOnce ==
  \A k \in AllCalls :
    /\ call[k] = "idle" => Started(k) = {}
    /\ call[k] = "starting" => todo[k] \cap Started(k) = {}
    /\ waiter[k] # "none" => call[k] \in {"receiving", "returned"}

WaitersSawNone ==
  \A k \in AllCalls, c \in Collectors :
    waiter[k] \in {"woken", "closed"} => ~Active(<<k, c>>)

\* What was sent is in the channel or has been received.
ResultsKept ==
  /\ \A k \in Calls : chan[k] \cup got[k] = HasSent(k)
  /\ \A k \in AllCalls : call[k] = "returned" => waiter[k] = "closed" /\ chan[k] = {}

\* A CollectNow has at most one goroutine.
OneForNow ==
  \A k \in NowCalls :
    /\ call[k] \in {"idle", "receiving"} => got[k] = {}
    /\ call[k] \in {"idle", "refused"} => Started(k) = {}
    /\ call[k] = "receiving" => \E c \in Collectors : Started(k) = {c}
    /\ call[k] = "returned" => got[k] = Started(k)

LastResultsKept ==
  \A k \in AllCalls :
    call[k] # "idle" /\ (\A m \in AllCalls \ {k} : call[m] = "idle")
      => {c \in Collectors : results[c] = k} = got[k]

CCInv ==
  /\ CCTypeOK /\ GroupCounts /\ SlotsCounted /\ StartedOnce /\ WaitersSawNone
  /\ ResultsKept /\ OneForNow /\ LastResultsKept /\ PanicOnlyByReuse

USE ConcurrencyAssumption

LEMMA JobFacts ==
  /\ \A k \in Calls, c \in Collectors :
       <<k, c>> \in Jobs /\ <<k, c>>[1] = k /\ <<k, c>>[2] = c
  /\ \A j \in Jobs : j[1] \in Calls /\ j[2] \in Collectors /\ j = <<j[1], j[2]>>
  BY DEF Jobs

LEMMA HoldersFinite == IsFiniteSet(Holders)
<1>1. IsFiniteSet(Jobs)
  BY FS_Product DEF Jobs
<1>2. Holders \subseteq Jobs
  BY DEF Holders
<1> QED BY <1>1, <1>2, FS_Subset

LEMMA InitCCInv == CCInit => CCInv
<1> SUFFICES ASSUME CCInit PROVE CCInv
  OBVIOUS
<1> USE DEF CCInit
<1>1. CCTypeOK
  BY DEF CCTypeOK, JobPlaces
<1>2. GroupCounts /\ StartedOnce /\ WaitersSawNone /\ PanicOnlyByReuse
  BY JobFacts DEF GroupCounts, Active, StartedOnce, Started, WaitersSawNone,
                  PanicOnlyByReuse, Calls
<1>3. SlotsCounted
  <2>1. Holders = {}
    BY DEF Holders
  <2> QED BY <2>1, FS_EmptySet DEF SlotsCounted
<1>4. ResultsKept /\ OneForNow /\ LastResultsKept
  BY JobFacts DEF ResultsKept, HasSent, OneForNow, Started, LastResultsKept, Calls
<1> QED BY <1>1, <1>2, <1>3, <1>4 DEF CCInv

-----------------------------------------------------------------------------
(* The steps of the goroutine of a collector                               *)

\* The other goroutines stay where they are.
Moved(j, from, to) ==
  /\ job[j] = from /\ job'[j] = to
  /\ \A i \in Jobs \ {j} : job'[i] = job[i]
  /\ job' \in [Jobs -> JobPlaces]

LEMMA MoveFacts ==
  ASSUME CCTypeOK, NEW j \in Jobs, NEW from, NEW to \in JobPlaces,
         At(j, from), Moves(j, to)
  PROVE  Moved(j, from, to)
  BY DEF CCTypeOK, At, Moves, Moved

\* A step that moves a goroutine between active places that have not sent, or
\* have, and changes nothing but the slots.
LEMMA QuietMove ==
  ASSUME CCInv, NEW j \in Jobs, NEW from \in JobPlaces, NEW to \in JobPlaces,
         Moved(j, from, to), {from, to} \cap {"none", "done"} = {},
         from \in {"sent", "released"} <=> to \in {"sent", "released"},
         UNCHANGED <<callVars, ctxDone, wg, waiter, chan, panic>>
  PROVE  /\ GroupCounts' /\ StartedOnce' /\ WaitersSawNone' /\ ResultsKept'
         /\ OneForNow' /\ LastResultsKept' /\ PanicOnlyByReuse'
<1> USE DEF CCInv, callVars
<1>1. ASSUME NEW k \in Calls PROVE Started(k)' = Started(k) /\ HasSent(k)' = HasSent(k)
  <2>1. ASSUME NEW c \in Collectors
        PROVE  /\ job'[<<k, c>>] # "none" <=> job[<<k, c>>] # "none"
               /\ job'[<<k, c>>] \in {"sent", "released", "done"} <=>
                    job[<<k, c>>] \in {"sent", "released", "done"}
    BY JobFacts DEF Moved
  <2> QED BY <2>1 DEF Started, HasSent
<1>2. \A i \in Jobs : Active(i)' <=> Active(i)
  BY DEF Moved, Active
<1>3. GroupCounts' /\ PanicOnlyByReuse'
  BY <1>2 DEF GroupCounts, PanicOnlyByReuse
<1>4. WaitersSawNone'
  BY <1>2, JobFacts DEF WaitersSawNone, Calls
<1>5. StartedOnce' /\ ResultsKept' /\ OneForNow' /\ LastResultsKept'
  BY <1>1 DEF StartedOnce, ResultsKept, OneForNow, LastResultsKept, Calls
<1> QED BY <1>3, <1>4, <1>5

LEMMA AcquireStep ==
  ASSUME CCInv, NEW j \in Jobs, Acquire(j) PROVE CCInv'
<1> USE DEF Acquire
<1>1. Moved(j, "waiting", "collecting")
  BY MoveFacts DEF CCInv, JobPlaces
<1>2. CCTypeOK'
  <2>1. slots \in Nat
    BY DEF CCInv, CCTypeOK
  <2>3. slots' \in Nat
    BY <2>1
  <2>2. job' \in [Jobs -> JobPlaces]
    BY <1>1 DEF Moved
  <2> QED BY <2>2, <2>3 DEF CCInv, CCTypeOK, callVars
<1>3. SlotsCounted'
  <2>1. Holders' = Holders \cup {j} /\ j \notin Holders
    BY <1>1 DEF Holders, Moved
  <2>2. Cardinality(Holders') = Cardinality(Holders) + 1
    BY <2>1, HoldersFinite, FS_AddElement
  <2>3. slots \in Nat /\ slots = Cardinality(Holders) /\ slots <= MaxConcurrency
    BY DEF CCInv, CCTypeOK, SlotsCounted
  <2> QED BY <2>2, <2>3 DEF SlotsCounted
<1> QED BY <1>1, <1>2, <1>3, QuietMove DEF CCInv, JobPlaces

LEMMA ReleaseStep ==
  ASSUME CCInv, NEW j \in Jobs, Release(j) PROVE CCInv'
<1> USE DEF Release
<1>1. Moved(j, "sent", "released")
  BY MoveFacts DEF CCInv, JobPlaces
<1>2. CCTypeOK'
  <2>1. slots \in Nat
    BY DEF CCInv, CCTypeOK
  <2>3. slots' \in Nat
    BY <2>1
  <2>2. job' \in [Jobs -> JobPlaces]
    BY <1>1 DEF Moved
  <2> QED BY <2>2, <2>3 DEF CCInv, CCTypeOK, callVars
<1>3. SlotsCounted'
  <2>1. Holders' = Holders \ {j} /\ j \in Holders
    BY <1>1 DEF Holders, Moved
  <2>2. Cardinality(Holders') = Cardinality(Holders) - 1
    BY <2>1, HoldersFinite, FS_RemoveElement
  <2>3. slots \in Nat /\ slots = Cardinality(Holders) /\ slots <= MaxConcurrency
    BY DEF CCInv, CCTypeOK, SlotsCounted
  <2> QED BY <2>2, <2>3 DEF SlotsCounted
<1> QED BY <1>1, <1>2, <1>3, QuietMove DEF CCInv, JobPlaces

\* A goroutine that sends is active, so that the channel is still open.
LEMMA SendMove ==
  ASSUME CCInv, NEW j \in Jobs, NEW from \in {"waiting", "collecting"},
         NEW to \in {"sent", "released"},
         Moved(j, from, to), Send(j), UNCHANGED <<callVars, ctxDone, wg, waiter>>
  PROVE  /\ chan' \in [Calls -> SUBSET Collectors] /\ panic' = panic
         /\ GroupCounts' /\ StartedOnce' /\ WaitersSawNone' /\ ResultsKept'
         /\ OneForNow' /\ LastResultsKept' /\ PanicOnlyByReuse'
<1> USE DEF CCInv, callVars
<1>1. Active(j) /\ j[1] \in Calls /\ j[2] \in Collectors /\ j = <<j[1], j[2]>>
  BY JobFacts DEF Moved, Active
<1>2. j[1] \in AllCalls => waiter[j[1]] # "closed"
  BY <1>1 DEF WaitersSawNone
<1>3. chan' = [chan EXCEPT ![j[1]] = @ \cup {j[2]}] /\ panic' = panic
  BY <1>2 DEF Send
<1>4. /\ chan'[j[1]] = chan[j[1]] \cup {j[2]}
      /\ \A k \in Calls : k # j[1] => chan'[k] = chan[k]
      /\ chan' \in [Calls -> SUBSET Collectors]
  BY <1>1, <1>3 DEF CCTypeOK
<1>5. \A i \in Jobs : Active(i)' <=> Active(i)
  BY DEF Moved, Active
<1>6. GroupCounts' /\ PanicOnlyByReuse'
  BY <1>3, <1>5 DEF GroupCounts, PanicOnlyByReuse
<1>7. WaitersSawNone'
  BY <1>5, JobFacts DEF WaitersSawNone, Calls
<1>8. ASSUME NEW k \in Calls PROVE Started(k)' = Started(k)
  <2>1. \A c \in Collectors : job'[<<k, c>>] # "none" <=> job[<<k, c>>] # "none"
    BY JobFacts DEF Moved
  <2> QED BY <2>1 DEF Started
<1>9. StartedOnce' /\ OneForNow' /\ LastResultsKept'
  BY <1>8 DEF StartedOnce, OneForNow, LastResultsKept, Calls
<1>10. ResultsKept'
  <2>1. HasSent(j[1])' = HasSent(j[1]) \cup {j[2]}
    <3>1. /\ job'[<<j[1], j[2]>>] \in {"sent", "released", "done"}
          /\ \A c \in Collectors : c # j[2] => job'[<<j[1], c>>] = job[<<j[1], c>>]
      BY <1>1, JobFacts DEF Moved
    <3> QED BY <1>1, <3>1 DEF HasSent
  <2>2. ASSUME NEW k \in Calls, k # j[1] PROVE HasSent(k)' = HasSent(k)
    <3>1. \A c \in Collectors : job'[<<k, c>>] = job[<<k, c>>]
      BY <2>2, JobFacts DEF Moved
    <3> QED BY <3>1 DEF HasSent
  <2>3. \A k \in Calls : chan'[k] \cup got[k] = HasSent(k)'
    BY <1>1, <1>4, <2>1, <2>2 DEF ResultsKept
  <2>4. ASSUME NEW k \in AllCalls, call[k] = "returned"
        PROVE  waiter[k] = "closed" /\ chan'[k] = {}
    BY <1>2, <1>4, <2>4 DEF ResultsKept, Calls
  <2> QED BY <2>3, <2>4 DEF ResultsKept
<1> QED BY <1>3, <1>4, <1>6, <1>7, <1>9, <1>10

LEMMA GiveUpStep ==
  ASSUME CCInv, NEW j \in Jobs, GiveUp(j) PROVE CCInv'
<1> USE DEF GiveUp
<1>1. Moved(j, "waiting", "released")
  BY MoveFacts DEF CCInv, JobPlaces
<1>2. Holders' = Holders
  BY <1>1 DEF Holders, Moved
<1>3. CCTypeOK'
  <2>1. job' \in [Jobs -> JobPlaces]
    BY <1>1 DEF Moved
  <2>2. chan' \in [Calls -> SUBSET Collectors] /\ panic' = panic
    BY <1>1, SendMove
  <2> QED BY <2>1, <2>2 DEF CCInv, CCTypeOK, callVars
<1>4. SlotsCounted'
  BY <1>2 DEF CCInv, SlotsCounted
<1> QED BY <1>1, <1>3, <1>4, SendMove DEF CCInv

LEMMA FinishStep ==
  ASSUME CCInv, NEW j \in Jobs, Finish(j) PROVE CCInv'
<1> USE DEF Finish
<1>1. Moved(j, "collecting", "sent")
  BY MoveFacts DEF CCInv, JobPlaces
<1>2. Holders' = Holders
  BY <1>1 DEF Holders, Moved
<1>3. CCTypeOK'
  <2>1. job' \in [Jobs -> JobPlaces]
    BY <1>1 DEF Moved
  <2>2. chan' \in [Calls -> SUBSET Collectors] /\ panic' = panic
    BY <1>1, SendMove
  <2> QED BY <2>1, <2>2 DEF CCInv, CCTypeOK, callVars
<1>4. SlotsCounted'
  BY <1>2 DEF CCInv, SlotsCounted
<1> QED BY <1>1, <1>3, <1>4, SendMove DEF CCInv

\* Waiters are woken only when no goroutine of any call is left.
LEMMA DoneStep ==
  ASSUME CCInv, NEW j \in Jobs, panic = "no", Done(j) PROVE CCInv'
<1> USE DEF Done, callVars
<1>1. Moved(j, "released", "done")
  BY MoveFacts DEF CCInv, JobPlaces
<1>2. Holders' = Holders
  BY <1>1 DEF Holders, Moved
<1>3. CCTypeOK'
  <2>1. job' \in [Jobs -> JobPlaces]
    BY <1>1 DEF Moved
  <2>2. waiter' \in [AllCalls -> {"none", "new", "parked", "woken", "closed"}]
    BY DEF CCInv, CCTypeOK
  <2>3. wg' \in SUBSET Jobs
    BY DEF CCInv, CCTypeOK
  <2> QED BY <2>1, <2>2, <2>3 DEF CCInv, CCTypeOK
<1>4. SlotsCounted'
  BY <1>2 DEF CCInv, SlotsCounted
<1>5. \A i \in Jobs : Active(i)' <=> Active(i) /\ i # j
  BY <1>1 DEF Moved, Active
<1>6. GroupCounts'
  BY <1>5 DEF CCInv, GroupCounts
<1>7. WaitersSawNone'
  <2> SUFFICES ASSUME NEW k \in AllCalls, NEW c \in Collectors,
                      waiter'[k] \in {"woken", "closed"}
               PROVE  ~Active(<<k, c>>)'
    BY DEF WaitersSawNone
  <2>1. <<k, c>> \in Jobs
    BY JobFacts DEF Calls
  <2>2. CASE waiter[k] \in {"woken", "closed"}
    BY <1>5, <2>1, <2>2 DEF CCInv, WaitersSawNone
  <2>3. CASE wg' = {}
    BY <1>6, <2>1, <2>3 DEF GroupCounts
  <2> QED BY <2>2, <2>3
<1>8. ASSUME NEW k \in Calls PROVE Started(k)' = Started(k) /\ HasSent(k)' = HasSent(k)
  <2>1. ASSUME NEW c \in Collectors
        PROVE  /\ job'[<<k, c>>] # "none" <=> job[<<k, c>>] # "none"
               /\ job'[<<k, c>>] \in {"sent", "released", "done"} <=>
                    job[<<k, c>>] \in {"sent", "released", "done"}
    BY <1>1, JobFacts DEF Moved
  <2> QED BY <2>1 DEF Started, HasSent
<1>9. \A k \in AllCalls : /\ waiter'[k] = "none" <=> waiter[k] = "none"
                          /\ waiter[k] = "closed" => waiter'[k] = "closed"
  OBVIOUS
<1>10. StartedOnce' /\ OneForNow' /\ LastResultsKept'
  BY <1>8, <1>9 DEF CCInv, StartedOnce, OneForNow, LastResultsKept, Calls
<1>11. ResultsKept'
  BY <1>8, <1>9 DEF CCInv, ResultsKept, Calls
<1>12. PanicOnlyByReuse'
  BY DEF PanicOnlyByReuse
<1> QED BY <1>3, <1>4, <1>6, <1>7, <1>10, <1>11, <1>12 DEF CCInv

-----------------------------------------------------------------------------
(* The steps of the callers                                                *)

LEMMA SpawnFacts ==
  ASSUME CCInv, NEW k \in Calls, NEW c \in Collectors, c \notin Started(k),
         Spawn(<<k, c>>)
  PROVE  /\ job' \in [Jobs -> JobPlaces] /\ wg' \in SUBSET Jobs
         /\ Holders' = Holders /\ GroupCounts'
         /\ \A i \in Jobs : Active(i)' => Active(i) \/ i = <<k, c>>
         /\ Started(k)' = Started(k) \cup {c}
         /\ \A m \in Calls : /\ HasSent(m)' = HasSent(m)
                             /\ m # k => Started(m)' = Started(m)
<1> DEFINE j == <<k, c>>
<1>1. j \in Jobs
  BY JobFacts
<1>2. Moved(j, "none", "waiting")
  <2>1. At(j, "none")
    BY DEF Started, At
  <2> QED BY <1>1, <2>1, MoveFacts DEF Spawn, CCInv, JobPlaces
<1> HIDE DEF j
<1>3. job' \in [Jobs -> JobPlaces] /\ Holders' = Holders
  BY <1>2 DEF Moved, Holders
<1>4. wg' = wg \cup {j}
  BY DEF Spawn, j
<1>5. \A i \in Jobs : Active(i)' <=> Active(i) \/ i = j
  BY <1>2 DEF Moved, Active
<1>6. GroupCounts' /\ wg' \in SUBSET Jobs
  <2>1. wg = {i \in Jobs : Active(i)}
    BY DEF CCInv, GroupCounts
  <2> QED BY <1>1, <1>4, <1>5, <2>1 DEF GroupCounts
<1>7. \A m \in Calls, d \in Collectors :
        /\ <<m, d>> \in Jobs /\ <<m, d>> = j <=> m = k /\ d = c
        /\ <<m, d>> # j => job'[<<m, d>>] = job[<<m, d>>]
  BY <1>2, JobFacts DEF Moved, j
<1>8. job[j] = "none" /\ job'[j] = "waiting"
  BY <1>2 DEF Moved
<1>9. \A m \in Calls : HasSent(m)' = HasSent(m)
  BY <1>7, <1>8 DEF HasSent
<1>10. Started(k)' = Started(k) \cup {c}
  BY <1>7, <1>8 DEF Started
<1>11. \A m \in Calls : m # k => Started(m)' = Started(m)
  BY <1>7, <1>8 DEF Started
<1> QED BY <1>3, <1>5, <1>6, <1>9, <1>10, <1>11 DEF j

LEMMA BeginAllStep ==
  ASSUME CCInv, panic = "no", NEW k \in AllCalls, BeginAll(k) PROVE CCInv'
<1> USE DEF BeginAll, Advance, jobVars, CCInv
<1>1. CCTypeOK'
  <2>1. /\ call' \in [Calls -> {"idle", "starting", "receiving", "returned", "refused"}]
        /\ todo' \in [Calls -> SUBSET Collectors]
    BY DEF CCTypeOK
  <2>2. results' \in [Collectors -> AllCalls \cup {None}]
    OBVIOUS
  <2> QED BY <2>1, <2>2 DEF CCTypeOK
<1>2. GroupCounts' /\ WaitersSawNone' /\ SlotsCounted' /\ PanicOnlyByReuse'
  BY DEF GroupCounts, Active, WaitersSawNone, SlotsCounted, Holders, PanicOnlyByReuse
<1>3. /\ call[k] = "idle" /\ call'[k] = "starting" /\ k \in Calls
      /\ \A m \in Calls : m # k => call'[m] = call[m] /\ todo'[m] = todo[m]
      /\ \A m \in Calls : Started(m)' = Started(m) /\ HasSent(m)' = HasSent(m)
  BY DEF CCTypeOK, Calls, Started, HasSent
<1>4. Started(k) = {} /\ HasSent(k) = {}
  BY <1>3 DEF StartedOnce, Started, HasSent
<1>5. StartedOnce'
  BY <1>3, <1>4 DEF StartedOnce, Calls
<1>6. ResultsKept' /\ OneForNow'
  BY <1>3 DEF ResultsKept, OneForNow, Calls
<1>7. LastResultsKept'
  <2> SUFFICES ASSUME NEW m \in AllCalls, call'[m] # "idle",
                      \A n \in AllCalls \ {m} : call'[n] = "idle"
               PROVE  {c \in Collectors : results'[c] = m} = got[m]
    BY DEF LastResultsKept
  <2>1. m = k
    BY <1>3
  <2>2. got[k] = {}
    BY <1>3, <1>4 DEF ResultsKept
  <2>3. \A c \in Collectors : results'[c] # k
    BY <1>3
  <2> QED BY <2>1, <2>2, <2>3
<1> QED BY <1>1, <1>2, <1>5, <1>6, <1>7

LEMMA StartOrSkipStep ==
  ASSUME CCInv, panic = "no", NEW k \in AllCalls, NEW c \in Collectors, StartOrSkip(k, c)
  PROVE  CCInv'
<1> USE DEF StartOrSkip, CCInv
<1>1. /\ k \in Calls /\ call[k] = "starting" /\ c \in todo[k] /\ c \notin Started(k)
      /\ todo' \in [Calls -> SUBSET Collectors] /\ todo'[k] = todo[k] \ {c}
      /\ \A m \in Calls : m # k => todo'[m] = todo[m]
  BY DEF CCTypeOK, Calls, StartedOnce
<1>2. PanicOnlyByReuse'
  BY DEF PanicOnlyByReuse
<1>3. CASE Spawn(<<k, c>>)
  <2>1. CCTypeOK'
    BY <1>1, <1>3, SpawnFacts DEF CCTypeOK
  <2>2. GroupCounts' /\ SlotsCounted'
    BY <1>1, <1>3, SpawnFacts DEF SlotsCounted
  <2>3. waiter[k] = "none"
    BY <1>1 DEF StartedOnce, CCTypeOK
  <2>4. WaitersSawNone'
    <3> SUFFICES ASSUME NEW m \in AllCalls, NEW d \in Collectors,
                        waiter[m] \in {"woken", "closed"}
                 PROVE  ~Active(<<m, d>>)'
      BY DEF WaitersSawNone
    <3>1. m # k /\ <<m, d>> \in Jobs /\ <<m, d>> # <<k, c>>
      BY <2>3, JobFacts DEF Calls
    <3> QED BY <1>1, <1>3, <3>1, SpawnFacts DEF WaitersSawNone
  <2>5. StartedOnce'
    BY <1>1, <1>3, <2>3, SpawnFacts DEF StartedOnce, Calls
  <2>6. ResultsKept' /\ LastResultsKept'
    BY <1>1, <1>3, SpawnFacts DEF ResultsKept, LastResultsKept, Calls
  <2>7. OneForNow'
    BY <1>1, <1>3, SpawnFacts DEF OneForNow, Calls
  <2> QED BY <1>2, <2>1, <2>2, <2>4, <2>5, <2>6, <2>7
<1>4. CASE UNCHANGED <<wg, job>>
  <2>1. CCTypeOK'
    BY <1>1, <1>4 DEF CCTypeOK
  <2>2. GroupCounts' /\ WaitersSawNone' /\ SlotsCounted'
    BY <1>4 DEF GroupCounts, Active, WaitersSawNone, SlotsCounted, Holders
  <2>3. \A m \in Calls : Started(m)' = Started(m) /\ HasSent(m)' = HasSent(m)
    BY <1>4 DEF Started, HasSent
  <2>4. StartedOnce' /\ ResultsKept' /\ OneForNow' /\ LastResultsKept'
    BY <1>1, <2>3 DEF StartedOnce, ResultsKept, OneForNow, LastResultsKept, Calls
  <2> QED BY <1>2, <2>1, <2>2, <2>4
<1> QED BY <1>3, <1>4

\* Steps that start no goroutine and move none.
LEMMA JobsStay ==
  ASSUME CCInv, UNCHANGED <<job, slots, wg>>
  PROVE  /\ GroupCounts' /\ SlotsCounted'
         /\ \A m \in Calls : Started(m)' = Started(m) /\ HasSent(m)' = HasSent(m)
         /\ \A i \in Jobs : Active(i)' <=> Active(i)
  BY DEF CCInv, GroupCounts, SlotsCounted, Active, Holders, Started, HasSent

LEMMA StartWaiterStep ==
  ASSUME CCInv, panic = "no", NEW k \in AllCalls, StartWaiter(k) PROVE CCInv'
<1> USE DEF StartWaiter, Advance, jobVars, CCInv
<1>1. /\ k \in Calls /\ call[k] = "starting" /\ call'[k] = "receiving"
      /\ \A m \in Calls : m # k => call'[m] = call[m]
      /\ call' \in [Calls -> {"idle", "starting", "receiving", "returned", "refused"}]
      /\ waiter'[k] = "new" /\ \A m \in AllCalls : m # k => waiter'[m] = waiter[m]
      /\ waiter' \in [AllCalls -> {"none", "new", "parked", "woken", "closed"}]
  BY DEF CCTypeOK, Calls
<1>2. CCTypeOK'
  BY <1>1 DEF CCTypeOK
<1>3. WaitersSawNone'
  BY <1>1 DEF WaitersSawNone, Active
<1>4. StartedOnce' /\ ResultsKept' /\ OneForNow' /\ LastResultsKept'
  BY <1>1, JobsStay DEF StartedOnce, ResultsKept, OneForNow, LastResultsKept, Calls
<1>5. PanicOnlyByReuse'
  BY DEF PanicOnlyByReuse
<1> QED BY <1>2, <1>3, <1>4, <1>5, JobsStay

LEMMA WaitStep ==
  ASSUME CCInv, panic = "no", NEW k \in AllCalls, Wait(k) PROVE CCInv'
<1> USE DEF Wait, jobVars, callVars, CCInv
<1>1. /\ waiter[k] = "new" /\ waiter'[k] \in {"closed", "parked"}
      /\ waiter'[k] = "closed" => wg = {}
      /\ \A m \in AllCalls : m # k => waiter'[m] = waiter[m]
      /\ waiter' \in [AllCalls -> {"none", "new", "parked", "woken", "closed"}]
  BY DEF CCTypeOK
<1>2. CCTypeOK'
  BY <1>1 DEF CCTypeOK
<1>3. WaitersSawNone'
  <2>1. ASSUME NEW c \in Collectors, wg = {} PROVE ~Active(<<k, c>>)
    BY <2>1, JobFacts DEF GroupCounts, Calls
  <2> QED BY <1>1, <2>1 DEF WaitersSawNone, Active
<1>4. StartedOnce' /\ ResultsKept' /\ OneForNow' /\ LastResultsKept'
  BY <1>1, JobsStay DEF StartedOnce, ResultsKept, OneForNow, LastResultsKept, Calls
<1>5. PanicOnlyByReuse'
  BY DEF PanicOnlyByReuse
<1> QED BY <1>2, <1>3, <1>4, <1>5, JobsStay

\* A woken waiter that finds the group in use has others to thank.
LEMMA WakeUpStep ==
  ASSUME CCInv, panic = "no", NEW k \in AllCalls, WakeUp(k) PROVE CCInv'
<1> USE DEF WakeUp, jobVars, callVars, CCInv
<1>1. CASE wg = {}
  <2>1. /\ waiter[k] = "woken" /\ waiter'[k] = "closed"
        /\ \A m \in AllCalls : m # k => waiter'[m] = waiter[m]
        /\ waiter' \in [AllCalls -> {"none", "new", "parked", "woken", "closed"}]
    BY <1>1 DEF CCTypeOK
  <2>2. CCTypeOK'
    BY <1>1, <2>1 DEF CCTypeOK
  <2>3. WaitersSawNone'
    BY <2>1 DEF WaitersSawNone, Active
  <2>4. StartedOnce' /\ OneForNow'
    BY <2>1, JobsStay DEF StartedOnce, OneForNow, Calls
  <2>5. ResultsKept' /\ LastResultsKept'
    BY <2>1, JobsStay DEF ResultsKept, LastResultsKept, Calls
  <2>6. PanicOnlyByReuse'
    BY <1>1 DEF PanicOnlyByReuse
  <2> QED BY <2>2, <2>3, <2>4, <2>5, <2>6, JobsStay
<1>2. CASE wg # {}
  <2>1. panic' = "wait group reused" /\ waiter' = waiter /\ waiter[k] = "woken"
    BY <1>2
  <2>2. CCTypeOK'
    BY <2>1 DEF CCTypeOK
  <2>3. WaitersSawNone' /\ StartedOnce' /\ OneForNow'
    BY <2>1, JobsStay DEF WaitersSawNone, Active, StartedOnce, OneForNow, Calls
  <2>8. ResultsKept' /\ LastResultsKept'
    BY <2>1, JobsStay DEF ResultsKept, LastResultsKept, Calls
  <2>4. PICK j \in wg : TRUE
    BY <1>2
  <2>5. Active(j) /\ j[2] \in Collectors /\ j = <<j[1], j[2]>>
    BY JobFacts DEF GroupCounts
  <2>6. j[1] # k
    BY <2>1, <2>5 DEF WaitersSawNone
  <2>7. PanicOnlyByReuse'
    BY <2>1, <2>6 DEF PanicOnlyByReuse
  <2> QED BY <2>2, <2>3, <2>7, <2>8, JobsStay
<1> QED BY <1>1, <1>2

LEMMA ReceiveStep ==
  ASSUME CCInv, panic = "no", NEW k \in AllCalls, Receive(k) PROVE CCInv'
<1> USE DEF Receive, jobVars, CCInv
<1>1. PICK c \in chan[k] :
        /\ chan' = [chan EXCEPT ![k] = @ \ {c}]
        /\ got' = [got EXCEPT ![k] = @ \cup {c}]
        /\ results' = [results EXCEPT ![c] = k]
  OBVIOUS
<1>2. /\ k \in Calls /\ c \in Collectors /\ call[k] = "receiving"
      /\ chan'[k] = chan[k] \ {c} /\ got'[k] = got[k] \cup {c}
      /\ \A m \in Calls : m # k => chan'[m] = chan[m] /\ got'[m] = got[m]
      /\ results'[c] = k /\ \A d \in Collectors : d # c => results'[d] = results[d]
  BY <1>1 DEF CCTypeOK, Calls
<1>3. CCTypeOK'
  <2>1. chan' \in [Calls -> SUBSET Collectors] /\ got' \in [Calls -> SUBSET Collectors]
    BY <1>1, <1>2 DEF CCTypeOK
  <2>2. results' \in [Collectors -> AllCalls \cup {None}]
    BY <1>1, <1>2 DEF CCTypeOK
  <2> QED BY <2>1, <2>2 DEF CCTypeOK
<1>4. WaitersSawNone' /\ StartedOnce'
  BY JobsStay DEF WaitersSawNone, Active, StartedOnce, Calls
<1>5. ResultsKept'
  <2>1. \A m \in Calls : chan'[m] \cup got'[m] = chan[m] \cup got[m]
    BY <1>1, <1>2
  <2>2. \A m \in AllCalls : call[m] = "returned" => chan'[m] = chan[m]
    BY <1>2 DEF Calls
  <2> QED BY <2>1, <2>2, JobsStay DEF ResultsKept
<1>6. OneForNow'
  BY <1>2, JobsStay DEF OneForNow, Calls
<1>7. LastResultsKept'
  <2> SUFFICES ASSUME NEW m \in AllCalls, call[m] # "idle",
                      \A n \in AllCalls \ {m} : call[n] = "idle"
               PROVE  {d \in Collectors : results'[d] = m} = got'[m]
    BY DEF LastResultsKept
  <2>1. m = k
    BY <1>2
  <2>2. {d \in Collectors : results[d] = k} = got[k]
    BY <2>1 DEF LastResultsKept
  <2> QED BY <1>2, <2>1, <2>2
<1>8. PanicOnlyByReuse'
  BY DEF PanicOnlyByReuse
<1> QED BY <1>3, <1>4, <1>5, <1>6, <1>7, <1>8, JobsStay

LEMMA ReturnAllStep ==
  ASSUME CCInv, panic = "no", NEW k \in AllCalls, ReturnAll(k) PROVE CCInv'
<1> USE DEF ReturnAll, Advance, jobVars, CCInv
<1>1. /\ k \in Calls /\ call[k] = "receiving" /\ call'[k] = "returned"
      /\ \A m \in Calls : m # k => call'[m] = call[m]
      /\ call' \in [Calls -> {"idle", "starting", "receiving", "returned", "refused"}]
  BY DEF CCTypeOK, Calls
<1>2. CCTypeOK'
  BY <1>1 DEF CCTypeOK
<1>3. WaitersSawNone' /\ PanicOnlyByReuse'
  BY DEF WaitersSawNone, Active, PanicOnlyByReuse
<1>4. StartedOnce' /\ ResultsKept' /\ OneForNow' /\ LastResultsKept'
  BY <1>1, JobsStay DEF StartedOnce, ResultsKept, OneForNow, LastResultsKept, Calls
<1> QED BY <1>2, <1>3, <1>4, JobsStay

LEMMA BeginNowStep ==
  ASSUME CCInv, panic = "no", NEW k \in NowCalls, NEW c \in Collectors, BeginNow(k, c)
  PROVE  CCInv'
<1> USE DEF BeginNow, Advance, CCInv
<1>1. /\ k \in Calls /\ k \notin AllCalls /\ call[k] = "idle"
      /\ \A m \in Calls : m # k => call'[m] = call[m]
      /\ call' \in [Calls -> {"idle", "starting", "receiving", "returned", "refused"}]
  BY DEF CCTypeOK, Calls
<1>2. Started(k) = {} /\ got[k] = {} /\ PanicOnlyByReuse'
  BY <1>1 DEF OneForNow, PanicOnlyByReuse
<1>3. CASE call'[k] = "receiving" /\ Spawn(<<k, c>>)
  <2>1. CCTypeOK'
    BY <1>1, <1>2, <1>3, SpawnFacts DEF CCTypeOK
  <2>2. GroupCounts' /\ SlotsCounted'
    BY <1>1, <1>2, <1>3, SpawnFacts DEF SlotsCounted
  <2>3. WaitersSawNone'
    <3> SUFFICES ASSUME NEW m \in AllCalls, NEW d \in Collectors,
                        waiter[m] \in {"woken", "closed"}
                 PROVE  ~Active(<<m, d>>)'
      BY DEF WaitersSawNone
    <3>1. <<m, d>> \in Jobs /\ <<m, d>> # <<k, c>>
      BY <1>1, JobFacts DEF Calls
    <3> QED BY <1>1, <1>2, <1>3, <3>1, SpawnFacts DEF WaitersSawNone
  <2>4. StartedOnce'
    BY <1>1, <1>2, <1>3, SpawnFacts DEF StartedOnce, Calls
  <2>5. ResultsKept' /\ LastResultsKept'
    BY <1>1, <1>2, <1>3, SpawnFacts DEF ResultsKept, LastResultsKept, Calls
  <2>6. OneForNow'
    <3>1. Started(k)' = {c}
      BY <1>1, <1>2, <1>3, SpawnFacts
    <3>2. \A m \in NowCalls : m # k => call'[m] = call[m] /\ Started(m)' = Started(m)
      BY <1>1, <1>2, <1>3, SpawnFacts DEF Calls
    <3> QED BY <1>2, <1>3, <3>1, <3>2 DEF OneForNow
  <2> QED BY <1>2, <2>1, <2>2, <2>3, <2>4, <2>5, <2>6
<1>4. CASE call'[k] = "refused" /\ UNCHANGED <<wg, job>>
  <2>1. CCTypeOK'
    BY <1>1, <1>4 DEF CCTypeOK
  <2>2. WaitersSawNone' /\ StartedOnce'
    BY <1>1, <1>4, JobsStay DEF WaitersSawNone, Active, StartedOnce, Calls
  <2>3. ResultsKept' /\ OneForNow' /\ LastResultsKept'
    BY <1>1, <1>2, <1>4, JobsStay DEF ResultsKept, OneForNow, LastResultsKept, Calls
  <2> QED BY <1>2, <1>4, <2>1, <2>2, <2>3, JobsStay
<1>5. \/ call'[k] = "receiving" /\ Spawn(<<k, c>>)
      \/ call'[k] = "refused" /\ UNCHANGED <<wg, job>>
  BY <1>1 DEF CCTypeOK
<1> QED BY <1>3, <1>4, <1>5

LEMMA ReturnNowStep ==
  ASSUME CCInv, panic = "no", NEW k \in NowCalls, ReturnNow(k) PROVE CCInv'
<1> USE DEF ReturnNow, Advance, jobVars, CCInv
<1>1. /\ k \in Calls /\ k \notin AllCalls
      /\ call[k] = "receiving" /\ call'[k] = "returned"
      /\ chan[k] # {} /\ chan'[k] = {} /\ got'[k] = chan[k]
      /\ \A m \in Calls : m # k => /\ call'[m] = call[m] /\ got'[m] = got[m]
                                   /\ chan'[m] = chan[m]
  BY DEF CCTypeOK, Calls
<1>2. got[k] = {} /\ chan[k] = Started(k)
  <2>1. PICK c \in Collectors : Started(k) = {c}
    BY <1>1 DEF OneForNow
  <2>2. got[k] = {} /\ chan[k] \subseteq Started(k)
    BY <1>1 DEF OneForNow, ResultsKept, HasSent, Started
  <2> QED BY <1>1, <2>1, <2>2
<1>3. CCTypeOK'
  <2>1. /\ call' \in [Calls -> {"idle", "starting", "receiving", "returned", "refused"}]
        /\ chan' \in [Calls -> SUBSET Collectors] /\ got' \in [Calls -> SUBSET Collectors]
    BY <1>1 DEF CCTypeOK
  <2> QED BY <2>1 DEF CCTypeOK
<1>4. WaitersSawNone' /\ StartedOnce' /\ PanicOnlyByReuse'
  BY <1>1, JobsStay DEF WaitersSawNone, Active, StartedOnce, PanicOnlyByReuse, Calls
<1>5. ResultsKept'
  BY <1>1, <1>2, JobsStay DEF ResultsKept, Calls
<1>6. OneForNow' /\ LastResultsKept'
  BY <1>1, <1>2, JobsStay DEF OneForNow, LastResultsKept, Calls
<1> QED BY <1>3, <1>4, <1>5, <1>6, JobsStay

\* No part of the invariant but the types speaks of contexts.
LEMMA ContextStep ==
  ASSUME CCInv, UNCHANGED <<callVars, jobVars, waiter, chan, panic>>,
         ctxDone' \in [Calls -> BOOLEAN]
  PROVE  CCInv'
<1> USE DEF callVars, jobVars, CCInv
<1>1. CCTypeOK'
  BY DEF CCTypeOK
<1>2. WaitersSawNone' /\ StartedOnce' /\ ResultsKept'
  BY JobsStay DEF WaitersSawNone, Active, StartedOnce, ResultsKept, Calls
<1>3. OneForNow' /\ LastResultsKept' /\ PanicOnlyByReuse'
  BY JobsStay DEF OneForNow, LastResultsKept, PanicOnlyByReuse, Calls
<1> QED BY <1>1, <1>2, <1>3, JobsStay

-----------------------------------------------------------------------------

LEMMA StepCCInv == CCInv /\ [CCNext]_ccVars => CCInv'
<1> SUFFICES ASSUME CCInv, [CCNext]_ccVars PROVE CCInv'
  OBVIOUS
<1>1. ASSUME panic = "no", NEW j \in Jobs, Work(j) PROVE CCInv'
  BY <1>1, AcquireStep, GiveUpStep, FinishStep, ReleaseStep, DoneStep DEF Work
<1>2. ASSUME panic = "no", NEW k \in AllCalls, CollectAll(k) PROVE CCInv'
  BY <1>2, StartOrSkipStep, StartWaiterStep, WaitStep, WakeUpStep, ReceiveStep,
     ReturnAllStep DEF CollectAll
<1>3. ASSUME panic = "no", NEW k \in NowCalls, ReturnNow(k) PROVE CCInv'
  BY <1>3, ReturnNowStep
<1>4. ASSUME panic = "no", NEW k \in AllCalls, BeginAll(k) PROVE CCInv'
  BY <1>4, BeginAllStep
<1>5. ASSUME panic = "no", NEW k \in NowCalls, NEW c \in Collectors, BeginNow(k, c)
      PROVE  CCInv'
  BY <1>5, BeginNowStep
<1>6. ASSUME NEW k \in Calls, CtxDone(k) PROVE CCInv'
  <2>1. ctxDone' \in [Calls -> BOOLEAN]
    BY <1>6 DEF CtxDone, CCInv, CCTypeOK
  <2> QED BY <1>6, <2>1, ContextStep DEF CtxDone
<1>7. CASE UNCHANGED ccVars
  <2>1. ctxDone' \in [Calls -> BOOLEAN]
    BY <1>7 DEF ccVars, CCInv, CCTypeOK
  <2> QED BY <1>7, <2>1, ContextStep DEF ccVars
<1> QED BY <1>1, <1>2, <1>3, <1>4, <1>5, <1>6, <1>7 DEF CCNext, Goroutines

LEMMA CCInvariance == CCSpec => []CCInv
  BY InitCCInv, StepCCInv, PTL DEF CCSpec

\* The semaphore counts the goroutines that hold a slot, of any number of
\* calls, and never more than MaxConcurrency of them.
THEOREM SlotsAreExact == CCSpec => []SlotsAccounted
<1>1. CCInv => SlotsAccounted
  BY DEF CCInv, SlotsCounted, SlotsAccounted
<1> QED BY <1>1, CCInvariance, PTL

\* A call that has returned has all results of what it started, however many
\* calls share the wait group.
THEOREM ResultsAreComplete == CCSpec => []ResultsComplete
<1>1. CCInv => ResultsComplete
  <2> SUFFICES ASSUME CCInv PROVE ResultsComplete
    OBVIOUS
  <2> USE DEF CCInv
  <2>1. ASSUME NEW k \in AllCalls, call[k] = "returned" PROVE got[k] = Started(k)
    <3>1. k \in Calls /\ chan[k] = {} /\ waiter[k] = "closed"
      BY <2>1 DEF ResultsKept, Calls
    <3>2. ASSUME NEW c \in Collectors, c \in Started(k) PROVE c \in HasSent(k)
      <4>1. job[<<k, c>>] \in JobPlaces \ {"none"} /\ ~Active(<<k, c>>)
        BY <3>1, <3>2, JobFacts DEF Started, WaitersSawNone, CCTypeOK
      <4> QED BY <4>1 DEF Active, HasSent
    <3>3. HasSent(k) \subseteq Started(k) /\ Started(k) \subseteq Collectors
      BY DEF HasSent, Started
    <3> QED BY <3>1, <3>2, <3>3 DEF ResultsKept
  <2>2. \A k \in NowCalls : call[k] = "returned" => got[k] = Started(k)
    BY DEF OneForNow
  <2> QED BY <2>1, <2>2 DEF ResultsComplete, LastResultsKept, Calls
<1> QED BY <1>1, CCInvariance, PTL

\* No goroutine of any call ever finds its channel closed: a panic comes from
\* the reuse of the wait group while a waiter of another call wakes up.
THEOREM ChannelsStayOpen == CCSpec => []PanicOnlyByReuse
<1>1. CCInv => PanicOnlyByReuse
  BY DEF CCInv
<1> QED BY <1>1, CCInvariance, PTL

-----------------------------------------------------------------------------
(* Orchestrator. Whatever order Start, Stop and SetCollectorInterval come  *)
(* in, a goroutine that waits can name what will wake it.                  *)

\* Start numbers its timers with the call it is in.
StartNumbered == starter # "idle" => starts \in Starts

TimersInv == TimersAlive /\ StartNumbered

LEMMA TickersKnown ==
  /\ \A c \in Timed, n \in Starts : <<c, n>> \in Tickers
  /\ \A n \in Starts : n \in Nat
  BY DEF Tickers, Starts

LEMMA InitTimersInv == OrchestratorInit => TimersInv
<1> SUFFICES ASSUME OrchestratorInit PROVE TimersInv
  OBVIOUS
<1>1. 0 \in 0 .. MaxStarts
  BY OrchestratorAssumption
<1>2. OrchestratorTypeOK
  BY <1>1 DEF OrchestratorInit, OrchestratorTypeOK
<1>3. StartNumbered /\ armed = {} /\ \A t \in Tickers : ~TickerAt(t, "waiting")
  BY DEF OrchestratorInit, StartNumbered, TickerAt
<1> QED BY <1>2, <1>3 DEF TimersInv, TimersAlive

\* A timer that is stopped is remembered as muted.
LEMMA StopKeepsTimers ==
  ASSUME TimersInv, NEW gone \in SUBSET Tickers, StopTimers(gone),
         timers' \in [Timed -> Starts \cup {NoStart}], interval' \in SUBSET Timed,
         UNCHANGED <<startVars, ticker, stopped, cancelled>>,
         stopper' \in {"idle", "flagged", "cancelled", "done"}
  PROVE  TimersInv'
<1> USE DEF TimersInv
<1>1. OrchestratorTypeOK'
  BY DEF StopTimers, TimersAlive, OrchestratorTypeOK, startVars
<1>2. /\ armed' \subseteq {t \in Tickers : TickerAt(t, "waiting")'}
      /\ \A t \in Tickers :
           TickerAt(t, "waiting")' => t \in armed' \/ t \in muted' \/ cancelled'
  BY DEF StopTimers, TimersAlive, TickerAt
<1>3. StartNumbered'
  BY DEF StartNumbered, startVars
<1> QED BY <1>1, <1>2, <1>3 DEF TimersAlive

LEMMA TickKeepsTimers ==
  ASSUME TimersInv, NEW t \in Tickers, Tick(t)
  PROVE  TimersInv'
<1> USE DEF TimersInv
<1>1. UNCHANGED <<startVars, stopVars, interval, timers, muted>>
  BY DEF Tick, Fire, SeeDone, CheckStopped, BeginCollect, TimedCollect, Recheck, Reset,
         TickerLeaves
<1>2. PICK place \in {"waiting", "fired", "cleared", "collecting", "collected", "rearming",
                      "ended"} :
        TickerMoves(t, place)
  BY DEF Tick, Fire, SeeDone, CheckStopped, BeginCollect, TimedCollect, Recheck, Reset
<1>3. /\ ticker' \in [Tickers -> {"none", "waiting", "fired", "cleared", "collecting",
                                 "collected", "rearming", "ended"}]
      /\ ticker'[t] = place /\ \A u \in Tickers \ {t} : ticker'[u] = ticker[u]
  BY <1>2 DEF TickerMoves, TimersAlive, OrchestratorTypeOK
<1>4. armed' = IF place = "waiting" THEN armed \cup {t} ELSE armed \ {t}
  <2>1. CASE Reset(t)
    BY <1>2, <1>3, <2>1 DEF Reset, TickerMoves, TimersAlive, OrchestratorTypeOK
  <2>2. CASE Fire(t) \/ SeeDone(t)
    BY <1>2, <1>3, <2>2 DEF Fire, SeeDone, TickerMoves, TimersAlive, OrchestratorTypeOK
  <2>3. CASE CheckStopped(t) \/ BeginCollect(t) \/ TimedCollect(t) \/ Recheck(t)
    <3>1. t \notin armed /\ armed' = armed
      BY <2>3
         DEF CheckStopped, BeginCollect, TimedCollect, Recheck, TimersAlive, TickerAt
    <3>2. ticker'[t] # "waiting"
      BY <2>3
         DEF CheckStopped, BeginCollect, TimedCollect, Recheck, TickerMoves, TimersAlive,
             OrchestratorTypeOK
    <3> QED BY <1>3, <3>1, <3>2
  <2> QED BY <2>1, <2>2, <2>3 DEF Tick
<1>5. OrchestratorTypeOK'
  BY <1>1, <1>3, <1>4 DEF TimersAlive, OrchestratorTypeOK, startVars, stopVars
<1>6. /\ armed' \subseteq {u \in Tickers : TickerAt(u, "waiting")'}
      /\ \A u \in Tickers :
           TickerAt(u, "waiting")' => u \in armed' \/ u \in muted' \/ cancelled'
  BY <1>1, <1>3, <1>4 DEF TimersAlive, TickerAt, stopVars
<1>7. StartNumbered'
  BY <1>1 DEF StartNumbered, startVars
<1> QED BY <1>5, <1>6, <1>7 DEF TimersAlive

LEMMA StartTimerKeepsTimers ==
  ASSUME TimersInv, NEW c \in Timed, StartTimer(c)
  PROVE  TimersInv'
<1> USE DEF TimersInv
<1> DEFINE t == <<c, starts>>
<1>1. starts \in Starts /\ t \in Tickers
  BY OrchestratorAssumption, TickersKnown DEF StartTimer, StartNumbered
<1>2. /\ starter' = "looping" /\ timers' = [timers EXCEPT ![c] = starts]
      /\ ticker' = [ticker EXCEPT ![t] = "waiting"] /\ armed' = armed \cup {t}
      /\ UNCHANGED <<starts, unstarted, stopVars, interval, muted>>
  BY DEF StartTimer
<1> HIDE DEF t
<1>3. /\ ticker' \in [Tickers -> {"none", "waiting", "fired", "cleared", "collecting",
                                 "collected", "rearming", "ended"}]
      /\ ticker'[t] = "waiting" /\ \A u \in Tickers \ {t} : ticker'[u] = ticker[u]
  BY <1>1, <1>2 DEF TimersAlive, OrchestratorTypeOK
<1>4. OrchestratorTypeOK'
  BY <1>1, <1>2, <1>3 DEF TimersAlive, OrchestratorTypeOK, stopVars
<1>5. /\ armed' \subseteq {u \in Tickers : TickerAt(u, "waiting")'}
      /\ \A u \in Tickers :
           TickerAt(u, "waiting")' => u \in armed' \/ u \in muted' \/ cancelled'
  BY <1>1, <1>2, <1>3 DEF TimersAlive, TickerAt, stopVars
<1>6. StartNumbered'
  BY <1>1, <1>2 DEF StartNumbered
<1> QED BY <1>4, <1>5, <1>6 DEF TimersAlive

LEMMA NextTimersInv == TimersInv /\ [OrchestratorNext]_orchestratorVars => TimersInv'
<1> SUFFICES ASSUME TimersInv, [OrchestratorNext]_orchestratorVars PROVE TimersInv'
  OBVIOUS
<1> USE DEF TimersInv
<1>1. starts \in Nat /\ MaxStarts \in Nat
  BY OrchestratorAssumption DEF TimersAlive, OrchestratorTypeOK
\* Steps that only move Start or Stop along.
<1>2. ASSUME UNCHANGED timerVars, stopped' \in BOOLEAN, cancelled' \in BOOLEAN,
             cancelled => cancelled',
             starter' \in {"idle", "looping"} \cup Timed, starts' \in 0 .. MaxStarts,
             unstarted' \in SUBSET Timed,
             stopper' \in {"idle", "flagged", "cancelled", "done"}, StartNumbered'
      PROVE  TimersInv'
  BY <1>2 DEF TimersAlive, OrchestratorTypeOK, timerVars, TickerAt
<1>3. CASE StartCall
  <2>1. starts' \in 0 .. MaxStarts /\ starts' \in Starts
    BY <1>1, <1>3 DEF StartCall, Starts
  <2> QED
    BY <1>2, <1>3, <2>1 DEF StartCall, StartNumbered, TimersAlive, OrchestratorTypeOK
<1>4. ASSUME NEW c \in Timed, ReadInterval(c) PROVE TimersInv'
  BY OrchestratorAssumption, <1>2, <1>4
     DEF ReadInterval, StartNumbered, stopVars, TimersAlive, OrchestratorTypeOK
<1>5. CASE StartReturn
  BY <1>2, <1>5 DEF StartReturn, StartNumbered, stopVars, TimersAlive, OrchestratorTypeOK
<1>6. CASE SetStopped
  BY <1>2, <1>6 DEF SetStopped, StartNumbered, startVars, TimersAlive, OrchestratorTypeOK
<1>7. CASE Cancel
  BY <1>2, <1>7 DEF Cancel, StartNumbered, startVars, TimersAlive, OrchestratorTypeOK
<1>8. CASE ClearTimers
  BY <1>8, StopKeepsTimers DEF ClearTimers, Held, TimersAlive, OrchestratorTypeOK
<1>9. ASSUME NEW c \in Timed, SetCollectorInterval(c) PROVE TimersInv'
  BY <1>9, StopKeepsTimers
     DEF SetCollectorInterval, Held, stopVars, TimersAlive, OrchestratorTypeOK
<1>10. CASE UNCHANGED orchestratorVars
  BY <1>2, <1>10
     DEF orchestratorVars, startVars, stopVars, StartNumbered, TimersAlive, OrchestratorTypeOK
<1> QED
  BY <1>3, <1>4, <1>5, <1>6, <1>7, <1>8, <1>9, <1>10, TickKeepsTimers, StartTimerKeepsTimers
     DEF OrchestratorNext, OrchestratorThreads

\* A goroutine of a timer that waits has a timer that will fire, unless the
\* context is cancelled or somebody has stopped that timer, for any number of
\* collectors and calls of Start.
THEOREM TimersStayAlive == OrchestratorSpec => []TimersAlive
<1>1. TimersInv => TimersAlive
  BY DEF TimersInv
<1> QED BY <1>1, InitTimersInv, NextTimersInv, PTL DEF OrchestratorSpec

-----------------------------------------------------------------------------
(* CollectPipe. Every metric that the collector has sent is somewhere: in  *)
(* the channel, gathered, in the forwarder's hand, or delivered. Only the  *)
(* end of the context and the failure of a degraded collection drop any.   *)

InHand == IF Logging /\ forwarder = "sending" THEN 1 ELSE 0

PipeTypes ==
  /\ wrapper \in {"logging", "degraded"} /\ pipeDone \in BOOLEAN
  /\ sent \in 0 .. MaxMetrics /\ buffered \in 0 .. PipeCapacity
  /\ gathered \in Nat /\ delivered \in Nat
  /\ inner \in {"idle", "working", "sending", "ok", "failed"}
  /\ inner = "sending" => sent < MaxMetrics
  /\ forwarder \in {"reading", "sending", "gone"}
  /\ collect \in {"idle", "waiting", "returned"}

NoneMadeUp == buffered + gathered + InHand + delivered <= sent

LoggingKeeps ==
  Logging /\ ~pipeDone =>
    /\ sent = buffered + InHand + delivered
    /\ gathered = 0
    /\ forwarder = "gone" => Drained

DegradedKeeps ==
  ~Logging /\ ~pipeDone =>
    /\ forwarder # "gone"
    /\ forwarder = "reading" => sent = buffered + gathered /\ delivered = 0
    /\ forwarder = "sending" =>
         /\ Drained
         /\ inner = "ok" => sent = gathered + delivered
         /\ inner = "failed" => gathered = 0 /\ delivered = 0

ReturnedLast ==
  /\ inner = "idle" <=> collect = "idle"
  /\ collect = "returned" =>
       /\ InnerReturned
       /\ forwarder = "gone" \/ (~Logging /\ forwarder = "sending" /\ gathered = 0)

PipeInv == PipeTypes /\ NoneMadeUp /\ LoggingKeeps /\ DegradedKeeps /\ ReturnedLast

LEMMA InitPipeInv == PipeInit => PipeInv
<1> SUFFICES ASSUME PipeInit PROVE PipeInv
  OBVIOUS
<1> USE DEF PipeInit
<1>1. PipeTypes
  <2>1. 0 \in 0 .. MaxMetrics /\ 0 \in 0 .. PipeCapacity
    BY PipeAssumption
  <2> QED BY <2>1 DEF PipeTypes
<1>2. InHand = 0 /\ NoneMadeUp
  BY DEF InHand, NoneMadeUp
<1>3. LoggingKeeps /\ DegradedKeeps
  BY <1>2 DEF LoggingKeeps, DegradedKeeps
<1>4. ReturnedLast
  BY DEF ReturnedLast
<1> QED BY <1>1, <1>2, <1>3, <1>4 DEF PipeInv

LEMMA NextPipeInv == PipeInv /\ [PipeNext]_pipeVars => PipeInv'
<1> SUFFICES ASSUME PipeInv, [PipeNext]_pipeVars PROVE PipeInv'
  OBVIOUS
<1> USE PipeAssumption
    DEF PipeInv, PipeTypes, NoneMadeUp, LoggingKeeps, DegradedKeeps, ReturnedLast, InHand,
        Logging, Drained, InnerReturned
<1>1. CASE PipeCollect
  BY <1>1 DEF PipeCollect
<1>2. CASE PipeCtxDone
  BY <1>2 DEF PipeCtxDone
<1>3. CASE InnerWants
  BY <1>3 DEF InnerWants
<1>4. CASE InnerSends
  BY <1>4 DEF InnerSends
<1>5. CASE InnerReturns
  BY <1>5 DEF InnerReturns
<1>6. CASE Read
  BY <1>6 DEF Read
<1>7. CASE ReadEnd
  BY <1>7 DEF ReadEnd
<1>8. CASE Forward
  BY <1>8 DEF Forward
<1>9. CASE GiveUpSending
  BY <1>9 DEF GiveUpSending
<1>10. CASE PipeReturn
  BY <1>10 DEF PipeReturn
<1>11. CASE UNCHANGED pipeVars
  BY <1>11 DEF pipeVars
<1> QED
  BY <1>1, <1>2, <1>3, <1>4, <1>5, <1>6, <1>7, <1>8, <1>9, <1>10, <1>11 DEF PipeNext

\* A Collect that returns before its context is done has delivered every
\* metric of its collector, or, from degraded, none of a failed one, for any
\* capacity of the channel and any number of metrics.
THEOREM MetricsAreDelivered == PipeSpec => []MetricsDelivered
<1>1. PipeInv => MetricsDelivered
  BY PipeAssumption
     DEF PipeInv, PipeTypes, NoneMadeUp, LoggingKeeps, DegradedKeeps, ReturnedLast, InHand,
         MetricsDelivered, PipeTypeOK, Logging, Drained, InnerReturned
<1> QED BY <1>1, InitPipeInv, NextPipeInv, PTL DEF PipeSpec
=============================================================================
