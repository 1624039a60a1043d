---------------------------- MODULE BatchProcessor ----------------------------
(***************************************************************************)
(* internal/performance/batch_processor.go. Items are put into one batch   *)
(* per type; a batch is taken out of the map, under bp.mu, by the loop of  *)
(* its type, by a goroutine that Add starts when the batch is full, or by  *)
(* FlushAll, which the flush timer, Stop and MetricBatcher's               *)
(* CollectBatchedMetrics run. The loop processes what it has taken itself; *)
(* the others leave it to a goroutine that the wait group does not count.  *)
(* An item is the number of the call that added it: numbers grow with      *)
(* time.                                                                   *)
(***************************************************************************)
EXTENDS Naturals, Sequences, FiniteSets, SequencesExt

CONSTANTS
  Types,          \* types of items
  Keys,           \* keys of items
  MaxItems,       \* calls of Add: a bound
  MaxBatchSize, RetryAttempts    \* of BatchConfig

ASSUME BatchAssumption ==
  /\ MaxItems \in Nat /\ MaxBatchSize \in Nat \ {0} /\ RetryAttempts \in Nat \ {0}

Items == 1..MaxItems
Flushers == {"timer", "stop"}    \* callers of FlushAll that others wait for

VARIABLES
  keys,       \* keys[n]: the key of item n, added by the n-th call of Add
  batches,    \* batches[t]: bp.batches[t], empty if there is none
  aged,       \* types whose batch has waited for MaxBatchWait
  full,       \* full[t]: goroutines of Add that are about to flush t
  flushing,   \* flushing[f]: types that FlushAll has yet to flush
  loop,       \* loop[t]: "none", "waiting", "busy" or "ended"
  timer,      \* the flush timer: "waiting", "flushing" or "ended"
  work,       \* batches being processed: items, attempts made, by the loop?
  settled,    \* items that were processed, were given up after the last
              \* attempt, were flushed without a processor, or were skipped
              \* because the batch had an item with their key
  stop,       \* where Stop is
  early       \* items added before Stop was called: history

addVars == <<keys, early>>
threadVars == <<full, flushing, loop, timer, stop>>
vars == <<addVars, batches, aged, work, settled, threadVars>>

Init ==
  /\ keys = <<>>
  /\ batches = [t \in Types |-> <<>>]
  /\ aged = {}
  /\ full = [t \in Types |-> 0]
  /\ flushing = [f \in Flushers |-> {}]
  /\ loop = [t \in Types |-> "none"]
  /\ timer = "waiting"
  /\ work = {}
  /\ settled = {}
  /\ stop = "no"
  /\ early = {}

cancelled == stop \in {"waiting", "stopped", "timed out"}    \* bp.ctx is done
registered == {t \in Types : loop[t] # "none"}               \* bp.processors

-----------------------------------------------------------------------------
(* Add                                                                     *)

HasKey(t, k) == \E n \in ToSet(batches[t]) : keys[n] = k

\* A duplicate is skipped even when it is newer. Nothing looks at bp.ctx.
Add(t, k) ==
  /\ Len(keys) < MaxItems
  /\ keys' = Append(keys, k)
  /\ early' = IF stop = "no" THEN early \cup {Len(keys')} ELSE early
  /\ IF HasKey(t, k)
     THEN settled' = settled \cup {Len(keys')} /\ UNCHANGED <<batches, full>>
     ELSE /\ batches' = [batches EXCEPT ![t] = Append(@, Len(keys'))]
          /\ full' = [full EXCEPT ![t] =
                        IF Len(batches'[t]) >= MaxBatchSize THEN @ + 1 ELSE @]
          /\ UNCHANGED settled
  /\ UNCHANGED <<aged, work, flushing, loop, timer, stop>>

-----------------------------------------------------------------------------
(* Taking a batch and processing it                                        *)

Age(t) ==
  /\ batches[t] # <<>> /\ t \notin aged
  /\ aged' = aged \cup {t}
  /\ UNCHANGED <<addVars, batches, work, settled, threadVars>>

\* Mutation: the batch stays in the map.
TakeCopy(t) ==
  /\ batches' = batches
  /\ aged' = aged \ {t}

\* The batch leaves the map, for ever.
Take(t) ==
  /\ batches' = [batches EXCEPT ![t] = <<>>]
  /\ aged' = aged \ {t}

Process(t, byLoop) ==
  work' = work \cup {[items |-> ToSet(batches[t]), type |-> t, attempts |-> 0, byLoop |-> byLoop]}

\* flushBatch: without a processor the items are dropped.
FlushBatch(t) ==
  IF batches[t] = <<>>
  THEN UNCHANGED <<batches, aged, work, settled>>
  ELSE /\ Take(t)
       /\ IF t \in registered
          THEN Process(t, FALSE) /\ UNCHANGED settled
          ELSE settled' = settled \cup ToSet(batches[t]) /\ UNCHANGED work

\* The goroutine that Add has started for a full batch.
FlushFull(t) ==
  /\ full[t] > 0
  /\ full' = [full EXCEPT ![t] = @ - 1]
  /\ FlushBatch(t)
  /\ UNCHANGED <<addVars, flushing, loop, timer, stop>>

\* processBatchWithRetry: an attempt fails and another one is left, or the
\* attempt is the last one.
Retry(w) ==
  /\ w.attempts < RetryAttempts
  /\ work' = (work \ {w}) \cup {[w EXCEPT !.attempts = @ + 1]}
  /\ UNCHANGED <<settled, loop>>

Settle(w) ==
  /\ work' = work \ {w}
  /\ settled' = settled \cup w.items
  /\ loop' = IF w.byLoop THEN [loop EXCEPT ![w.type] = "waiting"] ELSE loop

Attempt(w) ==
  /\ w \in work
  /\ Retry(w) \/ Settle(w)
  /\ UNCHANGED <<addVars, batches, aged, full, flushing, timer, stop>>

-----------------------------------------------------------------------------
(* The loop of a type: ProcessBatch and checkAndFlushBatch                 *)

\* A type is registered once, as MetricBatcher does.
ProcessBatch(t) ==
  /\ loop[t] = "none" /\ ~cancelled
  /\ loop' = [loop EXCEPT ![t] = "waiting"]
  /\ UNCHANGED <<addVars, batches, aged, work, settled, full, flushing, timer, stop>>

CheckAndFlush(t) ==
  /\ loop[t] = "waiting"
  /\ Len(batches[t]) >= MaxBatchSize \/ t \in aged
  /\ Take(t)
  /\ Process(t, TRUE)
  /\ loop' = [loop EXCEPT ![t] = "busy"]
  /\ UNCHANGED <<addVars, settled, full, flushing, timer, stop>>

LoopEnds(t) ==
  /\ loop[t] = "waiting" /\ cancelled
  /\ loop' = [loop EXCEPT ![t] = "ended"]
  /\ UNCHANGED <<addVars, batches, aged, work, settled, full, flushing, timer, stop>>

-----------------------------------------------------------------------------
(* FlushAll and its callers                                                *)

\* The types are read under bp.mu, and then flushed one by one.
Snapshot(f) ==
  flushing' = [flushing EXCEPT ![f] = {t \in Types : batches[t] # <<>>}]

FlushNext(f, t) ==
  /\ t \in flushing[f]
  /\ flushing' = [flushing EXCEPT ![f] = @ \ {t}]
  /\ FlushBatch(t)
  /\ UNCHANGED <<addVars, full, loop, timer, stop>>

OtherThanFlushing == <<addVars, batches, aged, work, settled, full, loop>>

TimerFires ==
  /\ timer = "waiting"
  /\ timer' = "flushing"
  /\ Snapshot("timer")
  /\ UNCHANGED <<OtherThanFlushing, stop>>

TimerFlushed ==
  /\ timer = "flushing" /\ flushing["timer"] = {}
  /\ timer' = "waiting"
  /\ UNCHANGED <<OtherThanFlushing, flushing, stop>>

TimerEnds ==
  /\ timer = "waiting" /\ cancelled
  /\ timer' = "ended"
  /\ UNCHANGED <<OtherThanFlushing, flushing, stop>>

\* CollectBatchedMetrics calls FlushAll from any goroutine, at any time: what
\* its snapshot held is of no account, as flushing no batch does nothing.
CollectBatchedMetrics(t) ==
  /\ batches[t] # <<>>
  /\ FlushBatch(t)
  /\ UNCHANGED <<addVars, threadVars>>

\* Mutation: Stop does not flush.
StopCallOnly ==
  /\ stop = "no"
  /\ stop' = "flushing"
  /\ UNCHANGED <<OtherThanFlushing, flushing, timer>>

StopCall ==
  /\ stop = "no"
  /\ stop' = "flushing"
  /\ Snapshot("stop")
  /\ UNCHANGED <<OtherThanFlushing, timer>>

StopCancel ==
  /\ stop = "flushing" /\ flushing["stop"] = {}
  /\ stop' = "waiting"
  /\ UNCHANGED <<OtherThanFlushing, flushing, timer>>

\* wg.Wait: the loops and the flush timer are counted, nothing else is.
StopReturns ==
  /\ stop = "waiting"
  /\ \/ /\ timer = "ended" /\ \A t \in registered : loop[t] = "ended"
        /\ stop' = "stopped"
     \/ stop' = "timed out"
  /\ UNCHANGED <<OtherThanFlushing, flushing, timer>>

-----------------------------------------------------------------------------
Goroutines ==
  \/ \E t \in Types : FlushFull(t) \/ CheckAndFlush(t) \/ LoopEnds(t)
  \/ \E w \in work : Attempt(w)
  \/ \E f \in Flushers, t \in Types : FlushNext(f, t)
  \/ TimerFires \/ TimerFlushed \/ TimerEnds
  \/ StopCancel \/ StopReturns

Next ==
  \/ \E t \in Types, k \in Keys : Add(t, k)
  \/ \E t \in Types : Age(t) \/ ProcessBatch(t)
  \/ Goroutines
  \/ \E t \in Types : CollectBatchedMetrics(t)
  \/ StopCall

\* Go runs its goroutines, and the ticker of the flush timer ticks. Batches
\* age, but nobody has to add, register, collect or stop.
Fairness ==
  /\ \A t \in Types : WF_vars(FlushFull(t)) /\ WF_vars(LoopEnds(t))
  /\ WF_vars(\E w \in work : Attempt(w))
  /\ \A f \in Flushers : WF_vars(\E t \in Types : FlushNext(f, t))
  /\ WF_vars(TimerFires) /\ WF_vars(TimerFlushed) /\ WF_vars(StopCancel)

Spec == Init /\ [][Next]_vars /\ Fairness

-----------------------------------------------------------------------------
(* Properties                                                              *)

Pending == UNION {ToSet(batches[t]) : t \in Types}
InWork == UNION {w.items : w \in work}

TypeOK ==
  /\ keys \in Seq(Keys) /\ Len(keys) <= MaxItems
  /\ aged \subseteq {t \in Types : batches[t] # <<>>}
  /\ loop \in [Types -> {"none", "waiting", "busy", "ended"}]
  /\ timer \in {"waiting", "flushing", "ended"}
  /\ stop \in {"no", "flushing", "waiting", "stopped", "timed out"}
  /\ flushing \in [Flushers -> SUBSET Types]

\* Every item added is in exactly one place: in its batch, with one goroutine
\* that processes it, or settled. Nothing is lost and nothing is
\* processed twice, whoever takes the batch. The state is well formed.
ItemsConserved ==
  /\ TypeOK
  /\ 1..Len(keys) = Pending \cup InWork \cup settled
  /\ Pending \cap InWork = {} /\ (Pending \cup InWork) \cap settled = {}
  /\ \A v, w \in work : v # w => v.items \cap w.items = {}

\* "Wait for all goroutines" (batch_processor.go:309): when Stop has returned
\* without an error, what was added before it has been processed.
StopWaitsForAll == stop = "stopped" => early \subseteq settled

\* What was added before Stop is processed, given up after its retries, merged
\* or dropped in the end, by the timer or by Stop's own flush.
EarlyItemsSettle == \A n \in Items : n \in early ~> n \in settled
=============================================================================
