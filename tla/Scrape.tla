------------------------------- MODULE Scrape -------------------------------
(***************************************************************************)
(* What a scrape does with one collector: collectorAdapter.Collect of      *)
(* internal/collector/registry.go around JobsSimpleCollector of            *)
(* jobs_simple.go. The jobs are listed, every sample that the filter and   *)
(* the cardinality manager let through is sent to a bounded channel, and a *)
(* goroutine passes the channel on to Prometheus and counts. Scrapes       *)
(* overlap, and a reload changes the collector under them.                 *)
(***************************************************************************)
EXTENDS CardinalityManager

CONSTANTS
  Samples,     \* the samples a list of jobs may stand for
  Capacity,    \* of metricsChan, 1000 in the code
  MaxScrapes,  \* bound: scrapes that are started
  MaxChanges   \* bound: changes of the collector and of the limits

ASSUME ScrapeAssumption ==
  /\ Samples \subseteq SampleType /\ Capacity \in Nat \ {0} /\ MaxScrapes \in Nat
  /\ MaxChanges \in Nat /\ IsFiniteSet(Metrics)

VARIABLES
  place,      \* place[s]: "idle", "listing", "emitting" or "closed"
  todo,       \* todo[s]: samples not yet looked at
  queue,      \* queue[s]: samples in metricsChan
  forwarded,  \* forwarded[s]: metricsCount
  done,       \* scrapes whose forwarder has closed done
  failed,     \* scrapes whose Collect has returned an error
  enabled,    \* the flag of the collector
  excluded,   \* metrics its filter turns down
  torn,       \* the runtime has ended the program over its custom labels
  stats,      \* what RecordCollection has added up
  sent,       \* history: sent[m] samples of m were put into a channel
  started,    \* scrapes started
  changes     \* changes made

adapterVars == <<place, todo, queue, forwarded, done, failed, stats, sent, started>>
settings == <<enabled, excluded, torn, changes>>
scrapeVars == <<cardinalityVars, adapterVars, settings>>

ScrapeInit ==
  /\ CardinalityInit
  /\ place = [s \in Callers |-> "idle"]
  /\ todo = [s \in Callers |-> {}]
  /\ queue = [s \in Callers |-> 0]
  /\ forwarded = [s \in Callers |-> 0]
  /\ done = {} /\ failed = {}
  /\ enabled = TRUE /\ excluded = {} /\ torn = FALSE
  /\ stats = [count |-> 0, errors |-> 0, total |-> 0]
  /\ sent = [m \in Metrics |-> 0]
  /\ started = 0 /\ changes = 0

Moves(s, from, to) == place[s] = from /\ place' = [place EXCEPT ![s] = to]

-----------------------------------------------------------------------------
(* Collect of the adapter and of the collector                             *)

Start(s) ==
  /\ started < MaxScrapes /\ started' = started + 1
  /\ Moves(s, "idle", IF enabled THEN "listing" ELSE "closed")
  /\ queue' = [queue EXCEPT ![s] = 0]
  /\ forwarded' = [forwarded EXCEPT ![s] = 0]
  /\ done' = done \ {s} /\ failed' = failed \ {s}
  /\ UNCHANGED <<cardinalityVars, todo, stats, sent, settings>>

List(s) ==
  /\ \/ /\ Moves(s, "listing", "emitting")
        /\ \E some \in SUBSET Samples : todo' = [todo EXCEPT ![s] = some]
        /\ UNCHANGED failed
     \/ /\ Moves(s, "listing", "closed")
        /\ failed' = failed \cup {s}
        /\ UNCHANGED todo
  /\ UNCHANGED <<cardinalityVars, queue, forwarded, done, stats, sent, started, settings>>

\* The filter first: what it turns down is never counted.
Look(s) ==
  /\ place[s] = "emitting" /\ caller[s] = "idle"
  /\ \E sample \in todo[s] :
       /\ todo' = [todo EXCEPT ![s] = @ \ {sample}]
       /\ IF sample.metric \in excluded THEN UNCHANGED cardinalityVars ELSE Ask(s, sample)
  /\ UNCHANGED <<place, queue, forwarded, done, failed, stats, sent, started, settings>>

Decides(s) ==
  /\ Decide(s)
  /\ UNCHANGED <<adapterVars, settings>>

Refused(s) ==
  /\ caller[s] = "no" /\ Leave(s)
  /\ UNCHANGED <<adapterVars, settings>>

\* The send blocks while the channel is full.
Send(s) ==
  /\ caller[s] = "yes" /\ Leave(s)
  /\ queue[s] < Capacity
  /\ queue' = [queue EXCEPT ![s] = @ + 1]
  /\ sent' = [sent EXCEPT ![Metric(s)] = @ + 1]
  /\ UNCHANGED <<place, todo, forwarded, done, failed, stats, started, settings>>

Close(s) ==
  /\ todo[s] = {} /\ caller[s] = "idle"
  /\ Moves(s, "emitting", "closed")
  /\ UNCHANGED <<cardinalityVars, todo, queue, forwarded, done, failed, stats, sent,
                 started, settings>>

Forward(s) ==
  /\ s \notin done /\ queue[s] > 0
  /\ queue' = [queue EXCEPT ![s] = @ - 1]
  /\ forwarded' = [forwarded EXCEPT ![s] = @ + 1]
  /\ UNCHANGED <<cardinalityVars, place, todo, done, failed, stats, sent, started, settings>>

\* Mutation: the channel is not closed when Collect fails.
ForwarderEndsUnlessFailed(s) ==
  /\ place[s] = "closed" /\ queue[s] = 0 /\ s \notin done \cup failed
  /\ done' = done \cup {s}
  /\ UNCHANGED <<cardinalityVars, place, todo, queue, forwarded, failed, stats, sent,
                 started, settings>>

ForwarderEnds(s) ==
  /\ place[s] = "closed" /\ queue[s] = 0 /\ s \notin done
  /\ done' = done \cup {s}
  /\ UNCHANGED <<cardinalityVars, place, todo, queue, forwarded, failed, stats, sent,
                 started, settings>>

RecordCollection(s) ==
  /\ stats' = IF s \in failed
              THEN [stats EXCEPT !.count = @ + 1, !.errors = @ + 1]
              ELSE [stats EXCEPT !.count = @ + 1, !.total = @ + forwarded[s]]
  /\ Moves(s, "closed", "idle")
  /\ UNCHANGED <<cardinalityVars, todo, queue, forwarded, done, failed, sent, started, settings>>

\* Mutation: the adapter does not wait for the forwarder.
RecordEarly(s) == RecordCollection(s)

Record(s) == s \in done /\ RecordCollection(s)

-----------------------------------------------------------------------------
(* Reconfigure of the registry, under no lock a scrape takes               *)

Change == changes < MaxChanges /\ changes' = changes + 1

SetEnabled(on) ==
  /\ Change /\ enabled' = on
  /\ UNCHANGED <<cardinalityVars, adapterVars, excluded, torn>>

UpdateFilterConfig(out) ==
  /\ Change /\ excluded' = out
  /\ UNCHANGED <<cardinalityVars, adapterVars, enabled, torn>>

\* SetCustomLabels fills the new map while a scrape ranges over it for its next
\* sample, and the runtime may see it. What the labels are changes no control.
SetCustomLabels(s) ==
  /\ place[s] = "emitting" /\ caller[s] = "idle" /\ todo[s] # {}
  /\ Change /\ torn' = TRUE
  /\ UNCHANGED <<cardinalityVars, adapterVars, enabled, excluded>>

LimitsChange ==
  /\ Change
  /\ \E p \in Patterns, lim \in Limits : SetLimit(p, lim)
  /\ UNCHANGED <<adapterVars, enabled, excluded, torn>>

RuntimeDies ==
  /\ \E s, t \in Callers : ReadDuringWrite(s, t)
  /\ UNCHANGED <<adapterVars, settings>>

-----------------------------------------------------------------------------

Collecting(s) ==
  \/ List(s) \/ Look(s) \/ Decides(s) \/ Refused(s) \/ Send(s) \/ Close(s)
  \/ ForwarderEnds(s) \/ Record(s)

ScrapeNext ==
  /\ ~died /\ ~torn
  /\ \/ \E s \in Callers : Start(s) \/ Collecting(s) \/ Forward(s)
     \/ \E on \in BOOLEAN : SetEnabled(on)
     \/ \E out \in SUBSET Metrics : UpdateFilterConfig(out)
     \/ \E s \in Callers : SetCustomLabels(s)
     \/ LimitsChange \/ RuntimeDies

\* Go runs every goroutine, a mutex is not kept from one that waits for it for
\* ever, SLURM's answer or the timeout of its HTTP client comes, and Prometheus
\* reads its channel until every collector has returned.
ScrapeFairness ==
  \A s \in Callers :
    /\ SF_scrapeVars(~died /\ ~torn /\ Collecting(s))
    /\ WF_scrapeVars(~died /\ ~torn /\ Forward(s))

ScrapeSpec == ScrapeInit /\ [][ScrapeNext]_scrapeVars /\ ScrapeFairness

-----------------------------------------------------------------------------
(* Properties                                                              *)

ScrapeTypeOK ==
  /\ CardinalityTypeOK
  /\ place \in [Callers -> {"idle", "listing", "emitting", "closed"}]
  /\ todo \in [Callers -> SUBSET Samples]
  /\ queue \in [Callers -> 0 .. Capacity]
  /\ forwarded \in [Callers -> Nat]
  /\ done \in SUBSET Callers /\ failed \in SUBSET Callers
  /\ enabled \in BOOLEAN /\ excluded \in SUBSET Metrics /\ torn \in BOOLEAN
  /\ stats \in [count : Nat, errors : Nat, total : Nat]
  /\ sent \in [Metrics -> Nat]
  /\ started \in 0 .. MaxScrapes /\ changes \in 0 .. MaxChanges

\* The sum of f over S, as a number of pairs: the theorems on finite sets
\* speak of cardinalities, and none of folds.
Pairs(f, S) == UNION {{x} \X (1 .. f[x]) : x \in S}
Total(f, S) == Cardinality(Pairs(f, S))

\* No sample is counted that is not exposed, and none exposed that is not
\* counted: the usage of a metric is what all scrapes together have sent of it
\* since the program began, and the total of RecordCollection is what Prometheus
\* has received, up to what is on its way. The state is well formed.
SamplesAccounted ==
  /\ ScrapeTypeOK
  /\ \A m \in Metrics :
       usage[m][Series] =
         sent[m] + Cardinality({s \in Callers :
                      Metric(s) = m /\ caller[s] \in {"counting", "yes"}})
  /\ Total(sent, Metrics) =
       stats.total + Total([s \in Callers |-> queue[s] + forwarded[s]],
                           {s \in Callers : place[s] # "idle"})

\* Every scrape ends, full channels and changes of the collector notwithstanding,
\* unless the runtime ends the program over one of the two unlocked maps.
ScrapesEnd ==
  \A s \in Callers : place[s] # "idle" ~> (place[s] = "idle" \/ died \/ torn)
=============================================================================
