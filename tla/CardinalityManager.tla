-------------------------- MODULE CardinalityManager --------------------------
(***************************************************************************)
(* The cardinality manager of internal/metrics/cardinality.go: goroutines  *)
(* that collect ask ShouldCollectMetric for every sample. The limit and    *)
(* the usage object are looked up under the read lock; the counts in the   *)
(* object are then compared with the limit without a lock, and raised      *)
(* under the write lock. A sample has a dimension Series and one per label *)
(* it carries: SeriesCount and LabelValues[l] count samples.               *)
(***************************************************************************)
EXTENDS Naturals, FiniteSets

CONSTANTS
  Callers,     \* goroutines that ask
  Metrics,     \* metric names
  Labels,      \* label names
  Wildcard,    \* a pattern that ends in ".*" and matches every metric
  Series,      \* the dimension of SeriesCount
  Limits,      \* the limits SetLimit may be called with
  None

Dimensions == {Series} \cup Labels
Patterns == Metrics \cup {Wildcard}

\* A bound None is an entry that MaxLabelValues does not have.
LimitType == [bound : [Dimensions -> Nat \cup {None}], sampled : BOOLEAN]

ASSUME CardinalityAssumption ==
  /\ IsFiniteSet(Callers) /\ Callers # {} /\ Metrics # {}
  /\ Series \notin Labels
  /\ None \notin Nat \cup LimitType \cup Callers
  /\ Limits \subseteq LimitType

VARIABLES
  limits,     \* limits[p]: the limit of pattern p, or None
  usage,      \* usage[m][d]: SeriesCount and LabelValues of m; all 0: no object
  writer,     \* who holds cm.mu for writing, or None
  caller,     \* caller[s]: where s is in ShouldCollectMetric
  query,      \* query[s]: the sample it asks about
  limit,      \* limit[s]: its copy of the limit
  unchecked,  \* unchecked[s]: dimensions it has still to compare
  allowed,    \* history: the loosest bound a caller has found for m and d
  died        \* the runtime has seen a map read and written at once

cardinalityVars == <<limits, usage, writer, caller, query, limit, unchecked, allowed, died>>

SampleType == [metric : Metrics, labels : SUBSET Labels]
DimensionsOf(sample) == {Series} \cup sample.labels
Unasked == [metric |-> CHOOSE m \in Metrics : TRUE, labels |-> {}]
NoLimit == [bound |-> [d \in Dimensions |-> None], sampled |-> FALSE]

\* MaxSeries 0 is no limit; a label may be limited to 0 values.
Bound(lim, d) == IF d = Series /\ lim.bound[d] = 0 THEN None ELSE lim.bound[d]
Matches(m, p) == p = m \/ p = Wildcard
Looser(a, b) == IF a = None \/ b = None THEN None ELSE IF a >= b THEN a ELSE b

\* A caller is idle, has asked, has its limit, compares, has passed, is counting
\* under the lock, or has been told yes or no.
Places == {"idle", "asked", "limited", "checking", "passed", "counting", "yes", "no"}

\* setupDefaultLimits sets some limits, whichever they are.
CardinalityInit ==
  /\ limits \in [Patterns -> Limits \cup {None}]
  /\ usage = [m \in Metrics |-> [d \in Dimensions |-> 0]]
  /\ writer = None
  /\ caller = [s \in Callers |-> "idle"]
  /\ query = [s \in Callers |-> Unasked]
  /\ limit = [s \in Callers |-> NoLimit]
  /\ unchecked = [s \in Callers |-> {}]
  /\ allowed = [m \in Metrics |-> [d \in Dimensions |-> 1]]
  /\ died = FALSE

Goes(s, from, to) == caller[s] = from /\ caller' = [caller EXCEPT ![s] = to]
Metric(s) == query[s].metric

-----------------------------------------------------------------------------

SetLimit(p, lim) ==
  /\ writer = None
  /\ limits' = [limits EXCEPT ![p] = lim]
  /\ UNCHANGED <<usage, writer, caller, query, limit, unchecked, allowed, died>>

Ask(s, sample) ==
  /\ Goes(s, "idle", "asked")
  /\ query' = [query EXCEPT ![s] = sample]
  /\ UNCHANGED <<limits, usage, writer, limit, unchecked, allowed, died>>

\* findApplicableLimit: a map is ranged over in any order, so any limit whose
\* pattern matches may be the one. Sampling may turn the sample down at once.
Limit(s, lim) ==
  /\ limit' = [limit EXCEPT ![s] = lim]
  /\ allowed' = [allowed EXCEPT ![Metric(s)] =
                   [d \in Dimensions |-> Looser(@[d], Bound(lim, d))]]

FindLimit(s) ==
  /\ writer = None
  /\ \E p \in Patterns :
       /\ Matches(Metric(s), p) /\ limits[p] # None
       /\ Limit(s, limits[p])
       /\ \/ Goes(s, "asked", "limited")
          \/ limits[p].sampled /\ Goes(s, "asked", "no")
  /\ UNCHANGED <<limits, usage, writer, query, unchecked, died>>

FindNone(s) ==
  /\ writer = None
  /\ \A p \in Patterns : Matches(Metric(s), p) => limits[p] = None
  /\ Limit(s, NoLimit)
  /\ Goes(s, "asked", "passed")
  /\ UNCHANGED <<limits, usage, writer, query, unchecked, died>>

\* Without a usage object there is nothing to compare, now or later.
ReadUsage(s) ==
  /\ writer = None
  /\ IF usage[Metric(s)][Series] = 0
     THEN /\ Goes(s, "limited", "passed")
          /\ UNCHANGED unchecked
     ELSE /\ Goes(s, "limited", "checking")
          /\ unchecked' = [unchecked EXCEPT ![s] = DimensionsOf(query[s])]
  /\ UNCHANGED <<limits, usage, writer, query, limit, allowed, died>>

\* Mutation: the limit itself is still below the limit.
ExceededByOne(s, d) ==
  LET b == Bound(limit[s], d) IN b # None /\ usage[Metric(s)][d] > b

Exceeded(s, d) ==
  LET b == Bound(limit[s], d) IN b # None /\ usage[Metric(s)][d] >= b

\* The series first, then the labels in any order; no lock is held.
Check(s, d) ==
  /\ d \in unchecked[s] /\ (d = Series \/ Series \notin unchecked[s])
  /\ IF Exceeded(s, d) THEN Goes(s, "checking", "no")
     ELSE Goes(s, "checking", IF unchecked[s] = {d} THEN "passed" ELSE "checking")
  /\ unchecked' = [unchecked EXCEPT ![s] = IF Exceeded(s, d) THEN {} ELSE @ \ {d}]
  /\ UNCHANGED <<limits, usage, writer, query, limit, allowed, died>>

\* LabelValues is read while updateUsage writes it: the runtime may end the
\* program.
ReadDuringWrite(s, t) ==
  /\ caller[s] = "checking" /\ Series \notin unchecked[s]
  /\ \E d \in unchecked[s] : Bound(limit[s], d) # None
  /\ caller[t] = "counting" /\ query[t].labels # {} /\ Metric(s) = Metric(t)
  /\ died' = TRUE
  /\ UNCHANGED <<limits, usage, writer, caller, query, limit, unchecked, allowed>>

CountSeries(s) ==
  /\ writer = None /\ writer' = s
  /\ Goes(s, "passed", "counting")
  /\ usage' = [usage EXCEPT ![Metric(s)][Series] = @ + 1]
  /\ UNCHANGED <<limits, query, limit, unchecked, allowed, died>>

CountLabels(s) ==
  /\ writer' = None
  /\ Goes(s, "counting", "yes")
  /\ usage' = [usage EXCEPT ![Metric(s)] =
                 [d \in Dimensions |-> IF d \in query[s].labels THEN @[d] + 1 ELSE @[d]]]
  /\ UNCHANGED <<limits, query, limit, unchecked, allowed, died>>

\* The rest of ShouldCollectMetric once it has been asked.
Decide(s) ==
  \/ FindLimit(s) \/ FindNone(s) \/ ReadUsage(s)
  \/ \E d \in Dimensions : Check(s, d)
  \/ CountSeries(s) \/ CountLabels(s)

\* The answer is back, whatever the caller does with it.
Leave(s) ==
  /\ Goes(s, caller[s], "idle") /\ caller[s] \in {"yes", "no"}
  /\ query' = [query EXCEPT ![s] = Unasked]
  /\ limit' = [limit EXCEPT ![s] = NoLimit]
  /\ UNCHANGED <<limits, usage, writer, unchecked, allowed, died>>

CardinalityNext ==
  /\ ~died
  /\ \/ \E p \in Patterns, lim \in Limits : SetLimit(p, lim)
     \/ \E s \in Callers :
          \/ \E sample \in SampleType : Ask(s, sample)
          \/ Decide(s)
          \/ \E t \in Callers : ReadDuringWrite(s, t)
          \/ Leave(s)

CardinalitySpec == CardinalityInit /\ [][CardinalityNext]_cardinalityVars

-----------------------------------------------------------------------------

CardinalityTypeOK ==
  /\ limits \in [Patterns -> Limits \cup {None}]
  /\ usage \in [Metrics -> [Dimensions -> Nat]]
  /\ writer \in Callers \cup {None}
  /\ caller \in [Callers -> Places]
  /\ query \in [Callers -> SampleType]
  /\ limit \in [Callers -> LimitType]
  /\ unchecked \in [Callers -> SUBSET Dimensions]
  /\ allowed \in [Metrics -> [Dimensions -> (Nat \ {0}) \cup {None}]]
  /\ died \in BOOLEAN

\* A count goes past the loosest limit ever found for its metric by less than
\* the number of goroutines that ask, however their unlocked comparisons and
\* their counting interleave and whenever limits change; a limit of 0 lets as
\* many through as one of 1.
LimitHolds ==
  \A m \in Metrics, d \in Dimensions :
    allowed[m][d] # None => usage[m][d] < allowed[m][d] + Cardinality(Callers)
=============================================================================
