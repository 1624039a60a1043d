----------------------------- MODULE ScrapeProofs -----------------------------
(***************************************************************************)
(* LimitHolds for any number of goroutines, metrics, labels and limits. A  *)
(* goroutine that has compared a count with its limit, and not yet raised  *)
(* the count, is pending for that count. The count and those pending for   *)
(* it stay together below the limit plus the number of goroutines: whoever *)
(* becomes pending has seen the count itself below the limit. Scrapes use  *)
(* the cardinality manager as its specification says: every step of a      *)
(* scrape or of a reload is a step of the manager or leaves it alone. So   *)
(* what is proved of the manager holds of scrapes.                         *)
(*                                                                         *)
(* SamplesAccounted for any number of overlapping scrapes: the two         *)
(* equations say where every sample is, and need to know besides that only *)
(* a scrape which emits asks the manager, that a failed one has nothing in *)
(* its channel, and that a forwarder which is done has emptied it.         *)
(*                                                                         *)
(* CacheAccounts of the intelligent cache, whose sizes are summed as the   *)
(* samples are, for any keys, goroutines and limits. A Get that has read   *)
(* an entry subtracts the size it read: if the entry under the key has the *)
(* same id it is the same entry, and an id is never given twice.           *)
(***************************************************************************)
EXTENDS Scrape, IntelligentCache, FiniteSetTheorems, TLAPS

Pending(m, d) ==
  {s \in Callers :
     /\ Metric(s) = m /\ d \in DimensionsOf(query[s])
     /\ \/ caller[s] = "passed"
        \/ caller[s] = "checking" /\ d \notin unchecked[s]
        \/ caller[s] = "counting" /\ d # Series}

\* What a caller has found is remembered in allowed.
LimitsRemembered ==
  \A s \in Callers, d \in Dimensions :
    caller[s] \in {"limited", "checking"} /\ allowed[Metric(s)][d] # None =>
      /\ Bound(limit[s], d) \in Nat
      /\ Bound(limit[s], d) <= allowed[Metric(s)][d]

\* An object without series has counted nothing.
SeriesFirst ==
  /\ \A s \in Callers : caller[s] = "counting" => usage[Metric(s)][Series] # 0
  /\ \A m \in Metrics : usage[m][Series] = 0 => \A d \in Dimensions : usage[m][d] = 0

Below(m, d) ==
  allowed[m][d] # None =>
    usage[m][d] + Cardinality(Pending(m, d)) < allowed[m][d] + Cardinality(Callers)

Headroom == \A m \in Metrics, d \in Dimensions : Below(m, d)

IInv == CardinalityTypeOK /\ LimitsRemembered /\ SeriesFirst /\ Headroom

-----------------------------------------------------------------------------

LEMMA CallersCounted == Cardinality(Callers) \in Nat /\ Cardinality(Callers) > 0
  BY CardinalityAssumption, FS_CardinalityType, FS_EmptySet

LEMMA PendingCounted ==
  \A m, d : /\ IsFiniteSet(Pending(m, d))
            /\ Cardinality(Pending(m, d)) \in Nat
            /\ Cardinality(Pending(m, d)) <= Cardinality(Callers)
<1> SUFFICES ASSUME NEW m, NEW d
             PROVE  /\ IsFiniteSet(Pending(m, d))
                    /\ Cardinality(Pending(m, d)) \in Nat
                    /\ Cardinality(Pending(m, d)) <= Cardinality(Callers)
  OBVIOUS
<1>1. Pending(m, d) \in SUBSET Callers
  BY DEF Pending
<1> QED BY <1>1, CardinalityAssumption, FS_Subset, FS_CardinalityType

LEMMA NextPendingCounted ==
  ASSUME NEW m, NEW d
  PROVE  /\ IsFiniteSet(Pending(m, d)')
         /\ Cardinality(Pending(m, d)') \in Nat
         /\ Cardinality(Pending(m, d)') <= Cardinality(Callers)
<1>1. Pending(m, d)' \in SUBSET Callers
  BY DEF Pending
<1> QED BY <1>1, CardinalityAssumption, FS_Subset, FS_CardinalityType

\* The three ways a step may treat a count and those pending for it.
Kept(m, d) ==
  /\ usage'[m][d] = usage[m][d]
  /\ Pending(m, d)' \subseteq Pending(m, d)
  /\ allowed'[m][d] # None => allowed[m][d] # None /\ allowed[m][d] <= allowed'[m][d]

SeenBelow(m, d) == allowed'[m][d] # None => usage'[m][d] < allowed'[m][d]

Counted(m, d) ==
  \E s \in Pending(m, d) :
    /\ usage'[m][d] = usage[m][d] + 1
    /\ Pending(m, d)' = Pending(m, d) \ {s}
    /\ allowed'[m][d] = allowed[m][d]

LEMMA StaysBelow ==
  ASSUME CardinalityTypeOK, CardinalityTypeOK', NEW m \in Metrics, NEW d \in Dimensions,
         Below(m, d), Kept(m, d) \/ SeenBelow(m, d) \/ Counted(m, d)
  PROVE  Below(m, d)'
<1> SUFFICES ASSUME allowed'[m][d] # None
             PROVE  usage'[m][d] + Cardinality(Pending(m, d)') <
                      allowed'[m][d] + Cardinality(Callers)
  BY DEF Below
<1>1. /\ usage[m][d] \in Nat /\ usage'[m][d] \in Nat
      /\ allowed'[m][d] \in Nat \ {0}
      /\ allowed[m][d] # None => allowed[m][d] \in Nat \ {0}
  BY DEF CardinalityTypeOK
<1>2. /\ Cardinality(Callers) \in Nat
      /\ Cardinality(Pending(m, d)) \in Nat /\ Cardinality(Pending(m, d)') \in Nat
      /\ Cardinality(Pending(m, d)') <= Cardinality(Callers)
      /\ IsFiniteSet(Pending(m, d))
  BY CallersCounted, PendingCounted, NextPendingCounted
<1>3. CASE Kept(m, d)
  <2>1. Cardinality(Pending(m, d)') <= Cardinality(Pending(m, d))
    BY <1>2, <1>3, FS_Subset DEF Kept
  <2> QED BY <1>1, <1>2, <1>3, <2>1 DEF Kept, Below
<1>4. CASE SeenBelow(m, d)
  BY <1>1, <1>2, <1>4 DEF SeenBelow
<1>5. CASE Counted(m, d)
  <2>1. PICK s \in Pending(m, d) :
          /\ usage'[m][d] = usage[m][d] + 1
          /\ Pending(m, d)' = Pending(m, d) \ {s}
          /\ allowed'[m][d] = allowed[m][d]
    BY <1>5 DEF Counted
  <2>2. Cardinality(Pending(m, d)') = Cardinality(Pending(m, d)) - 1
    BY <1>2, <2>1, FS_RemoveElement
  <2> QED BY <1>1, <1>2, <2>1, <2>2 DEF Below
<1> QED BY <1>3, <1>4, <1>5

-----------------------------------------------------------------------------

LEMMA LimitFacts ==
  /\ NoLimit \in LimitType
  /\ \A lim \in LimitType, d \in Dimensions : Bound(lim, d) \in Nat \cup {None}
  /\ Unasked \in SampleType
  /\ Series \in Dimensions
<1>1. NoLimit \in LimitType
  BY DEF NoLimit, LimitType
<1>2. \A lim \in LimitType, d \in Dimensions : Bound(lim, d) \in Nat \cup {None}
  BY DEF LimitType, Bound
<1>3. Unasked \in SampleType
  BY CardinalityAssumption DEF Unasked, SampleType
<1> QED BY <1>1, <1>2, <1>3 DEF Dimensions

LEMMA LooserFacts ==
  ASSUME NEW a \in (Nat \ {0}) \cup {None}, NEW b \in Nat \cup {None}
  PROVE  /\ Looser(a, b) \in (Nat \ {0}) \cup {None}
         /\ Looser(a, b) # None =>
              a # None /\ a <= Looser(a, b) /\ b \in Nat /\ b <= Looser(a, b)
  BY CardinalityAssumption DEF Looser

LEMMA InitIInv == CardinalityInit => IInv
<1> SUFFICES ASSUME CardinalityInit PROVE IInv
  OBVIOUS
<1>1. CardinalityTypeOK
  <2>1. /\ limits \in [Patterns -> Limits \cup {None}]
        /\ writer \in Callers \cup {None}
        /\ died \in BOOLEAN
    BY DEF CardinalityInit
  <2>4. usage \in [Metrics -> [Dimensions -> Nat]]
    <3>1. [d \in Dimensions |-> 0] \in [Dimensions -> Nat]
      OBVIOUS
    <3> QED BY <3>1 DEF CardinalityInit
  <2>5. allowed \in [Metrics -> [Dimensions -> (Nat \ {0}) \cup {None}]]
    <3>1. [d \in Dimensions |-> 1] \in [Dimensions -> (Nat \ {0}) \cup {None}]
      OBVIOUS
    <3> QED BY <3>1 DEF CardinalityInit
  <2>2. /\ caller \in [Callers -> Places]
        /\ unchecked \in [Callers -> SUBSET Dimensions]
    BY DEF CardinalityInit, Places
  <2>3. query \in [Callers -> SampleType] /\ limit \in [Callers -> LimitType]
    BY LimitFacts DEF CardinalityInit
  <2> QED BY <2>1, <2>2, <2>3, <2>4, <2>5 DEF CardinalityTypeOK
<1>2. LimitsRemembered /\ SeriesFirst
  BY DEF CardinalityInit, LimitsRemembered, SeriesFirst
<1>3. Headroom
  <2> SUFFICES ASSUME NEW m \in Metrics, NEW d \in Dimensions PROVE Below(m, d)
    BY DEF Headroom
  <2>1. usage[m][d] = 0 /\ allowed[m][d] = 1
    BY DEF CardinalityInit
  <2>2. Pending(m, d) = {}
    BY DEF CardinalityInit, Pending
  <2> QED BY <2>1, <2>2, CallersCounted, FS_EmptySet DEF Below
<1> QED BY <1>1, <1>2, <1>3 DEF IInv

-----------------------------------------------------------------------------

\* What a step has to show besides the types: nothing forgotten, the series
\* first, and one of the three ways for every count.
Step == /\ LimitsRemembered' /\ SeriesFirst'
        /\ \A m \in Metrics, d \in Dimensions :
             Kept(m, d) \/ SeenBelow(m, d) \/ Counted(m, d)

LEMMA StepSuffices == IInv /\ CardinalityTypeOK' /\ Step => IInv'
<1> SUFFICES ASSUME IInv, CardinalityTypeOK', Step PROVE IInv'
  OBVIOUS
<1>1. ASSUME NEW m \in Metrics, NEW d \in Dimensions PROVE Below(m, d)'
  BY StaysBelow DEF IInv, Headroom, Step
<1> QED BY <1>1 DEF IInv, Headroom, Step

LEMMA SetLimitStep ==
  ASSUME IInv, NEW p \in Patterns, NEW lim \in Limits, SetLimit(p, lim)
  PROVE  CardinalityTypeOK' /\ Step
<1>1. CardinalityTypeOK'
  BY DEF IInv, CardinalityTypeOK, SetLimit
<1>2. LimitsRemembered' /\ SeriesFirst'
  BY DEF IInv, SetLimit, LimitsRemembered, SeriesFirst, Metric
<1>3. ASSUME NEW m \in Metrics, NEW d \in Dimensions PROVE Kept(m, d)
  <2>1. allowed[m][d] # None => allowed[m][d] <= allowed[m][d]
    BY DEF IInv, CardinalityTypeOK
  <2>2. Pending(m, d)' = Pending(m, d)
    BY DEF SetLimit, Pending, Metric
  <2> QED BY <2>1, <2>2 DEF Kept, SetLimit
<1> QED BY <1>1, <1>2, <1>3 DEF Step

\* Steps of s that leave the counts and what is allowed alone.
LEMMA QuietSteps ==
  ASSUME CardinalityTypeOK, UNCHANGED <<usage, allowed>>,
         NEW m \in Metrics, NEW d \in Dimensions,
         Pending(m, d)' \subseteq Pending(m, d)
  PROVE  Kept(m, d)
<1>1. allowed[m][d] # None => allowed[m][d] <= allowed[m][d]
  BY DEF CardinalityTypeOK
<1> QED BY <1>1 DEF Kept

LEMMA AskStep ==
  ASSUME IInv, NEW s \in Callers, NEW sample \in SampleType, Ask(s, sample)
  PROVE  CardinalityTypeOK' /\ Step
<1> USE DEF Ask, Goes
<1>1. CardinalityTypeOK'
  BY DEF IInv, CardinalityTypeOK, Places
<1>2. \A t \in Callers : /\ t # s => caller'[t] = caller[t] /\ query'[t] = query[t]
                         /\ caller[s] = "idle" /\ caller'[s] = "asked"
  BY DEF IInv, CardinalityTypeOK
<1>3. LimitsRemembered' /\ SeriesFirst'
  BY <1>2 DEF IInv, LimitsRemembered, SeriesFirst, Metric
<1>4. ASSUME NEW m \in Metrics, NEW d \in Dimensions PROVE Kept(m, d)
  <2>1. Pending(m, d)' \subseteq Pending(m, d)
    BY <1>2 DEF Pending, Metric, DimensionsOf
  <2> QED BY <2>1, QuietSteps DEF IInv
<1> QED BY <1>1, <1>3, <1>4 DEF Step

LEMMA LeaveStep ==
  ASSUME IInv, NEW s \in Callers, Leave(s)
  PROVE  CardinalityTypeOK' /\ Step
<1> USE DEF Leave, Goes
<1>1. CardinalityTypeOK'
  BY LimitFacts DEF IInv, CardinalityTypeOK, Places
<1>2. \A t \in Callers : /\ t # s => /\ caller'[t] = caller[t] /\ query'[t] = query[t]
                                     /\ limit'[t] = limit[t]
                         /\ caller'[s] = "idle"
  BY DEF IInv, CardinalityTypeOK
<1>3. LimitsRemembered' /\ SeriesFirst'
  BY <1>2 DEF IInv, LimitsRemembered, SeriesFirst, Metric
<1>4. ASSUME NEW m \in Metrics, NEW d \in Dimensions PROVE Kept(m, d)
  <2>1. Pending(m, d)' \subseteq Pending(m, d)
    BY <1>2 DEF Pending, Metric, DimensionsOf
  <2> QED BY <2>1, QuietSteps DEF IInv
<1> QED BY <1>1, <1>3, <1>4 DEF Step

\* findApplicableLimit: what is allowed grows, to cover the limit found.
LEMMA LimitStep ==
  ASSUME IInv, NEW s \in Callers, NEW lim \in LimitType, Limit(s, lim),
         UNCHANGED <<usage, query>>
  PROVE  /\ limit' \in [Callers -> LimitType]
         /\ allowed' \in [Metrics -> [Dimensions -> (Nat \ {0}) \cup {None}]]
         /\ \A t \in Callers : t # s => limit'[t] = limit[t]
         /\ limit'[s] = lim
         /\ \A m \in Metrics, d \in Dimensions : allowed'[m][d] # None =>
              /\ allowed[m][d] # None /\ allowed[m][d] <= allowed'[m][d]
              /\ m = Metric(s) => Bound(lim, d) \in Nat /\ Bound(lim, d) <= allowed'[m][d]
<1> USE DEF Limit
<1>1. Metric(s) \in Metrics
  BY DEF IInv, CardinalityTypeOK, SampleType, Metric
<1>2. ASSUME NEW d \in Dimensions
      PROVE  /\ allowed'[Metric(s)][d] = Looser(allowed[Metric(s)][d], Bound(lim, d))
             /\ allowed[Metric(s)][d] \in (Nat \ {0}) \cup {None}
             /\ Bound(lim, d) \in Nat \cup {None}
  BY <1>1, LimitFacts DEF IInv, CardinalityTypeOK
<1>3. ASSUME NEW m \in Metrics, m # Metric(s) PROVE allowed'[m] = allowed[m]
  BY <1>3 DEF IInv, CardinalityTypeOK
<1>4. allowed' \in [Metrics -> [Dimensions -> (Nat \ {0}) \cup {None}]]
  <2>1. [d \in Dimensions |-> Looser(allowed[Metric(s)][d], Bound(lim, d))]
          \in [Dimensions -> (Nat \ {0}) \cup {None}]
    BY <1>2, LooserFacts
  <2> QED BY <1>1, <2>1 DEF IInv, CardinalityTypeOK
<1>5. limit' \in [Callers -> LimitType] /\ limit'[s] = lim
  BY DEF IInv, CardinalityTypeOK
<1>6. ASSUME NEW m \in Metrics, NEW d \in Dimensions, allowed'[m][d] # None
      PROVE  /\ allowed[m][d] # None /\ allowed[m][d] <= allowed'[m][d]
             /\ m = Metric(s) => Bound(lim, d) \in Nat /\ Bound(lim, d) <= allowed'[m][d]
  <2>1. CASE m = Metric(s)
    <3> DEFINE a == allowed[m][d]
               b == Bound(lim, d)
    <3>1. /\ a \in (Nat \ {0}) \cup {None} /\ b \in Nat \cup {None}
          /\ allowed'[m][d] = Looser(a, b)
      BY <1>2, <2>1
    <3>2. Looser(a, b) # None
      BY <1>6, <3>1
    <3> HIDE DEF a, b
    <3>3. a # None /\ a <= Looser(a, b) /\ b \in Nat /\ b <= Looser(a, b)
      BY <3>1, <3>2, LooserFacts
    <3> QED BY <3>1, <3>3 DEF a, b
  <2>2. CASE m # Metric(s)
    BY <1>3, <1>6, <2>2 DEF IInv, CardinalityTypeOK
  <2> QED BY <2>1, <2>2
<1>7. \A t \in Callers : t # s => limit'[t] = limit[t]
  BY DEF IInv, CardinalityTypeOK
<1> QED BY <1>4, <1>5, <1>6, <1>7

LEMMA FindLimitStep ==
  ASSUME IInv, NEW s \in Callers, FindLimit(s)
  PROVE  CardinalityTypeOK' /\ Step
<1> USE DEF Goes
<1>1. PICK lim \in LimitType : Limit(s, lim)
  <2>1. PICK p \in Patterns : limits[p] # None /\ Limit(s, limits[p])
    BY DEF FindLimit
  <2>2. limits[p] \in LimitType
    BY <2>1, CardinalityAssumption DEF IInv, CardinalityTypeOK
  <2> QED BY <2>1, <2>2
<1>2. /\ caller[s] = "asked" /\ caller'[s] \in {"limited", "no"}
      /\ \A t \in Callers : t # s => caller'[t] = caller[t]
      /\ caller' \in [Callers -> Places]
      /\ UNCHANGED <<limits, usage, writer, query, unchecked, died>>
  BY DEF FindLimit, IInv, CardinalityTypeOK, Places
<1>3. CardinalityTypeOK'
  BY <1>1, <1>2, LimitStep DEF IInv, CardinalityTypeOK
<1>4. LimitsRemembered'
  <2> SUFFICES ASSUME NEW t \in Callers, NEW d \in Dimensions,
                      caller'[t] \in {"limited", "checking"},
                      allowed'[Metric(t)][d] # None
               PROVE  /\ Bound(limit'[t], d) \in Nat
                      /\ Bound(limit'[t], d) <= allowed'[Metric(t)][d]
    BY <1>2 DEF LimitsRemembered, Metric
  <2>1. Metric(t) \in Metrics
    BY DEF IInv, CardinalityTypeOK, SampleType, Metric
  <2>2. CASE t = s
    BY <1>1, <1>2, <2>1, <2>2, LimitStep
  <2>3. CASE t # s
    <3>1. /\ limit'[t] = limit[t] /\ caller'[t] = caller[t]
          /\ allowed[Metric(t)][d] # None
          /\ allowed[Metric(t)][d] <= allowed'[Metric(t)][d]
      BY <1>1, <1>2, <2>1, <2>3, LimitStep
    <3>2. Bound(limit[t], d) \in Nat /\ Bound(limit[t], d) <= allowed[Metric(t)][d]
      BY <3>1 DEF IInv, LimitsRemembered
    <3>3. allowed[Metric(t)][d] \in Nat /\ allowed'[Metric(t)][d] \in Nat
      BY <1>3, <2>1, <3>1 DEF IInv, CardinalityTypeOK
    <3> QED BY <3>1, <3>2, <3>3
  <2> QED BY <2>2, <2>3
<1>5. SeriesFirst'
  BY <1>2 DEF IInv, SeriesFirst, Metric
<1>6. ASSUME NEW m \in Metrics, NEW d \in Dimensions PROVE Kept(m, d)
  <2>1. Pending(m, d)' \subseteq Pending(m, d)
    BY <1>2 DEF Pending, Metric
  <2> QED BY <1>1, <1>2, <2>1, LimitStep DEF Kept
<1> QED BY <1>3, <1>4, <1>5, <1>6 DEF Step

LEMMA FindNoneStep ==
  ASSUME IInv, NEW s \in Callers, FindNone(s)
  PROVE  CardinalityTypeOK' /\ Step
<1> USE DEF Goes
<1>1. NoLimit \in LimitType /\ Limit(s, NoLimit)
  BY LimitFacts DEF FindNone
<1>2. /\ caller[s] = "asked" /\ caller'[s] = "passed"
      /\ \A t \in Callers : t # s => caller'[t] = caller[t]
      /\ caller' \in [Callers -> Places]
      /\ UNCHANGED <<limits, usage, writer, query, unchecked, died>>
  BY DEF FindNone, IInv, CardinalityTypeOK, Places
<1>3. CardinalityTypeOK'
  BY <1>1, <1>2, LimitStep DEF IInv, CardinalityTypeOK
<1>4. LimitsRemembered'
  <2> SUFFICES ASSUME NEW t \in Callers, NEW d \in Dimensions,
                      caller'[t] \in {"limited", "checking"},
                      allowed'[Metric(t)][d] # None
               PROVE  /\ Bound(limit'[t], d) \in Nat
                      /\ Bound(limit'[t], d) <= allowed'[Metric(t)][d]
    BY <1>2 DEF LimitsRemembered, Metric
  <2>1. Metric(t) \in Metrics /\ t # s
    BY <1>2 DEF IInv, CardinalityTypeOK, SampleType, Metric
  <2>2. /\ limit'[t] = limit[t] /\ caller'[t] = caller[t]
        /\ allowed[Metric(t)][d] # None
        /\ allowed[Metric(t)][d] <= allowed'[Metric(t)][d]
    BY <1>1, <1>2, <2>1, LimitStep
  <2>3. Bound(limit[t], d) \in Nat /\ Bound(limit[t], d) <= allowed[Metric(t)][d]
    BY <2>2 DEF IInv, LimitsRemembered
  <2>4. allowed[Metric(t)][d] \in Nat /\ allowed'[Metric(t)][d] \in Nat
    BY <1>3, <2>1, <2>2 DEF IInv, CardinalityTypeOK
  <2> QED BY <2>2, <2>3, <2>4
<1>5. SeriesFirst'
  BY <1>2 DEF IInv, SeriesFirst, Metric
<1>6. ASSUME NEW m \in Metrics, NEW d \in Dimensions PROVE Kept(m, d) \/ SeenBelow(m, d)
  <2>1. CASE m = Metric(s)
    <3>1. Bound(NoLimit, d) \notin Nat
      BY CardinalityAssumption DEF Bound, NoLimit
    <3>2. allowed'[m][d] = None
      BY <1>1, <1>2, <2>1, <3>1, LimitStep
    <3> QED BY <3>2 DEF SeenBelow
  <2>2. CASE m # Metric(s)
    <3>1. Pending(m, d)' \subseteq Pending(m, d)
      BY <1>2, <2>2 DEF Pending, Metric
    <3> QED BY <1>1, <1>2, <3>1, LimitStep DEF Kept
  <2> QED BY <2>1, <2>2
<1> QED BY <1>3, <1>4, <1>5, <1>6 DEF Step

\* Without a usage object the count is 0, and every limit lets one through.
LEMMA ReadUsageStep ==
  ASSUME IInv, NEW s \in Callers, ReadUsage(s)
  PROVE  CardinalityTypeOK' /\ Step
<1> USE DEF Goes
<1>1. /\ caller[s] = "limited"
      /\ \A t \in Callers : t # s => /\ caller'[t] = caller[t]
                                     /\ unchecked'[t] = unchecked[t]
      /\ \/ usage[Metric(s)][Series] = 0 /\ caller'[s] = "passed"
         \/ caller'[s] = "checking" /\ unchecked'[s] = DimensionsOf(query[s])
      /\ UNCHANGED <<limits, usage, writer, query, limit, allowed, died>>
  BY DEF ReadUsage, IInv, CardinalityTypeOK
<1>2. CardinalityTypeOK'
  <2>1. query[s].labels \in SUBSET Labels
    BY DEF IInv, CardinalityTypeOK, SampleType
  <2>2. DimensionsOf(query[s]) \in SUBSET Dimensions
    BY <2>1 DEF DimensionsOf, Dimensions
  <2>3. caller' \in [Callers -> Places]
    BY DEF ReadUsage, IInv, CardinalityTypeOK, Places
  <2>4. unchecked' \in [Callers -> SUBSET Dimensions]
    BY <2>2 DEF ReadUsage, IInv, CardinalityTypeOK
  <2> QED BY <1>1, <2>3, <2>4 DEF IInv, CardinalityTypeOK
<1>3. LimitsRemembered' /\ SeriesFirst'
  BY <1>1 DEF IInv, LimitsRemembered, SeriesFirst, Metric
<1>4. ASSUME NEW m \in Metrics, NEW d \in Dimensions PROVE Kept(m, d) \/ SeenBelow(m, d)
  <2>1. CASE m = Metric(s) /\ caller'[s] = "passed"
    <3>1. usage'[m][d] = 0
      BY <1>1, <2>1 DEF IInv, SeriesFirst
    <3>2. allowed'[m][d] # None => allowed'[m][d] > 0
      BY <1>2 DEF CardinalityTypeOK
    <3> QED BY <3>1, <3>2 DEF SeenBelow
  <2>2. CASE m # Metric(s) \/ caller'[s] # "passed"
    <3>1. Pending(m, d)' \subseteq Pending(m, d)
      BY <1>1, <2>2 DEF Pending, Metric
    <3> QED BY <1>1, <3>1, QuietSteps DEF IInv
  <2> QED BY <2>1, <2>2
<1> QED BY <1>2, <1>3, <1>4 DEF Step

\* Who finds the count below its limit has found it below what is allowed.
LEMMA CheckStep ==
  ASSUME IInv, NEW s \in Callers, NEW e \in Dimensions, Check(s, e)
  PROVE  CardinalityTypeOK' /\ Step
<1> USE DEF Goes
<1>1. /\ caller[s] = "checking" /\ e \in unchecked[s]
      /\ \A t \in Callers : t # s => /\ caller'[t] = caller[t]
                                     /\ unchecked'[t] = unchecked[t]
      /\ \/ caller'[s] = "no" /\ unchecked'[s] = {}
         \/ /\ ~Exceeded(s, e) /\ unchecked'[s] = unchecked[s] \ {e}
            /\ \/ caller'[s] = "checking"
               \/ caller'[s] = "passed" /\ unchecked[s] = {e}
      /\ UNCHANGED <<limits, usage, writer, query, limit, allowed, died>>
  BY DEF Check, IInv, CardinalityTypeOK
<1>2. CardinalityTypeOK'
  <2>1. caller' \in [Callers -> Places]
    BY DEF Check, IInv, CardinalityTypeOK, Places
  <2>2. unchecked' \in [Callers -> SUBSET Dimensions]
    BY DEF Check, IInv, CardinalityTypeOK
  <2> QED BY <1>1, <2>1, <2>2 DEF IInv, CardinalityTypeOK
<1>3. LimitsRemembered' /\ SeriesFirst'
  BY <1>1 DEF IInv, LimitsRemembered, SeriesFirst, Metric
<1>4. ASSUME NEW m \in Metrics, NEW d \in Dimensions PROVE Kept(m, d) \/ SeenBelow(m, d)
  <2>1. CASE m = Metric(s) /\ d = e /\ caller'[s] # "no"
    <3> SUFFICES ASSUME allowed[m][d] # None PROVE usage[m][d] < allowed[m][d]
      BY <1>1 DEF SeenBelow
    <3>1. Bound(limit[s], d) \in Nat /\ Bound(limit[s], d) <= allowed[m][d]
      BY <1>1, <2>1 DEF IInv, LimitsRemembered
    <3>2. usage[m][d] < Bound(limit[s], d)
      <4>1. ~(usage[m][d] >= Bound(limit[s], d))
        BY <1>1, <2>1, <3>1, CardinalityAssumption DEF Exceeded
      <4> QED BY <3>1, <4>1 DEF IInv, CardinalityTypeOK
    <3> QED BY <3>1, <3>2 DEF IInv, CardinalityTypeOK
  <2>2. CASE m # Metric(s) \/ d # e \/ caller'[s] = "no"
    <3>1. Pending(m, d)' \subseteq Pending(m, d)
      BY <1>1, <2>2 DEF Pending, Metric
    <3> QED BY <1>1, <3>1, QuietSteps DEF IInv
  <2> QED BY <2>1, <2>2
<1> QED BY <1>2, <1>3, <1>4 DEF Step

LEMMA CountSeriesStep ==
  ASSUME IInv, NEW s \in Callers, CountSeries(s)
  PROVE  CardinalityTypeOK' /\ Step
<1> USE DEF Goes
<1>1. Metric(s) \in Metrics /\ Series \in Dimensions
  BY LimitFacts DEF IInv, CardinalityTypeOK, SampleType, Metric
<1>2. /\ caller[s] = "passed" /\ caller'[s] = "counting"
      /\ \A t \in Callers : t # s => caller'[t] = caller[t]
      /\ UNCHANGED <<limits, query, limit, unchecked, allowed, died>>
  BY DEF CountSeries, IInv, CardinalityTypeOK
<1>3. /\ usage'[Metric(s)][Series] = usage[Metric(s)][Series] + 1
      /\ \A m \in Metrics, d \in Dimensions :
           m # Metric(s) \/ d # Series => usage'[m][d] = usage[m][d]
  BY <1>1 DEF CountSeries, IInv, CardinalityTypeOK
<1>4. CardinalityTypeOK'
  <2>1. caller' \in [Callers -> Places] /\ writer' \in Callers \cup {None}
    BY DEF CountSeries, IInv, CardinalityTypeOK, Places
  <2>2. usage' \in [Metrics -> [Dimensions -> Nat]]
    BY <1>1 DEF CountSeries, IInv, CardinalityTypeOK
  <2> QED BY <1>2, <2>1, <2>2 DEF IInv, CardinalityTypeOK
<1>5. LimitsRemembered'
  BY <1>2 DEF IInv, LimitsRemembered, Metric
<1>6. SeriesFirst'
  <2>1. usage[Metric(s)][Series] \in Nat
    BY <1>1 DEF IInv, CardinalityTypeOK
  <2>2. ASSUME NEW t \in Callers, caller'[t] = "counting"
        PROVE  usage'[Metric(t)][Series] # 0
    <3>1. CASE Metric(t) = Metric(s)
      BY <1>3, <2>1, <3>1
    <3>2. CASE Metric(t) # Metric(s)
      <4>1. Metric(t) \in Metrics /\ caller[t] = "counting"
        BY <1>2, <2>2, <3>2 DEF IInv, CardinalityTypeOK, SampleType, Metric
      <4> QED BY <1>1, <1>3, <3>2, <4>1 DEF IInv, SeriesFirst
    <3> QED BY <3>1, <3>2
  <2>3. ASSUME NEW m \in Metrics, usage'[m][Series] = 0, NEW d \in Dimensions
        PROVE  usage'[m][d] = 0
    BY <1>1, <1>3, <2>1, <2>3 DEF IInv, SeriesFirst
  <2> QED BY <1>2, <2>2, <2>3 DEF SeriesFirst, Metric
<1>7. ASSUME NEW m \in Metrics, NEW d \in Dimensions PROVE Kept(m, d) \/ Counted(m, d)
  <2>1. CASE m = Metric(s) /\ d = Series
    <3>1. s \in Pending(m, d) /\ Pending(m, d)' = Pending(m, d) \ {s}
      BY <1>2, <2>1 DEF Pending, Metric, DimensionsOf
    <3> QED BY <1>2, <1>3, <2>1, <3>1 DEF Counted
  <2>2. CASE m # Metric(s) \/ d # Series
    <3>1. Pending(m, d)' \subseteq Pending(m, d)
      BY <1>2 DEF Pending, Metric
    <3>2. allowed[m][d] # None => allowed[m][d] <= allowed[m][d]
      BY DEF IInv, CardinalityTypeOK
    <3> QED BY <1>2, <1>3, <2>2, <3>1, <3>2 DEF Kept
  <2> QED BY <2>1, <2>2
<1> QED BY <1>4, <1>5, <1>6, <1>7 DEF Step

LEMMA CountLabelsStep ==
  ASSUME IInv, NEW s \in Callers, CountLabels(s)
  PROVE  CardinalityTypeOK' /\ Step
<1> USE DEF Goes
<1>1. /\ Metric(s) \in Metrics /\ Series \in Dimensions
      /\ Series \notin query[s].labels
  BY LimitFacts, CardinalityAssumption DEF IInv, CardinalityTypeOK, SampleType, Metric
<1>2. /\ caller[s] = "counting" /\ caller'[s] = "yes"
      /\ \A t \in Callers : t # s => caller'[t] = caller[t]
      /\ UNCHANGED <<limits, query, limit, unchecked, allowed, died>>
  BY DEF CountLabels, IInv, CardinalityTypeOK
<1>3. \A m \in Metrics, d \in Dimensions :
        usage'[m][d] = IF m = Metric(s) /\ d \in query[s].labels
                       THEN usage[m][d] + 1 ELSE usage[m][d]
  BY <1>1 DEF CountLabels, IInv, CardinalityTypeOK
<1>4. CardinalityTypeOK'
  <2>1. caller' \in [Callers -> Places] /\ writer' \in Callers \cup {None}
    BY DEF CountLabels, IInv, CardinalityTypeOK, Places
  <2>2. [d \in Dimensions |-> IF d \in query[s].labels THEN usage[Metric(s)][d] + 1
                              ELSE usage[Metric(s)][d]] \in [Dimensions -> Nat]
    BY <1>1 DEF IInv, CardinalityTypeOK
  <2>3. usage' \in [Metrics -> [Dimensions -> Nat]]
    BY <1>1, <2>2 DEF CountLabels, IInv, CardinalityTypeOK
  <2> QED BY <1>2, <2>1, <2>3 DEF IInv, CardinalityTypeOK
<1>5. LimitsRemembered'
  BY <1>2 DEF IInv, LimitsRemembered, Metric
<1>6. \A m \in Metrics : usage'[m][Series] = usage[m][Series]
  BY <1>1, <1>3
<1>7. SeriesFirst'
  <2>1. ASSUME NEW t \in Callers, caller'[t] = "counting"
        PROVE  usage'[Metric(t)][Series] # 0
    <3>1. Metric(t) \in Metrics /\ caller[t] = "counting"
      BY <1>2, <2>1 DEF IInv, CardinalityTypeOK, SampleType, Metric
    <3> QED BY <1>6, <3>1 DEF IInv, SeriesFirst
  <2>2. ASSUME NEW m \in Metrics, usage'[m][Series] = 0, NEW d \in Dimensions
        PROVE  usage'[m][d] = 0
    <3>1. m # Metric(s)
      BY <1>2, <1>6, <2>2 DEF IInv, SeriesFirst
    <3> QED BY <1>3, <1>6, <2>2, <3>1 DEF IInv, SeriesFirst
  <2> QED BY <1>2, <2>1, <2>2 DEF SeriesFirst, Metric
<1>8. ASSUME NEW m \in Metrics, NEW d \in Dimensions PROVE Kept(m, d) \/ Counted(m, d)
  <2>1. CASE m = Metric(s) /\ d \in query[s].labels
    <3>1. s \in Pending(m, d) /\ Pending(m, d)' = Pending(m, d) \ {s}
      BY <1>1, <1>2, <2>1 DEF Pending, Metric, DimensionsOf
    <3> QED BY <1>2, <1>3, <2>1, <3>1 DEF Counted
  <2>2. CASE ~(m = Metric(s) /\ d \in query[s].labels)
    <3>1. Pending(m, d)' \subseteq Pending(m, d)
      BY <1>2 DEF Pending, Metric
    <3>2. allowed[m][d] # None => allowed[m][d] <= allowed[m][d]
      BY DEF IInv, CardinalityTypeOK
    <3> QED BY <1>2, <1>3, <2>2, <3>1, <3>2 DEF Kept
  <2> QED BY <2>1, <2>2
<1> QED BY <1>4, <1>5, <1>7, <1>8 DEF Step

LEMMA QuietStep ==
  ASSUME IInv, UNCHANGED <<limits, usage, writer, caller, query, limit, unchecked, allowed>>,
         died' \in BOOLEAN
  PROVE  CardinalityTypeOK' /\ Step
<1>1. CardinalityTypeOK'
  BY DEF IInv, CardinalityTypeOK
<1>2. LimitsRemembered' /\ SeriesFirst'
  BY DEF IInv, LimitsRemembered, SeriesFirst, Metric
<1>3. ASSUME NEW m \in Metrics, NEW d \in Dimensions PROVE Kept(m, d)
  <2>1. Pending(m, d)' \subseteq Pending(m, d)
    BY DEF Pending, Metric
  <2> QED BY <2>1, QuietSteps DEF IInv
<1> QED BY <1>1, <1>2, <1>3 DEF Step

-----------------------------------------------------------------------------

LEMMA StepIInv == IInv /\ [CardinalityNext]_cardinalityVars => IInv'
<1> SUFFICES ASSUME IInv, [CardinalityNext]_cardinalityVars
             PROVE  CardinalityTypeOK' /\ Step
  BY StepSuffices
<1>1. ASSUME NEW p \in Patterns, NEW lim \in Limits, SetLimit(p, lim)
      PROVE  CardinalityTypeOK' /\ Step
  BY <1>1, SetLimitStep
<1>2. ASSUME NEW s \in Callers, NEW sample \in SampleType, Ask(s, sample)
      PROVE  CardinalityTypeOK' /\ Step
  BY <1>2, AskStep
<1>3. ASSUME NEW s \in Callers, Decide(s) PROVE CardinalityTypeOK' /\ Step
  BY <1>3, FindLimitStep, FindNoneStep, ReadUsageStep, CheckStep, CountSeriesStep,
     CountLabelsStep DEF Decide
<1>4. ASSUME NEW s \in Callers, NEW t \in Callers, ReadDuringWrite(s, t)
      PROVE  CardinalityTypeOK' /\ Step
  BY <1>4, QuietStep DEF ReadDuringWrite
<1>5. ASSUME NEW s \in Callers, Leave(s) PROVE CardinalityTypeOK' /\ Step
  BY <1>5, LeaveStep
<1>6. CASE UNCHANGED cardinalityVars
  BY <1>6, QuietStep DEF cardinalityVars, IInv, CardinalityTypeOK
<1> QED BY <1>1, <1>2, <1>3, <1>4, <1>5, <1>6 DEF CardinalityNext

LEMMA Invariance == CardinalitySpec => []IInv
  BY InitIInv, StepIInv, PTL DEF CardinalitySpec

\* The variables of the cardinality manager keep their types, for any number of
\* goroutines, metrics, labels and limits.
THEOREM CardinalityTypeCorrect == CardinalitySpec => []CardinalityTypeOK
<1>1. IInv => CardinalityTypeOK
  BY DEF IInv
<1> QED BY <1>1, Invariance, PTL

\* No count passes the loosest limit found for its metric by as much as the
\* number of goroutines that ask, though they compare and count without a lock.
THEOREM OvershootIsBounded == CardinalitySpec => []LimitHolds
<1>1. IInv => LimitHolds
  <2> SUFFICES ASSUME IInv, NEW m \in Metrics, NEW d \in Dimensions,
                      allowed[m][d] # None
               PROVE  usage[m][d] < allowed[m][d] + Cardinality(Callers)
    BY DEF LimitHolds
  <2>1. /\ usage[m][d] \in Nat /\ allowed[m][d] \in Nat
        /\ Cardinality(Callers) \in Nat /\ Cardinality(Pending(m, d)) \in Nat
    BY CallersCounted, PendingCounted DEF IInv, CardinalityTypeOK
  <2> QED BY <2>1 DEF IInv, Headroom, Below
<1> QED BY <1>1, Invariance, PTL

-----------------------------------------------------------------------------

\* What a scrape looks at are samples.
SamplesListed == todo \in [Callers -> SUBSET Samples]

LEMMA ScrapeStepListed == SamplesListed /\ [ScrapeNext]_scrapeVars => SamplesListed'
<1> SUFFICES ASSUME SamplesListed, [ScrapeNext]_scrapeVars PROVE SamplesListed'
  OBVIOUS
<1> USE DEF SamplesListed
<1>1. ASSUME NEW s \in Callers, Start(s) \/ Forward(s) PROVE SamplesListed'
  BY <1>1 DEF Start, Forward
<1>2. ASSUME NEW s \in Callers, Collecting(s) PROVE SamplesListed'
  <2>1. CASE List(s)
    BY <2>1 DEF List
  <2>2. CASE Look(s)
    BY <2>2 DEF Look
  <2>3. CASE Decides(s) \/ Refused(s) \/ Send(s)
    BY <2>3 DEF Decides, Refused, Send, adapterVars
  <2>4. CASE Close(s) \/ ForwarderEnds(s) \/ Record(s)
    BY <2>4 DEF Close, ForwarderEnds, Record, RecordCollection
  <2> QED BY <1>2, <2>1, <2>2, <2>3, <2>4 DEF Collecting
<1>3. ASSUME \/ \E on \in BOOLEAN : SetEnabled(on)
             \/ \E out \in SUBSET Metrics : UpdateFilterConfig(out)
             \/ \E s \in Callers : SetCustomLabels(s)
             \/ LimitsChange \/ RuntimeDies
      PROVE  SamplesListed'
  BY <1>3 DEF SetEnabled, UpdateFilterConfig, SetCustomLabels, LimitsChange, RuntimeDies, adapterVars
<1>4. CASE UNCHANGED scrapeVars
  BY <1>4 DEF scrapeVars, adapterVars
<1> QED BY <1>1, <1>2, <1>3, <1>4 DEF ScrapeNext

LEMMA ScrapeStepMapped ==
  SamplesListed /\ [ScrapeNext]_scrapeVars => [CardinalityNext]_cardinalityVars
<1> SUFFICES ASSUME SamplesListed, [ScrapeNext]_scrapeVars
             PROVE  [CardinalityNext]_cardinalityVars
  OBVIOUS
<1>1. ASSUME NEW s \in Callers, ~died, Start(s) \/ Forward(s)
      PROVE  UNCHANGED cardinalityVars
  BY <1>1 DEF Start, Forward
<1>2. ASSUME NEW s \in Callers, ~died, Collecting(s)
      PROVE  [CardinalityNext]_cardinalityVars
  <2>1. CASE List(s) \/ Close(s) \/ ForwarderEnds(s) \/ Record(s)
    BY <2>1 DEF List, Close, ForwarderEnds, Record, RecordCollection
  <2>2. CASE Look(s)
    <3>1. PICK sample \in todo[s] :
            IF sample.metric \in excluded THEN UNCHANGED cardinalityVars
                                          ELSE Ask(s, sample)
      BY <2>2 DEF Look
    <3>2. sample \in SampleType
      BY <3>1, ScrapeAssumption DEF SamplesListed
    <3> QED BY <1>2, <3>1, <3>2 DEF CardinalityNext
  <2>3. CASE Decides(s)
    BY <1>2, <2>3 DEF Decides, CardinalityNext
  <2>4. CASE Refused(s) \/ Send(s)
    BY <1>2, <2>4 DEF Refused, Send, CardinalityNext
  <2> QED BY <1>2, <2>1, <2>2, <2>3, <2>4 DEF Collecting
<1>3. ASSUME \/ \E on \in BOOLEAN : SetEnabled(on)
             \/ \E out \in SUBSET Metrics : UpdateFilterConfig(out)
             \/ \E s \in Callers : SetCustomLabels(s)
      PROVE  UNCHANGED cardinalityVars
  BY <1>3 DEF SetEnabled, UpdateFilterConfig, SetCustomLabels
<1>4. ASSUME ~died, LimitsChange \/ RuntimeDies PROVE CardinalityNext
  BY <1>4 DEF LimitsChange, RuntimeDies, CardinalityNext
<1>5. CASE UNCHANGED scrapeVars
  BY <1>5 DEF scrapeVars
<1> QED BY <1>1, <1>2, <1>3, <1>4, <1>5 DEF ScrapeNext

\* Any number of overlapping scrapes, with reloads and changes of limits,
\* implements the specification of the cardinality manager.
THEOREM ScrapesUseTheManager == ScrapeSpec => CardinalitySpec
<1>1. ScrapeInit => CardinalityInit /\ SamplesListed
  BY DEF ScrapeInit, SamplesListed
<1> QED
  BY <1>1, ScrapeStepListed, ScrapeStepMapped, PTL DEF ScrapeSpec, CardinalitySpec

\* So scrapes exceed a limit by less than their number.
THEOREM ScrapesRespectLimits == ScrapeSpec => []LimitHolds
  BY ScrapesUseTheManager, OvershootIsBounded, PTL

-----------------------------------------------------------------------------
(* SamplesAccounted. A sample is in one place at a time: counted by a      *)
(* caller that has not sent it, in a channel, forwarded and not recorded,  *)
(* or recorded.                                                            *)

AdapterTypeOK ==
  /\ place \in [Callers -> {"idle", "listing", "emitting", "closed"}]
  /\ todo \in [Callers -> SUBSET Samples]
  /\ queue \in [Callers -> 0 .. Capacity]
  /\ forwarded \in [Callers -> Nat]
  /\ done \in SUBSET Callers /\ failed \in SUBSET Callers
  /\ enabled \in BOOLEAN /\ excluded \in SUBSET Metrics /\ torn \in BOOLEAN
  /\ stats \in [count : Nat, errors : Nat, total : Nat]
  /\ sent \in [Metrics -> Nat]
  /\ started \in 0 .. MaxScrapes /\ changes \in 0 .. MaxChanges

\* The manager is asked between the listing and the closing of the channel
\* only, a failed scrape has nothing to forward, and a forwarder that is done
\* has left nothing in the channel.
ScrapeSteady(s) ==
  /\ caller[s] # "idle" => place[s] = "emitting"
  /\ s \in done => place[s] \in {"closed", "idle"} /\ queue[s] = 0
  /\ s \in failed => place[s] \in {"closed", "idle"}
  /\ place[s] = "listing" \/ (place[s] = "closed" /\ s \in failed)
       => queue[s] = 0 /\ forwarded[s] = 0

Counting(m) == {s \in Callers : Metric(s) = m /\ caller[s] \in {"counting", "yes"}}
UsageIsSent(m) == usage[m][Series] = sent[m] + Cardinality(Counting(m))

Held == [s \in Callers |-> queue[s] + forwarded[s]]
Active == {s \in Callers : place[s] # "idle"}
TotalsAgree == Total(sent, Metrics) = stats.total + Total(Held, Active)

AdapterInv ==
  /\ AdapterTypeOK
  /\ \A s \in Callers : ScrapeSteady(s)
  /\ \A m \in Metrics : UsageIsSent(m)
  /\ TotalsAgree

ScrapeInv == IInv /\ AdapterInv

-----------------------------------------------------------------------------
(* Sums                                                                    *)

LEMMA IntervalCounted ==
  ASSUME NEW n \in Nat PROVE IsFiniteSet(1 .. n) /\ Cardinality(1 .. n) = n
<1>1. 1 \in Int /\ n \in Int
  OBVIOUS
<1>2. IsFiniteSet(1 .. n) /\ Cardinality(1 .. n) = IF 1 > n THEN 0 ELSE n - 1 + 1
  BY <1>1, FS_Interval
<1> QED BY <1>2

LEMMA PairsFinite ==
  ASSUME NEW D, NEW f \in [D -> Nat], NEW S \in SUBSET D, IsFiniteSet(S)
  PROVE  /\ IsFiniteSet(Pairs(f, S))
         /\ Total(f, S) = Cardinality(Pairs(f, S)) /\ Total(f, S) \in Nat
<1> DEFINE P == {{x} \X (1 .. f[x]) : x \in S}
           column == [x \in S |-> {x} \X (1 .. f[x])]
<1>1. IsFiniteSet(P)
  <2>1. column \in Surjection(S, P)
    BY DEF Surjection
  <2> QED BY <2>1, FS_Surjection
<1>2. ASSUME NEW x \in S PROVE IsFiniteSet({x} \X (1 .. f[x]))
  <2>1. IsFiniteSet({x}) /\ IsFiniteSet(1 .. f[x])
    BY FS_Singleton, IntervalCounted
  <2> QED BY <2>1, FS_Product
<1>3. IsFiniteSet(UNION P)
  BY <1>1, <1>2, FS_UNION
<1>4. Pairs(f, S) = UNION P /\ Total(f, S) = Cardinality(Pairs(f, S))
  BY DEF Pairs, Total
<1> QED BY <1>3, <1>4, FS_CardinalityType

LEMMA TotalSame ==
  ASSUME NEW f, NEW g, NEW S, \A x \in S : f[x] = g[x]
  PROVE  Total(f, S) = Total(g, S)
<1>1. {{x} \X (1 .. f[x]) : x \in S} = {{x} \X (1 .. g[x]) : x \in S}
  OBVIOUS
<1> QED BY <1>1 DEF Total, Pairs

LEMMA TotalWithout ==
  ASSUME NEW D, NEW f \in [D -> Nat], NEW S \in SUBSET D, IsFiniteSet(S), NEW x \in S
  PROVE  Total(f, S) = Total(f, S \ {x}) + f[x]
<1> DEFINE column == {x} \X (1 .. f[x])
           rest == Pairs(f, S \ {x})
<1>1. IsFiniteSet(column) /\ Cardinality(column) = f[x]
  <2>1. IsFiniteSet({x}) /\ IsFiniteSet(1 .. f[x])
        /\ Cardinality({x}) = 1 /\ Cardinality(1 .. f[x]) = f[x] /\ f[x] \in Nat
    BY FS_Singleton, IntervalCounted
  <2>2. IsFiniteSet(column) /\ Cardinality(column) = 1 * f[x]
    BY <2>1, FS_Product
  <2> QED BY <2>1, <2>2
<1>2. /\ IsFiniteSet(S \ {x}) /\ S \ {x} \in SUBSET D
  BY FS_RemoveElement
<1>3. /\ IsFiniteSet(rest)
      /\ Total(f, S \ {x}) = Cardinality(rest) /\ Cardinality(rest) \in Nat
      /\ Total(f, S) = Cardinality(Pairs(f, S))
  BY <1>2, PairsFinite
<1>4. Pairs(f, S) = rest \cup column /\ rest \cap column = {}
  BY DEF Pairs
<1> HIDE DEF column, rest
<1>5. Cardinality(rest \cup column) = Cardinality(rest) + Cardinality(column)
  <2>1. Cardinality(rest \cup column) =
          Cardinality(rest) + Cardinality(column) - Cardinality(rest \cap column)
    BY <1>1, <1>3, FS_Union
  <2>2. Cardinality(rest \cap column) = 0
    BY <1>4, FS_EmptySet
  <2>3. f[x] \in Nat
    OBVIOUS
  <2> QED BY <1>1, <1>3, <2>1, <2>2, <2>3
<1>6. f[x] \in Nat
  OBVIOUS
<1> QED BY <1>1, <1>3, <1>4, <1>5, <1>6

LEMMA TotalRaised ==
  ASSUME NEW D, NEW f \in [D -> Nat], NEW g \in [D -> Nat],
         NEW S \in SUBSET D, IsFiniteSet(S), NEW x \in S,
         g[x] = f[x] + 1, \A y \in S \ {x} : g[y] = f[y]
  PROVE  Total(g, S) = Total(f, S) + 1
<1>1. Total(g, S) = Total(g, S \ {x}) + g[x] /\ Total(f, S) = Total(f, S \ {x}) + f[x]
  BY TotalWithout
<1>2. Total(g, S \ {x}) = Total(f, S \ {x})
  BY TotalSame
<1>3. S \ {x} \in SUBSET D /\ IsFiniteSet(S \ {x})
  BY FS_RemoveElement
<1>4. Total(f, S \ {x}) \in Nat /\ f[x] \in Nat
  BY <1>3, PairsFinite
<1> QED BY <1>1, <1>2, <1>4

-----------------------------------------------------------------------------

\* A step counts a sample, sends one it has counted, or leaves both alone.
UsageStays(m) ==
  usage'[m][Series] = usage[m][Series] /\ sent'[m] = sent[m] /\ Counting(m)' = Counting(m)

LEMMA UsageStep ==
  ASSUME IInv, AdapterTypeOK, NEW m \in Metrics, UsageIsSent(m),
         \/ UsageStays(m)
         \/ \E s \in Callers :
              \/ /\ s \notin Counting(m) /\ Counting(m)' = Counting(m) \cup {s}
                 /\ usage'[m][Series] = usage[m][Series] + 1 /\ sent'[m] = sent[m]
              \/ /\ s \in Counting(m) /\ Counting(m)' = Counting(m) \ {s}
                 /\ usage'[m][Series] = usage[m][Series] /\ sent'[m] = sent[m] + 1
  PROVE  UsageIsSent(m)'
<1>1. /\ IsFiniteSet(Counting(m)) /\ Cardinality(Counting(m)) \in Nat
      /\ sent[m] \in Nat /\ usage[m][Series] \in Nat
  <2>1. Counting(m) \in SUBSET Callers
    BY DEF Counting
  <2>2. IsFiniteSet(Counting(m))
    BY <2>1, CardinalityAssumption, FS_Subset
  <2> QED BY <2>2, FS_CardinalityType, LimitFacts DEF IInv, CardinalityTypeOK, AdapterTypeOK
<1>2. CASE UsageStays(m)
  BY <1>2 DEF UsageStays, UsageIsSent
<1>3. ASSUME NEW s \in Callers,
             /\ s \notin Counting(m) /\ Counting(m)' = Counting(m) \cup {s}
             /\ usage'[m][Series] = usage[m][Series] + 1 /\ sent'[m] = sent[m]
      PROVE  UsageIsSent(m)'
  <2>1. Cardinality(Counting(m)') = Cardinality(Counting(m)) + 1
    BY <1>1, <1>3, FS_AddElement
  <2> QED BY <1>1, <1>3, <2>1 DEF UsageIsSent
<1>4. ASSUME NEW s \in Callers,
             /\ s \in Counting(m) /\ Counting(m)' = Counting(m) \ {s}
             /\ usage'[m][Series] = usage[m][Series] /\ sent'[m] = sent[m] + 1
      PROVE  UsageIsSent(m)'
  <2>1. Cardinality(Counting(m) \ {s}) = Cardinality(Counting(m)) - 1
    BY <1>1, <1>4, FS_RemoveElement
  <2> QED BY <1>1, <1>4, <2>1 DEF UsageIsSent
<1> QED BY <1>2, <1>3, <1>4

LEMMA UsageQuiet ==
  ASSUME AdapterInv, UNCHANGED <<usage, caller, query, sent>>
  PROVE  \A m \in Metrics : UsageIsSent(m)'
BY DEF AdapterInv, UsageIsSent, Counting, Metric

\* What the sums range over.
LEMMA SumTypes ==
  ASSUME AdapterTypeOK
  PROVE  /\ Held \in [Callers -> Nat] /\ Active \in SUBSET Callers /\ IsFiniteSet(Active)
         /\ Total(Held, Active) \in Nat
         /\ Total(sent, Metrics) \in Nat /\ stats.total \in Nat
<1>1. Held \in [Callers -> Nat]
  <2>1. \A s \in Callers : queue[s] + forwarded[s] \in Nat
    BY ScrapeAssumption DEF AdapterTypeOK
  <2> QED BY <2>1 DEF Held
<1>2. Active \in SUBSET Callers
  BY DEF Active
<1>3. IsFiniteSet(Active)
  BY <1>2, CardinalityAssumption, FS_Subset
<1>4. Total(Held, Active) \in Nat
  BY <1>1, <1>2, <1>3, PairsFinite
<1>5. Total(sent, Metrics) \in Nat
  BY ScrapeAssumption, PairsFinite DEF AdapterTypeOK
<1> QED BY <1>1, <1>2, <1>3, <1>4, <1>5 DEF AdapterTypeOK

LEMMA TotalsQuiet ==
  ASSUME TotalsAgree, UNCHANGED <<sent, stats, queue, forwarded>>, Active' = Active
  PROVE  TotalsAgree'
<1>1. Held' = Held
  BY DEF Held
<1> QED BY <1>1 DEF TotalsAgree

-----------------------------------------------------------------------------
(* The steps of the adapter                                                *)

\* A scrape begins with nothing in its channel and nothing forwarded.
LEMMA StartAdapter ==
  ASSUME AdapterInv, NEW s \in Callers, Start(s)
  PROVE  AdapterInv'
<1>1. /\ place[s] = "idle" /\ place'[s] \in {"listing", "closed"}
      /\ queue'[s] = 0 /\ forwarded'[s] = 0
      /\ \A t \in Callers \ {s} : /\ place'[t] = place[t] /\ queue'[t] = queue[t]
                                  /\ forwarded'[t] = forwarded[t]
      /\ done' = done \ {s} /\ failed' = failed \ {s}
      /\ UNCHANGED <<usage, caller, query, sent, stats>>
  BY DEF Start, Moves, AdapterInv, AdapterTypeOK, cardinalityVars
<1>2. AdapterTypeOK'
  <2>1. /\ place' \in [Callers -> {"idle", "listing", "emitting", "closed"}]
        /\ started' \in 0 .. MaxScrapes
    BY ScrapeAssumption DEF Start, Moves, AdapterInv, AdapterTypeOK
  <2>2. 0 \in 0 .. Capacity
    BY ScrapeAssumption
  <2>3. queue' \in [Callers -> 0 .. Capacity] /\ forwarded' \in [Callers -> Nat]
    BY <2>2 DEF Start, AdapterInv, AdapterTypeOK
  <2> QED BY <2>1, <2>3 DEF Start, settings, AdapterInv, AdapterTypeOK
<1>3. \A t \in Callers : ScrapeSteady(t)'
  BY <1>1 DEF AdapterInv, ScrapeSteady
<1>4. TotalsAgree'
  <2>1. /\ Held' \in [Callers -> Nat]
        /\ Active' \in SUBSET Callers /\ IsFiniteSet(Active')
    <3>1. \A t \in Callers : queue'[t] + forwarded'[t] \in Nat
      BY <1>2, ScrapeAssumption DEF AdapterTypeOK
    <3>2. Active' \in SUBSET Callers
      BY DEF Active
    <3> QED BY <3>1, <3>2, CardinalityAssumption, FS_Subset DEF Held
  <2>2. s \in Active' /\ Active' \ {s} = Active /\ Held'[s] = 0
    BY <1>1 DEF Active, Held
  <2>3. Total(Held', Active') = Total(Held', Active) + 0
    BY <2>1, <2>2, TotalWithout
  <2>4. Total(Held', Active) = Total(Held, Active)
    <3>1. \A t \in Active : Held'[t] = Held[t]
      BY <1>1 DEF Active, Held
    <3> QED BY <3>1, TotalSame
  <2> QED BY <1>1, <2>3, <2>4, SumTypes DEF AdapterInv, TotalsAgree
<1> QED BY <1>1, <1>2, <1>3, <1>4, UsageQuiet DEF AdapterInv

\* Nothing is looked at or sent before SLURM has answered.
LEMMA ListAdapter ==
  ASSUME AdapterInv, NEW s \in Callers, List(s)
  PROVE  AdapterInv'
<1>1. /\ place[s] = "listing"
      /\ \/ place'[s] = "emitting" /\ failed' = failed
         \/ place'[s] = "closed" /\ failed' = failed \cup {s}
      /\ \A t \in Callers \ {s} : place'[t] = place[t]
      /\ UNCHANGED <<usage, caller, query, sent, stats, queue, forwarded, done>>
  BY DEF List, Moves, AdapterInv, AdapterTypeOK, cardinalityVars
<1>2. AdapterTypeOK'
  BY DEF List, Moves, settings, AdapterInv, AdapterTypeOK
<1>3. \A t \in Callers : ScrapeSteady(t)'
  BY <1>1 DEF AdapterInv, ScrapeSteady
<1>4. Active' = Active
  BY <1>1 DEF Active
<1> QED BY <1>1, <1>2, <1>3, <1>4, UsageQuiet, TotalsQuiet DEF AdapterInv

LEMMA CloseAdapter ==
  ASSUME AdapterInv, NEW s \in Callers, Close(s)
  PROVE  AdapterInv'
<1>1. /\ place[s] = "emitting" /\ caller[s] = "idle" /\ place'[s] = "closed"
      /\ \A t \in Callers \ {s} : place'[t] = place[t]
      /\ UNCHANGED <<usage, caller, query, sent, stats, queue, forwarded, done, failed>>
  BY DEF Close, Moves, AdapterInv, AdapterTypeOK, cardinalityVars
<1>2. AdapterTypeOK'
  BY DEF Close, Moves, settings, AdapterInv, AdapterTypeOK
<1>3. \A t \in Callers : ScrapeSteady(t)'
  BY <1>1 DEF AdapterInv, ScrapeSteady
<1>4. Active' = Active
  BY <1>1 DEF Active
<1> QED BY <1>1, <1>2, <1>3, <1>4, UsageQuiet, TotalsQuiet DEF AdapterInv

\* What leaves the channel is forwarded: the sum for the scrape is the same.
LEMMA ForwardAdapter ==
  ASSUME AdapterInv, NEW s \in Callers, Forward(s)
  PROVE  AdapterInv'
<1>1. /\ s \notin done /\ queue[s] > 0
      /\ queue'[s] = queue[s] - 1 /\ forwarded'[s] = forwarded[s] + 1
      /\ \A t \in Callers \ {s} : queue'[t] = queue[t] /\ forwarded'[t] = forwarded[t]
      /\ UNCHANGED <<usage, caller, query, sent, stats, place, done, failed>>
  BY DEF Forward, AdapterInv, AdapterTypeOK, cardinalityVars
<1>2. queue[s] \in 0 .. Capacity /\ forwarded[s] \in Nat /\ Capacity \in Nat
  BY ScrapeAssumption DEF AdapterInv, AdapterTypeOK
<1>3. AdapterTypeOK'
  <2>1. queue[s] - 1 \in 0 .. Capacity /\ forwarded[s] + 1 \in Nat
    BY <1>1, <1>2
  <2> QED BY <2>1 DEF Forward, settings, AdapterInv, AdapterTypeOK
<1>4. \A t \in Callers : ScrapeSteady(t)'
  <2>1. ScrapeSteady(s)'
    BY <1>1, <1>2 DEF AdapterInv, ScrapeSteady
  <2> QED BY <1>1, <2>1 DEF AdapterInv, ScrapeSteady
<1>5. Held' = Held
  <2>1. queue'[s] + forwarded'[s] = queue[s] + forwarded[s]
    BY <1>1, <1>2
  <2>2. \A t \in Callers : queue'[t] + forwarded'[t] = queue[t] + forwarded[t]
    BY <1>1, <2>1
  <2> QED BY <2>2 DEF Held
<1>6. TotalsAgree'
  BY <1>1, <1>5 DEF AdapterInv, TotalsAgree, Active
<1> QED BY <1>1, <1>3, <1>4, <1>6, UsageQuiet DEF AdapterInv

LEMMA ForwarderEndsAdapter ==
  ASSUME AdapterInv, NEW s \in Callers, ForwarderEnds(s)
  PROVE  AdapterInv'
<1>1. /\ place[s] = "closed" /\ queue[s] = 0 /\ done' = done \cup {s}
      /\ UNCHANGED <<usage, caller, query, sent, stats, place, queue, forwarded, failed>>
  BY DEF ForwarderEnds, cardinalityVars
<1>2. AdapterTypeOK'
  BY DEF ForwarderEnds, settings, AdapterInv, AdapterTypeOK
<1>3. \A t \in Callers : ScrapeSteady(t)'
  BY <1>1 DEF AdapterInv, ScrapeSteady
<1>4. Active' = Active
  BY <1>1 DEF Active
<1> QED BY <1>1, <1>2, <1>3, <1>4, UsageQuiet, TotalsQuiet DEF AdapterInv

\* A scrape that is done holds what it has forwarded, and that is recorded.
LEMMA RecordAdapter ==
  ASSUME AdapterInv, NEW s \in Callers, Record(s)
  PROVE  AdapterInv'
<1>1. /\ s \in done /\ place[s] = "closed" /\ place'[s] = "idle"
      /\ \A t \in Callers \ {s} : place'[t] = place[t]
      /\ UNCHANGED <<usage, caller, query, sent, queue, forwarded, done, failed>>
  BY DEF Record, RecordCollection, Moves, AdapterInv, AdapterTypeOK, cardinalityVars
<1>2. queue[s] = 0 /\ forwarded[s] \in Nat /\ (s \in failed => forwarded[s] = 0)
  BY <1>1 DEF AdapterInv, AdapterTypeOK, ScrapeSteady
<1>3. /\ stats'.total = stats.total + forwarded[s]
      /\ stats' \in [count : Nat, errors : Nat, total : Nat]
  <2>1. /\ stats.count \in Nat /\ stats.errors \in Nat /\ stats.total \in Nat
        /\ stats = [count |-> stats.count, errors |-> stats.errors, total |-> stats.total]
    BY DEF AdapterInv, AdapterTypeOK
  <2>2. CASE s \in failed
    <3>1. stats' = [stats EXCEPT !.count = @ + 1, !.errors = @ + 1]
      BY <2>2 DEF Record, RecordCollection
    <3>2. stats' = [count |-> stats.count + 1, errors |-> stats.errors + 1,
                    total |-> stats.total]
      BY <2>1, <3>1
    <3> QED BY <1>2, <2>1, <2>2, <3>2
  <2>3. CASE s \notin failed
    <3>1. stats' = [stats EXCEPT !.count = @ + 1, !.total = @ + forwarded[s]]
      BY <2>3 DEF Record, RecordCollection
    <3>2. stats' = [count |-> stats.count + 1, errors |-> stats.errors,
                    total |-> stats.total + forwarded[s]]
      BY <2>1, <3>1
    <3> QED BY <1>2, <2>1, <3>2
  <2> QED BY <2>2, <2>3
<1>4. AdapterTypeOK'
  BY <1>3 DEF Record, RecordCollection, Moves, settings, AdapterInv, AdapterTypeOK
<1>5. \A t \in Callers : ScrapeSteady(t)'
  BY <1>1 DEF AdapterInv, ScrapeSteady
<1>6. TotalsAgree'
  <2>1. s \in Active /\ Active' = Active \ {s} /\ Held' = Held
    BY <1>1 DEF Active, Held
  <2>2. Held[s] = forwarded[s]
    BY <1>2 DEF Held
  <2>3. Total(Held, Active) = Total(Held, Active') + forwarded[s]
    BY <2>1, <2>2, SumTypes, TotalWithout DEF AdapterInv
  <2>4. Total(Held, Active') \in Nat /\ stats.total \in Nat
    <3>1. Active' \in SUBSET Callers /\ IsFiniteSet(Active')
      BY <2>1, SumTypes, FS_RemoveElement DEF AdapterInv
    <3> QED BY <3>1, SumTypes, PairsFinite DEF AdapterInv
  <2> QED BY <1>1, <1>2, <1>3, <2>1, <2>3, <2>4 DEF AdapterInv, TotalsAgree
<1> QED BY <1>1, <1>4, <1>5, <1>6, UsageQuiet DEF AdapterInv

-----------------------------------------------------------------------------
(* The steps in which the manager is asked                                 *)

\* A step that leaves the adapter alone, and asks for no more than it says.
LEMMA AdapterQuiet ==
  ASSUME AdapterInv, UNCHANGED adapterVars,
         enabled' \in BOOLEAN, excluded' \in SUBSET Metrics, torn' \in BOOLEAN,
         changes' \in 0 .. MaxChanges,
         \A s \in Callers : caller[s] = "idle" => caller'[s] = "idle",
         \A m \in Metrics : UsageIsSent(m)'
  PROVE  AdapterInv'
<1>1. AdapterTypeOK' /\ Active' = Active
  BY DEF adapterVars, AdapterInv, AdapterTypeOK, Active
<1>2. \A s \in Callers : ScrapeSteady(s)'
  BY DEF adapterVars, AdapterInv, ScrapeSteady
<1>3. TotalsAgree'
  BY <1>1, TotalsQuiet DEF adapterVars, AdapterInv
<1> QED BY <1>1, <1>2, <1>3 DEF AdapterInv

LEMMA LookAdapter ==
  ASSUME ScrapeInv, NEW s \in Callers, Look(s)
  PROVE  AdapterInv'
<1>1. /\ place[s] = "emitting" /\ caller[s] = "idle"
      /\ \A t \in Callers : t # s => caller'[t] = caller[t] /\ query'[t] = query[t]
      /\ caller'[s] \in {"idle", "asked"}
      /\ todo' \in [Callers -> SUBSET Samples]
      /\ UNCHANGED <<usage, place, queue, forwarded, done, failed, stats, sent, started,
                     settings>>
  BY DEF Look, Ask, Goes, cardinalityVars, ScrapeInv, IInv, CardinalityTypeOK, AdapterInv,
         AdapterTypeOK
<1>2. AdapterTypeOK' /\ Active' = Active
  BY <1>1 DEF settings, ScrapeInv, AdapterInv, AdapterTypeOK, Active
<1>3. \A t \in Callers : ScrapeSteady(t)'
  BY <1>1 DEF ScrapeInv, AdapterInv, ScrapeSteady
<1>4. ASSUME NEW m \in Metrics PROVE UsageIsSent(m)'
  <2>1. Counting(m)' = Counting(m)
    BY <1>1 DEF Counting, Metric
  <2> QED BY <1>1, <2>1, UsageStep DEF UsageStays, ScrapeInv, AdapterInv
<1>5. TotalsAgree'
  BY <1>1, <1>2, TotalsQuiet DEF ScrapeInv, AdapterInv
<1> QED BY <1>2, <1>3, <1>4, <1>5 DEF AdapterInv

\* Only what ShouldCollectMetric has let through is counted, and it is counted
\* before the caller hears of it.
LEMMA DecidesAdapter ==
  ASSUME ScrapeInv, NEW s \in Callers, Decides(s)
  PROVE  AdapterInv'
<1>1. Decide(s) /\ UNCHANGED <<adapterVars, settings>>
  BY DEF Decides
<1>2. /\ caller[s] \notin {"idle", "yes"} /\ caller' \in [Callers -> Places]
      /\ \A t \in Callers : t # s => caller'[t] = caller[t]
      /\ UNCHANGED query
  BY <1>1 DEF Decide, FindLimit, FindNone, ReadUsage, Check, CountSeries, CountLabels, Goes,
              ScrapeInv, IInv, CardinalityTypeOK, Places
<1>3. Metric(s) \in Metrics /\ Series \in Dimensions
  BY LimitFacts DEF ScrapeInv, IInv, CardinalityTypeOK, SampleType, Metric
<1>4. ASSUME NEW m \in Metrics PROVE UsageIsSent(m)'
  <2>1. sent'[m] = sent[m]
    BY <1>1 DEF adapterVars
  <2>2. CASE CountSeries(s)
    <3>1. /\ caller[s] = "passed" /\ caller'[s] = "counting"
          /\ usage'[m][Series] = IF m = Metric(s) THEN usage[m][Series] + 1
                                 ELSE usage[m][Series]
      BY <1>3, <2>2 DEF CountSeries, Goes, ScrapeInv, IInv, CardinalityTypeOK
    <3>2. CASE m = Metric(s)
      <4>1. s \notin Counting(m) /\ Counting(m)' = Counting(m) \cup {s}
        BY <1>2, <3>1, <3>2 DEF Counting, Metric
      <4> QED BY <2>1, <3>1, <3>2, <4>1, UsageStep DEF ScrapeInv, AdapterInv
    <3>3. CASE m # Metric(s)
      <4>1. Counting(m)' = Counting(m)
        BY <1>2, <3>3 DEF Counting, Metric
      <4> QED BY <2>1, <3>1, <3>3, <4>1, UsageStep DEF UsageStays, ScrapeInv, AdapterInv
    <3> QED BY <3>2, <3>3
  <2>3. CASE CountLabels(s)
    <3>1. caller[s] = "counting" /\ caller'[s] = "yes"
      BY <2>3 DEF CountLabels, Goes, ScrapeInv, IInv, CardinalityTypeOK
    <3>2. Counting(m)' = Counting(m)
      BY <1>2, <3>1 DEF Counting, Metric
    <3>3. Series \notin query[s].labels
      BY CardinalityAssumption DEF ScrapeInv, IInv, CardinalityTypeOK, SampleType
    <3>4. usage'[m][Series] = usage[m][Series]
      BY <1>3, <2>3, <3>3 DEF CountLabels, ScrapeInv, IInv, CardinalityTypeOK
    <3> QED BY <2>1, <3>2, <3>4, UsageStep DEF UsageStays, ScrapeInv, AdapterInv
  <2>4. CASE FindLimit(s) \/ FindNone(s) \/ ReadUsage(s) \/ \E d \in Dimensions : Check(s, d)
    <3>1. /\ caller[s] \notin {"counting", "yes"} /\ caller'[s] \notin {"counting", "yes"}
          /\ UNCHANGED usage
      BY <2>4 DEF FindLimit, FindNone, ReadUsage, Check, Goes, ScrapeInv, IInv,
                  CardinalityTypeOK
    <3>2. Counting(m)' = Counting(m)
      BY <1>2, <3>1 DEF Counting, Metric
    <3> QED BY <2>1, <3>1, <3>2, UsageStep DEF UsageStays, ScrapeInv, AdapterInv
  <2> QED BY <1>1, <2>2, <2>3, <2>4 DEF Decide
<1> QED BY <1>1, <1>2, <1>4, AdapterQuiet
          DEF settings, ScrapeInv, AdapterInv, AdapterTypeOK

LEMMA RefusedAdapter ==
  ASSUME ScrapeInv, NEW s \in Callers, Refused(s)
  PROVE  AdapterInv'
<1>1. /\ caller[s] = "no" /\ caller'[s] = "idle"
      /\ \A t \in Callers : t # s => caller'[t] = caller[t] /\ query'[t] = query[t]
      /\ UNCHANGED <<usage, adapterVars, settings>>
  BY DEF Refused, Leave, Goes, ScrapeInv, IInv, CardinalityTypeOK
<1>2. ASSUME NEW m \in Metrics PROVE UsageIsSent(m)'
  <2>1. Counting(m)' = Counting(m)
    BY <1>1 DEF Counting, Metric
  <2> QED BY <1>1, <2>1, UsageStep DEF UsageStays, adapterVars, ScrapeInv, AdapterInv
<1> QED BY <1>1, <1>2, AdapterQuiet DEF settings, ScrapeInv, AdapterInv, AdapterTypeOK

\* What has been counted is sent once, and is in the channel then.
LEMMA SendAdapter ==
  ASSUME ScrapeInv, NEW s \in Callers, Send(s)
  PROVE  AdapterInv'
<1>1. /\ caller[s] = "yes" /\ caller'[s] = "idle"
      /\ \A t \in Callers : t # s => /\ caller'[t] = caller[t] /\ query'[t] = query[t]
                                     /\ queue'[t] = queue[t]
      /\ queue[s] < Capacity /\ queue'[s] = queue[s] + 1
      /\ UNCHANGED <<usage, place, todo, forwarded, done, failed, stats, started, settings>>
  BY DEF Send, Leave, Goes, ScrapeInv, IInv, CardinalityTypeOK, AdapterInv, AdapterTypeOK
<1>2. /\ Metric(s) \in Metrics
      /\ sent'[Metric(s)] = sent[Metric(s)] + 1
      /\ \A m \in Metrics \ {Metric(s)} : sent'[m] = sent[m]
      /\ sent' \in [Metrics -> Nat]
  <2>1. Metric(s) \in Metrics
    BY DEF ScrapeInv, IInv, CardinalityTypeOK, SampleType, Metric
  <2> QED BY <2>1 DEF Send, ScrapeInv, AdapterInv, AdapterTypeOK
<1>3. /\ queue[s] \in 0 .. Capacity /\ forwarded[s] \in Nat /\ Capacity \in Nat
      /\ place[s] = "emitting"
  BY <1>1, ScrapeAssumption DEF ScrapeInv, AdapterInv, AdapterTypeOK, ScrapeSteady
<1>4. AdapterTypeOK' /\ Active' = Active
  <2>1. queue[s] + 1 \in 0 .. Capacity
    BY <1>1, <1>3
  <2> QED BY <1>1, <1>2, <2>1 DEF Send, settings, ScrapeInv, AdapterInv, AdapterTypeOK, Active
<1>5. \A t \in Callers : ScrapeSteady(t)'
  BY <1>1, <1>3 DEF ScrapeInv, AdapterInv, ScrapeSteady
<1>6. ASSUME NEW m \in Metrics PROVE UsageIsSent(m)'
  <2>1. CASE m = Metric(s)
    <3>1. s \in Counting(m) /\ Counting(m)' = Counting(m) \ {s}
      BY <1>1, <2>1 DEF Counting, Metric
    <3> QED BY <1>1, <1>2, <2>1, <3>1, UsageStep DEF ScrapeInv, AdapterInv
  <2>2. CASE m # Metric(s)
    <3>1. Counting(m)' = Counting(m)
      BY <1>1, <2>2 DEF Counting, Metric
    <3> QED BY <1>1, <1>2, <2>2, <3>1, UsageStep DEF UsageStays, ScrapeInv, AdapterInv
  <2> QED BY <2>1, <2>2
<1>7. TotalsAgree'
  <2>1. /\ Held \in [Callers -> Nat] /\ Active \in SUBSET Callers /\ IsFiniteSet(Active)
        /\ Total(Held, Active) \in Nat /\ Total(sent, Metrics) \in Nat
        /\ stats.total \in Nat /\ sent \in [Metrics -> Nat]
    BY SumTypes DEF ScrapeInv, AdapterInv, AdapterTypeOK
  <2>2. Held' \in [Callers -> Nat] /\ s \in Active
        /\ Held'[s] = Held[s] + 1 /\ \A t \in Active \ {s} : Held'[t] = Held[t]
    <3>1. \A t \in Callers : queue'[t] + forwarded'[t] \in Nat
      BY <1>4, ScrapeAssumption DEF AdapterTypeOK
    <3>2. queue'[s] + forwarded'[s] = (queue[s] + forwarded[s]) + 1
      BY <1>1, <1>3
    <3> QED BY <1>1, <1>3, <3>1, <3>2 DEF Held, Active
  <2>3. Total(Held', Active) = Total(Held, Active) + 1
    BY <2>1, <2>2, TotalRaised
  <2>4. Total(sent', Metrics) = Total(sent, Metrics) + 1
    BY <1>2, <2>1, ScrapeAssumption, TotalRaised
  <2> QED BY <1>1, <1>4, <2>1, <2>3, <2>4 DEF ScrapeInv, AdapterInv, TotalsAgree
<1> QED BY <1>4, <1>5, <1>6, <1>7 DEF AdapterInv

-----------------------------------------------------------------------------

\* A reload changes the collector under a scrape, and a program that dies
\* stops where it is.
LEMMA ChangeAdapter ==
  ASSUME ScrapeInv,
         \/ \E on \in BOOLEAN : SetEnabled(on)
         \/ \E out \in SUBSET Metrics : UpdateFilterConfig(out)
         \/ \E s \in Callers : SetCustomLabels(s)
         \/ LimitsChange \/ RuntimeDies
  PROVE  AdapterInv'
<1>1. /\ UNCHANGED <<adapterVars, usage, caller, query>>
      /\ enabled' \in BOOLEAN /\ excluded' \in SUBSET Metrics /\ torn' \in BOOLEAN
      /\ changes' = changes \/ (changes < MaxChanges /\ changes' = changes + 1)
  BY DEF SetEnabled, UpdateFilterConfig, SetCustomLabels, LimitsChange, RuntimeDies, Change, SetLimit,
         ReadDuringWrite, cardinalityVars, settings, ScrapeInv, AdapterInv, AdapterTypeOK
<1>2. changes' \in 0 .. MaxChanges
  BY <1>1, ScrapeAssumption DEF ScrapeInv, AdapterInv, AdapterTypeOK
<1>3. \A m \in Metrics : UsageIsSent(m)'
  BY <1>1, UsageQuiet DEF adapterVars, ScrapeInv
<1> QED BY <1>1, <1>2, <1>3, AdapterQuiet DEF ScrapeInv

LEMMA InitScrapeInv == ScrapeInit => ScrapeInv
<1> SUFFICES ASSUME ScrapeInit PROVE ScrapeInv
  OBVIOUS
<1>1. IInv
  BY InitIInv DEF ScrapeInit
<1>2. AdapterTypeOK
  <2>1. 0 \in 0 .. Capacity /\ 0 \in 0 .. MaxScrapes /\ 0 \in 0 .. MaxChanges
    BY ScrapeAssumption
  <2> QED BY <2>1 DEF ScrapeInit, AdapterTypeOK
<1>3. \A s \in Callers : ScrapeSteady(s)
  BY DEF ScrapeInit, CardinalityInit, ScrapeSteady
<1>4. ASSUME NEW m \in Metrics PROVE UsageIsSent(m)
  <2>1. Counting(m) = {}
    BY DEF ScrapeInit, CardinalityInit, Counting
  <2>2. usage[m][Series] = 0 /\ sent[m] = 0
    BY LimitFacts DEF ScrapeInit, CardinalityInit
  <2> QED BY <2>1, <2>2, FS_EmptySet DEF UsageIsSent
<1>5. TotalsAgree
  <2>1. Total(sent, Metrics) = 0
    <3>1. \A m \in Metrics : 1 .. sent[m] = {}
      BY DEF ScrapeInit
    <3>2. UNION {{m} \X (1 .. sent[m]) : m \in Metrics} = {}
      BY <3>1
    <3> QED BY <3>2, FS_EmptySet DEF Total, Pairs
  <2>2. Active = {} /\ stats.total = 0
    BY DEF ScrapeInit, Active
  <2>3. UNION {{s} \X (1 .. Held[s]) : s \in {}} = {}
    OBVIOUS
  <2> QED BY <2>1, <2>2, <2>3, FS_EmptySet DEF TotalsAgree, Total, Pairs
<1> QED BY <1>1, <1>2, <1>3, <1>4, <1>5 DEF ScrapeInv, AdapterInv

LEMMA NextScrapeInv == ScrapeInv /\ [ScrapeNext]_scrapeVars => ScrapeInv'
<1> SUFFICES ASSUME ScrapeInv, [ScrapeNext]_scrapeVars PROVE IInv' /\ AdapterInv'
  BY DEF ScrapeInv
<1>1. IInv'
  BY ScrapeStepMapped, StepIInv DEF ScrapeInv, AdapterInv, AdapterTypeOK, SamplesListed
<1>2. ASSUME NEW s \in Callers, Start(s) \/ Collecting(s) \/ Forward(s) PROVE AdapterInv'
  BY <1>2, StartAdapter, ListAdapter, LookAdapter, DecidesAdapter, RefusedAdapter,
     SendAdapter, CloseAdapter, ForwarderEndsAdapter, RecordAdapter, ForwardAdapter
     DEF ScrapeInv, Collecting
<1>3. ASSUME \/ \E on \in BOOLEAN : SetEnabled(on)
             \/ \E out \in SUBSET Metrics : UpdateFilterConfig(out)
             \/ \E s \in Callers : SetCustomLabels(s)
             \/ LimitsChange \/ RuntimeDies
      PROVE  AdapterInv'
  BY <1>3, ChangeAdapter
<1>4. CASE UNCHANGED scrapeVars
  <2>1. UNCHANGED adapterVars /\ UNCHANGED <<settings, usage, caller, query>>
    BY <1>4 DEF scrapeVars, cardinalityVars
  <2>2. \A m \in Metrics : UsageIsSent(m)'
    BY <2>1, UsageQuiet DEF adapterVars, ScrapeInv
  <2>3. /\ enabled' \in BOOLEAN /\ excluded' \in SUBSET Metrics /\ torn' \in BOOLEAN
        /\ changes' \in 0 .. MaxChanges
    BY <2>1 DEF settings, ScrapeInv, AdapterInv, AdapterTypeOK
  <2>4. \A s \in Callers : caller[s] = "idle" => caller'[s] = "idle"
    BY <2>1
  <2> QED BY <1>1, <2>1, <2>2, <2>3, <2>4, AdapterQuiet DEF ScrapeInv
<1> QED BY <1>1, <1>2, <1>3, <1>4 DEF ScrapeNext

\* No sample is lost or counted twice between a collector and Prometheus, for
\* any number of overlapping scrapes, any channel and any change of the
\* collector under them (registry.go and jobs_simple.go around
\* ShouldCollectMetric).
THEOREM ScrapesAddUp == ScrapeSpec => []SamplesAccounted
<1>1. ScrapeSpec => []ScrapeInv
  BY InitScrapeInv, NextScrapeInv, PTL DEF ScrapeSpec
<1>2. ScrapeInv => SamplesAccounted
  BY DEF ScrapeInv, AdapterInv, IInv, AdapterTypeOK, UsageIsSent, Counting, TotalsAgree, Held,
         Active, SamplesAccounted, ScrapeTypeOK
<1> QED BY <1>1, <1>2, PTL

-----------------------------------------------------------------------------
(* Sums, for the cache                                                     *)

\* A sum over the members of a set, and over the others.
LEMMA TotalSplit ==
  ASSUME NEW D, NEW f \in [D -> Nat], NEW S \in SUBSET D, IsFiniteSet(S), NEW T \in SUBSET S
  PROVE  Total(f, S) = Total(f, S \ T) + Total(f, T)
<1>1. IsFiniteSet(T) /\ IsFiniteSet(S \ T) /\ T \in SUBSET D /\ S \ T \in SUBSET D
  BY FS_Subset, FS_Difference
<1>2. /\ IsFiniteSet(Pairs(f, T)) /\ IsFiniteSet(Pairs(f, S \ T))
      /\ Total(f, T) = Cardinality(Pairs(f, T)) /\ Total(f, T) \in Nat
      /\ Total(f, S \ T) = Cardinality(Pairs(f, S \ T)) /\ Total(f, S \ T) \in Nat
      /\ Total(f, S) = Cardinality(Pairs(f, S))
  BY <1>1, PairsFinite
<1>3. Pairs(f, S) = Pairs(f, S \ T) \cup Pairs(f, T) /\ Pairs(f, S \ T) \cap Pairs(f, T) = {}
  BY DEF Pairs
<1>4. Cardinality(Pairs(f, S \ T) \cup Pairs(f, T)) =
        Cardinality(Pairs(f, S \ T)) + Cardinality(Pairs(f, T))
          - Cardinality(Pairs(f, S \ T) \cap Pairs(f, T))
  BY <1>2, FS_Union
<1>5. Cardinality(Pairs(f, S \ T) \cap Pairs(f, T)) = 0
  BY <1>3, FS_EmptySet
<1> QED BY <1>2, <1>3, <1>4, <1>5

\* Who adds nothing may be left out.
LEMMA TotalZeros ==
  ASSUME NEW f, NEW S, NEW T \in SUBSET S, \A x \in S \ T : f[x] = 0
  PROVE  Total(f, S) = Total(f, T)
<1>1. \A x \in S \ T : 1 .. f[x] = {}
  OBVIOUS
<1>2. Pairs(f, S) = Pairs(f, T)
  BY <1>1 DEF Pairs
<1> QED BY <1>2 DEF Total

\* A sum changes by what changes under it.
LEMMA TotalChanged ==
  ASSUME NEW D, IsFiniteSet(D), NEW f \in [D -> Nat], NEW g \in [D -> Nat],
         NEW T \in SUBSET D, \A x \in D \ T : g[x] = f[x]
  PROVE  Total(g, D) = Total(f, D) - Total(f, T) + Total(g, T)
<1>1. IsFiniteSet(T) /\ IsFiniteSet(D \ T) /\ D \ T \in SUBSET D /\ D \in SUBSET D
  BY FS_Subset, FS_Difference
<1>2. Total(g, D) = Total(g, D \ T) + Total(g, T) /\ Total(f, D) = Total(f, D \ T) + Total(f, T)
  BY <1>1, TotalSplit
<1>3. Total(g, D \ T) = Total(f, D \ T)
  BY TotalSame
<1>4. Total(f, D \ T) \in Nat /\ Total(f, T) \in Nat /\ Total(g, T) \in Nat
  BY <1>1, PairsFinite
<1> QED BY <1>2, <1>3, <1>4

-----------------------------------------------------------------------------
(* IntelligentCache                                                        *)

SizeUnder == [k \in CacheKeys |-> IF entries[k] = NoEntry THEN 0 ELSE entries[k].size]

GetterTypeOK ==
  getter \in [Getters -> {Idle} \cup {Missed(k) : k \in CacheKeys}
                           \cup [pc : {"expired", "hit"}, key : CacheKeys, read : Entry]]

RecencyInOrder ==
  /\ IsInjective(recency) /\ ToSet(recency) = Present
  /\ Len(recency) = Cardinality(Present) /\ Cardinality(Present) <= MaxEntries

\* An id is given to one entry, under one key.
IdsTell ==
  /\ \A k \in Present : entries[k].id <= sets
  /\ \A u \in Getters :
       getter[u].pc \in {"expired", "hit"} =>
         /\ getter[u].read.id <= sets
         /\ LET k == getter[u].key IN
              k \in Present /\ entries[k].id = getter[u].read.id =>
                entries[k].size = getter[u].read.size

SizesAddUp == ChangeTracking /\ ~lateDrop => totalSize = Total(SizeUnder, CacheKeys)

CacheTypeOK ==
  /\ entries \in [CacheKeys -> Entry \cup {NoEntry}]
  /\ recency \in Seq(CacheKeys)
  /\ totalSize \in Int /\ sets \in 0 .. MaxSets
  /\ lateDrop \in BOOLEAN
  /\ GetterTypeOK

CacheInv == CacheTypeOK /\ RecencyInOrder /\ IdsTell /\ SizesAddUp

LEMMA EntryFacts ==
  /\ NoEntry \notin Entry
  /\ \A e \in Entry : /\ e.id \in 1 .. MaxSets /\ e.size \in Nat \ {0} /\ e.size \in Sizes
                      /\ e.expired \in BOOLEAN
<1>1. Entry \subseteq [id : Nat, size : Nat, expired : BOOLEAN]
  <2>1. 1 .. MaxSets \subseteq Nat /\ Sizes \subseteq Nat
    BY IntelligentCacheAssumption
  <2> QED BY <2>1 DEF Entry
<1> QED BY <1>1, IntelligentCacheAssumption DEF Entry

LEMMA SizeTypes ==
  ASSUME CacheTypeOK
  PROVE  SizeUnder \in [CacheKeys -> Nat]
BY EntryFacts DEF CacheTypeOK, SizeUnder

LEMMA SizeOfIsTotal ==
  ASSUME CacheTypeOK, NEW ks \in SUBSET Present
  PROVE  SizeOf(ks) = Total(SizeUnder, ks)
<1>1. \A k \in ks : SizeUnder[k] = entries[k].size
  BY DEF SizeUnder, Present
<1>2. {{k} \X (1 .. entries[k].size) : k \in ks} = {{k} \X (1 .. SizeUnder[k]) : k \in ks}
  BY <1>1
<1> QED BY <1>2 DEF SizeOf, Total, Pairs

LEMMA PresentTotal ==
  ASSUME CacheTypeOK
  PROVE  SizeOf(Present) = Total(SizeUnder, CacheKeys)
<1>1. Present \in SUBSET CacheKeys /\ \A k \in CacheKeys \ Present : SizeUnder[k] = 0
  BY DEF Present, SizeUnder
<1> QED BY <1>1, SizeOfIsTotal, TotalZeros

-----------------------------------------------------------------------------
(* The order                                                               *)

LEMMA RecencyLeft ==
  ASSUME CacheTypeOK, RecencyInOrder, NEW gone, NEW r \in RecencyWithout(gone)
  PROVE  /\ r \in Seq(CacheKeys) /\ IsInjective(r)
         /\ ToSet(r) = Present \ gone /\ Len(r) = Cardinality(Present \ gone)
<1>1. IsFiniteSet(Present \ gone) /\ Present \ gone \in SUBSET CacheKeys
  <2>1. Present \ gone \in SUBSET CacheKeys
    BY DEF Present
  <2> QED BY <2>1, IntelligentCacheAssumption, FS_Subset
<1>2. Cardinality(Present \ gone) \in Nat
  BY <1>1, FS_CardinalityType
<1>3. /\ r \in [1 .. Cardinality(Present \ gone) -> Present \ gone]
      /\ ToSet(r) = Present \ gone
      /\ \A i, j \in DOMAIN r : i < j =>
           \E m, n \in DOMAIN recency : m < n /\ recency[m] = r[i] /\ recency[n] = r[j]
  BY DEF RecencyWithout, RecencyInOrder
<1>4. r \in Seq(CacheKeys) /\ Len(r) = Cardinality(Present \ gone)
  <2> DEFINE n == Cardinality(Present \ gone)
  <2>1. n \in Nat /\ r \in [1 .. n -> CacheKeys]
    BY <1>1, <1>2, <1>3
  <2> HIDE DEF n
  <2>2. r \in Seq(CacheKeys) /\ Len(r) = n
    BY <2>1
  <2> QED BY <2>2 DEF n
<1>5. ASSUME NEW i \in DOMAIN r, NEW j \in DOMAIN r, i < j PROVE r[i] # r[j]
  <2>1. PICK m \in DOMAIN recency, n \in DOMAIN recency :
          m < n /\ recency[m] = r[i] /\ recency[n] = r[j]
    BY <1>3, <1>5
  <2>2. m \in Nat /\ n \in Nat
    BY DEF CacheTypeOK
  <2> QED BY <2>1, <2>2 DEF RecencyInOrder, IsInjective
<1>6. \A i, j \in DOMAIN r : i # j => r[i] # r[j]
  <2>1. DOMAIN r \subseteq Nat
    BY <1>2, <1>3
  <2> QED BY <1>5, <2>1
<1>7. IsInjective(r)
  BY <1>6 DEF IsInjective
<1> QED BY <1>3, <1>4, <1>7

LEMMA RecencyAppended ==
  ASSUME NEW r \in Seq(CacheKeys), IsInjective(r), NEW k \in CacheKeys, k \notin ToSet(r)
  PROVE  /\ Append(r, k) \in Seq(CacheKeys) /\ IsInjective(Append(r, k))
         /\ ToSet(Append(r, k)) = ToSet(r) \cup {k} /\ Len(Append(r, k)) = Len(r) + 1
<1> DEFINE q == Append(r, k)
<1>1. /\ q \in Seq(CacheKeys) /\ Len(q) = Len(r) + 1 /\ Len(r) \in Nat
      /\ DOMAIN q = 1 .. Len(r) + 1 /\ DOMAIN r = 1 .. Len(r)
      /\ \A i \in 1 .. Len(r) : q[i] = r[i]
      /\ q[Len(r) + 1] = k
  OBVIOUS
<1> HIDE DEF q
<1>2. \A i \in DOMAIN q : i \in DOMAIN r \/ i = Len(r) + 1
  BY <1>1
<1>3. ToSet(q) = ToSet(r) \cup {k}
  BY <1>1, <1>2 DEF ToSet
<1>4. IsInjective(q)
  BY <1>1, <1>2 DEF IsInjective, ToSet
<1> QED BY <1>1, <1>3, <1>4 DEF q

LEMMA PresentFinite ==
  /\ Present \in SUBSET CacheKeys /\ IsFiniteSet(Present)
  /\ Cardinality(Present) \in Nat /\ MaxEntries \in Nat \ {0}
<1>1. Present \in SUBSET CacheKeys
  BY DEF Present
<1>2. IsFiniteSet(Present)
  BY <1>1, IntelligentCacheAssumption, FS_Subset
<1> QED BY <1>1, <1>2, IntelligentCacheAssumption, FS_CardinalityType

LEMMA OrderShrinks ==
  ASSUME CacheTypeOK, RecencyInOrder, NEW gone,
         recency' \in RecencyWithout(gone), Present' = Present \ gone
  PROVE  recency' \in Seq(CacheKeys) /\ RecencyInOrder'
<1>1. /\ recency' \in Seq(CacheKeys) /\ IsInjective(recency') /\ ToSet(recency') = Present'
      /\ Len(recency') = Cardinality(Present')
  BY RecencyLeft
<1>2. Present \ gone \in SUBSET Present
  OBVIOUS
<1>3. Cardinality(Present') <= Cardinality(Present) /\ Cardinality(Present') \in Nat
  BY <1>2, PresentFinite, FS_Subset, FS_CardinalityType
<1> QED BY <1>1, <1>3, PresentFinite DEF RecencyInOrder

LEMMA OrderAppends ==
  ASSUME CacheTypeOK, RecencyInOrder, NEW gone, NEW k \in CacheKeys,
         k \in gone, NEW r \in RecencyWithout(gone), recency' = Append(r, k),
         Present' = (Present \ gone) \cup {k}
  PROVE  /\ recency' \in Seq(CacheKeys) /\ IsInjective(recency')
         /\ ToSet(recency') = Present' /\ Len(recency') = Cardinality(Present')
         /\ Cardinality(Present') = Cardinality(Present \ gone) + 1
<1>1. /\ r \in Seq(CacheKeys) /\ IsInjective(r)
      /\ ToSet(r) = Present \ gone /\ Len(r) = Cardinality(Present \ gone)
  BY RecencyLeft
<1>2. IsFiniteSet(Present \ gone)
  BY PresentFinite, FS_Difference
<1>3. Cardinality((Present \ gone) \cup {k}) = Cardinality(Present \ gone) + 1
  BY <1>2, FS_AddElement
<1> QED BY <1>1, <1>3, RecencyAppended

-----------------------------------------------------------------------------
(* The steps                                                               *)

LEMMA GetterFacts ==
  ASSUME GetterTypeOK, NEW u \in Getters
  PROVE  /\ getter[u].pc \in {"idle", "missed", "expired", "hit"}
         /\ getter[u].pc # "idle" => getter[u].key \in CacheKeys
         /\ getter[u].pc \in {"expired", "hit"} => getter[u].read \in Entry
BY DEF GetterTypeOK, Idle, Missed

\* Where a Get is back, it holds no entry.
LEMMA GetterReturns ==
  ASSUME GetterTypeOK, NEW u \in Getters, NEW k \in CacheKeys,
         \/ getter' = [getter EXCEPT ![u] = Idle]
         \/ getter' = [getter EXCEPT ![u] = Missed(k)]
  PROVE  /\ GetterTypeOK'
         /\ \A v \in Getters : getter'[v] = getter[v] \/ getter'[v].pc \in {"idle", "missed"}
BY DEF GetterTypeOK, Idle, Missed

LEMMA GetStep ==
  ASSUME CacheInv, NEW u \in Getters, NEW k \in CacheKeys, Get(u, k)
  PROVE  CacheInv'
<1>1. UNCHANGED <<entries, recency, totalSize, sets, lateDrop>>
  BY DEF Get
<1>2. /\ \A v \in Getters : v # u => getter'[v] = getter[v]
      /\ GetterTypeOK'
      /\ \/ getter'[u].pc \in {"idle", "missed"}
         \/ entries[k] # NoEntry /\ getter'[u].key = k /\ getter'[u].read = entries[k]
  BY DEF Get, CacheInv, CacheTypeOK, GetterTypeOK, Missed
<1>3. CacheTypeOK' /\ Present' = Present /\ SizeUnder' = SizeUnder
  BY <1>1, <1>2 DEF CacheInv, CacheTypeOK, Present, SizeUnder
<1>4. RecencyInOrder' /\ SizesAddUp'
  BY <1>1, <1>3 DEF CacheInv, RecencyInOrder, SizesAddUp
<1>5. IdsTell'
  BY <1>1, <1>2, <1>3 DEF CacheInv, IdsTell, Present
<1> QED BY <1>3, <1>4, <1>5 DEF CacheInv

\* The deletion is late unless the entry there is the one that was read, and
\* so of the size that is subtracted.
LEMMA DropExpiredStep ==
  ASSUME CacheInv, NEW u \in Getters, DropExpired(u)
  PROVE  CacheInv'
<1> DEFINE k == getter[u].key
<1>1. k \in CacheKeys /\ getter[u].read \in Entry /\ getter[u].pc = "expired"
  BY GetterFacts DEF DropExpired, CacheInv, CacheTypeOK
<1>2. /\ entries' = [entries EXCEPT ![k] = NoEntry]
      /\ recency' \in RecencyWithout({k})
      /\ totalSize' = totalSize - getter[u].read.size
      /\ lateDrop' \in BOOLEAN
      /\ ~lateDrop' => ~lateDrop /\ entries[k] # NoEntry /\ entries[k].id = getter[u].read.id
      /\ getter' = [getter EXCEPT ![u] = Missed(k)] /\ UNCHANGED sets
  BY DEF DropExpired, CacheInv, CacheTypeOK
<1>3. GetterTypeOK' /\ \A v \in Getters : getter'[v] = getter[v]
                                           \/ getter'[v].pc \in {"idle", "missed"}
  BY <1>1, <1>2, GetterReturns DEF CacheInv, CacheTypeOK
<1>4. /\ entries' \in [CacheKeys -> Entry \cup {NoEntry}] /\ Present' = Present \ {k}
      /\ \A j \in Present' : entries'[j] = entries[j]
  BY <1>1, <1>2 DEF CacheInv, CacheTypeOK, Present
<1>5. recency' \in Seq(CacheKeys) /\ RecencyInOrder'
  BY <1>2, <1>4, OrderShrinks DEF CacheInv
<1>6. CacheTypeOK'
  BY <1>1, <1>2, <1>3, <1>4, <1>5, EntryFacts DEF CacheInv, CacheTypeOK
<1>7. IdsTell'
  BY <1>2, <1>3, <1>4 DEF CacheInv, IdsTell
<1>8. ASSUME ChangeTracking, ~lateDrop' PROVE totalSize' = Total(SizeUnder', CacheKeys)
  <2>1. totalSize = Total(SizeUnder, CacheKeys) /\ SizeUnder[k] = getter[u].read.size
    BY <1>1, <1>2, <1>8 DEF CacheInv, SizesAddUp, IdsTell, SizeUnder, Present
  <2>2. /\ SizeUnder \in [CacheKeys -> Nat] /\ SizeUnder' \in [CacheKeys -> Nat]
        /\ SizeUnder'[k] = 0
        /\ \A j \in CacheKeys \ {k} : SizeUnder'[j] = SizeUnder[j]
    BY <1>1, <1>2, <1>4, EntryFacts DEF CacheInv, CacheTypeOK, SizeUnder
  <2>3. /\ Total(SizeUnder, CacheKeys) = Total(SizeUnder, CacheKeys \ {k}) + SizeUnder[k]
        /\ Total(SizeUnder', CacheKeys) = Total(SizeUnder', CacheKeys \ {k}) + SizeUnder'[k]
    BY <1>1, <2>2, IntelligentCacheAssumption, TotalWithout
  <2>4. Total(SizeUnder', CacheKeys \ {k}) = Total(SizeUnder, CacheKeys \ {k})
    BY <2>2, TotalSame
  <2>5. Total(SizeUnder, CacheKeys \ {k}) \in Nat /\ SizeUnder[k] \in Nat
    <3>1. CacheKeys \ {k} \in SUBSET CacheKeys /\ IsFiniteSet(CacheKeys \ {k})
      BY IntelligentCacheAssumption, FS_RemoveElement
    <3> QED BY <1>1, <2>2, <3>1, PairsFinite
  <2> QED BY <1>2, <2>1, <2>2, <2>3, <2>4, <2>5
<1> QED BY <1>5, <1>6, <1>7, <1>8 DEF CacheInv, SizesAddUp

LEMMA HitStep ==
  ASSUME CacheInv, NEW u \in Getters, Hit(u)
  PROVE  CacheInv'
<1> DEFINE k == getter[u].key
<1>1. /\ k \in CacheKeys
      /\ getter' = [getter EXCEPT ![u] = Idle]
      /\ UNCHANGED <<entries, totalSize, sets, lateDrop>>
  BY GetterFacts DEF Hit, CacheInv, CacheTypeOK
<1>2. GetterTypeOK' /\ \A v \in Getters : getter'[v] = getter[v]
                                           \/ getter'[v].pc \in {"idle", "missed"}
  BY <1>1, GetterReturns DEF CacheInv, CacheTypeOK
<1>3. Present' = Present /\ SizeUnder' = SizeUnder
  BY <1>1 DEF Present, SizeUnder
<1>4. recency' \in Seq(CacheKeys) /\ RecencyInOrder'
  <2>1. CASE UNCHANGED recency
    BY <1>3, <2>1 DEF CacheInv, CacheTypeOK, RecencyInOrder
  <2>2. CASE k \in Present /\ \E r \in RecencyWithout({k}) : recency' = Append(r, k)
    <3>1. Present' = (Present \ {k}) \cup {k}
      BY <1>3, <2>2
    <3>2. /\ recency' \in Seq(CacheKeys) /\ IsInjective(recency')
          /\ ToSet(recency') = Present' /\ Len(recency') = Cardinality(Present')
      BY <1>1, <2>2, <3>1, OrderAppends DEF CacheInv
    <3> QED BY <1>3, <3>2 DEF CacheInv, RecencyInOrder
  <2> QED BY <2>1, <2>2 DEF Hit
<1>5. CacheTypeOK'
  BY <1>1, <1>2, <1>4 DEF CacheInv, CacheTypeOK
<1>6. IdsTell' /\ SizesAddUp'
  BY <1>1, <1>2, <1>3 DEF CacheInv, IdsTell, SizesAddUp
<1> QED BY <1>4, <1>5, <1>6 DEF CacheInv

LEMMA ReturnMissStep ==
  ASSUME CacheInv, NEW u \in Getters, ReturnMiss(u)
  PROVE  CacheInv'
<1>1. /\ getter' = [getter EXCEPT ![u] = Idle]
      /\ UNCHANGED <<entries, recency, totalSize, sets, lateDrop>>
  BY DEF ReturnMiss
<1>2. GetterTypeOK' /\ \A v \in Getters : getter'[v] = getter[v]
                                           \/ getter'[v].pc \in {"idle", "missed"}
  BY <1>1, GetterFacts DEF CacheInv, CacheTypeOK, GetterTypeOK, Idle
<1>3. Present' = Present /\ SizeUnder' = SizeUnder
  BY <1>1 DEF Present, SizeUnder
<1> QED BY <1>1, <1>2, <1>3
          DEF CacheInv, CacheTypeOK, RecencyInOrder, IdsTell, SizesAddUp

\* Who is evicted, and whose size is subtracted.
Victims == IF Len(recency) >= MaxEntries THEN {Head(recency)} ELSE {}
Replaced(k) == IF k \in Present \ Victims /\ ChangeTracking THEN {k} ELSE {}

LEMMA SetFacts ==
  ASSUME CacheInv, NEW k \in CacheKeys, NEW size \in Sizes, Set(k, size)
  PROVE  /\ Victims \subseteq Present /\ Replaced(k) \subseteq Present
         /\ Len(recency) >= MaxEntries => \E j \in Present : Victims = {j}
         /\ sets' = sets + 1 /\ sets' \in 1 .. MaxSets /\ UNCHANGED lateDrop
         /\ entries'[k] = [id |-> sets', size |-> size, expired |-> FALSE]
         /\ \A j \in CacheKeys \ {k} :
              entries'[j] = IF j \in Victims THEN NoEntry ELSE entries[j]
         /\ entries' \in [CacheKeys -> Entry \cup {NoEntry}]
         /\ Present' = (Present \ (Victims \cup {k})) \cup {k}
         /\ \E r \in RecencyWithout(Victims \cup {k}) : recency' = Append(r, k)
         /\ totalSize' = totalSize - SizeOf(Victims \cup Replaced(k)) + size
<1> DEFINE kept == [j \in CacheKeys |-> IF j \in Victims THEN NoEntry ELSE entries[j]]
           replaced == IF kept[k] # NoEntry /\ ChangeTracking THEN {k} ELSE {}
<1>1. /\ sets < MaxSets /\ sets' = sets + 1 /\ UNCHANGED lateDrop
      /\ entries' = [kept EXCEPT ![k] = [id |-> sets', size |-> size, expired |-> FALSE]]
      /\ \E r \in RecencyWithout(Victims \cup {k}) : recency' = Append(r, k)
      /\ totalSize' = totalSize - SizeOf(Victims \cup replaced) + size
  BY DEF Set, Victims
<1>2. replaced = Replaced(k)
  BY DEF Replaced, Present
<1>3. Victims \subseteq Present /\ (Len(recency) >= MaxEntries => \E j \in Present : Victims = {j})
  <2> SUFFICES ASSUME Len(recency) >= MaxEntries PROVE Head(recency) \in Present
    BY DEF Victims
  <2>1. recency \in Seq(CacheKeys) /\ ToSet(recency) = Present
    BY DEF CacheInv, CacheTypeOK, RecencyInOrder
  <2>2. Len(recency) \in Nat /\ 1 \in DOMAIN recency
    BY <2>1, IntelligentCacheAssumption
  <2>3. Head(recency) = recency[1]
    BY <2>1, <2>2
  <2> QED BY <2>1, <2>2, <2>3 DEF ToSet
<1>4. sets' \in 1 .. MaxSets
  BY <1>1, IntelligentCacheAssumption DEF CacheInv, CacheTypeOK
<1>5. [id |-> sets', size |-> size, expired |-> FALSE] \in Entry
  BY <1>4 DEF Entry
<1>6. /\ entries'[k] = [id |-> sets', size |-> size, expired |-> FALSE]
      /\ \A j \in CacheKeys \ {k} :
           entries'[j] = IF j \in Victims THEN NoEntry ELSE entries[j]
      /\ entries' \in [CacheKeys -> Entry \cup {NoEntry}]
  BY <1>1, <1>5 DEF CacheInv, CacheTypeOK
<1>7. Present' = (Present \ (Victims \cup {k})) \cup {k}
  <2>1. k \in Present'
    BY <1>5, <1>6, EntryFacts DEF Present
  <2>2. \A j \in CacheKeys \ {k} : j \in Present' <=> j \in Present \ Victims
    BY <1>6 DEF Present
  <2> QED BY <2>1, <2>2 DEF Present
<1>8. Replaced(k) \subseteq Present
  BY DEF Replaced
<1> QED BY <1>1, <1>2, <1>3, <1>4, <1>6, <1>7, <1>8

LEMMA SetOrder ==
  ASSUME CacheInv, NEW k \in CacheKeys, NEW size \in Sizes, Set(k, size)
  PROVE  recency' \in Seq(CacheKeys) /\ RecencyInOrder'
<1> DEFINE stay == Present \ (Victims \cup {k})
<1>1. /\ recency' \in Seq(CacheKeys) /\ IsInjective(recency')
      /\ ToSet(recency') = Present' /\ Len(recency') = Cardinality(Present')
      /\ Cardinality(Present') = Cardinality(stay) + 1
  BY SetFacts, OrderAppends DEF CacheInv
<1>2. /\ Cardinality(Present) <= MaxEntries /\ Len(recency) = Cardinality(Present)
      /\ IsFiniteSet(Present) /\ Cardinality(Present) \in Nat /\ MaxEntries \in Nat \ {0}
  BY PresentFinite DEF CacheInv, RecencyInOrder
<1>3. CASE Len(recency) >= MaxEntries
  <2>1. PICK j \in Present : Victims = {j}
    BY <1>3, SetFacts
  <2>2. /\ Cardinality(Present \ {j}) = Cardinality(Present) - 1
        /\ IsFiniteSet(Present \ {j}) /\ stay \in SUBSET (Present \ {j})
    BY <1>2, <2>1, FS_RemoveElement
  <2>3. Cardinality(stay) <= Cardinality(Present \ {j}) /\ Cardinality(stay) \in Nat
    BY <2>2, FS_Subset, FS_CardinalityType
  <2> HIDE DEF stay
  <2> QED BY <1>1, <1>2, <2>2, <2>3 DEF RecencyInOrder
<1>4. CASE Len(recency) < MaxEntries
  <2>1. stay \in SUBSET Present
    OBVIOUS
  <2>2. Cardinality(stay) <= Cardinality(Present) /\ Cardinality(stay) \in Nat
    BY <1>2, <2>1, FS_Subset, FS_CardinalityType
  <2> HIDE DEF stay
  <2> QED BY <1>1, <1>2, <1>4, <2>2 DEF RecencyInOrder
<1> QED BY <1>2, <1>3, <1>4

LEMMA SetSizes ==
  ASSUME CacheInv, NEW k \in CacheKeys, NEW size \in Sizes, Set(k, size)
  PROVE  SizesAddUp'
<1> SUFFICES ASSUME ChangeTracking, ~lateDrop
             PROVE  totalSize' = Total(SizeUnder', CacheKeys)
  BY SetFacts DEF SizesAddUp
<1> DEFINE touched == Victims \cup {k}
           gone == Victims \cup Replaced(k)
<1>1. /\ gone \in SUBSET Present /\ Present \in SUBSET CacheKeys
      /\ gone \in SUBSET touched /\ touched \in SUBSET CacheKeys
      /\ {k} \in SUBSET touched
  BY SetFacts, PresentFinite DEF Replaced
<1>2. size \in Nat
  BY IntelligentCacheAssumption
<1>3. /\ SizeUnder \in [CacheKeys -> Nat] /\ SizeUnder' \in [CacheKeys -> Nat]
      /\ SizeUnder'[k] = size
      /\ \A j \in CacheKeys \ touched : SizeUnder'[j] = SizeUnder[j]
      /\ \A j \in touched \ {k} : SizeUnder'[j] = 0
      /\ \A j \in touched \ gone : SizeUnder[j] = 0
  <2>1. SizeUnder \in [CacheKeys -> Nat]
    BY SizeTypes DEF CacheInv
  <2>2. SizeUnder' \in [CacheKeys -> Nat]
    BY SetFacts, EntryFacts DEF SizeUnder
  <2>3. SizeUnder'[k] = size
    <3>1. entries'[k] = [id |-> sets', size |-> size, expired |-> FALSE] /\ k \in Present'
      BY SetFacts
    <3> QED BY <3>1 DEF SizeUnder, Present
  <2>4. \A j \in CacheKeys \ touched : SizeUnder'[j] = SizeUnder[j]
    BY SetFacts DEF SizeUnder
  <2>5. \A j \in touched \ {k} : SizeUnder'[j] = 0
    BY <1>1, SetFacts DEF SizeUnder
  <2>6. \A j \in touched \ gone : SizeUnder[j] = 0
    BY <1>1 DEF Replaced, SizeUnder, Present
  <2> QED BY <2>1, <2>2, <2>3, <2>4, <2>5, <2>6
<1>4. totalSize' = totalSize - SizeOf(gone) + size
  BY SetFacts
<1>5. totalSize = Total(SizeUnder, CacheKeys) /\ SizeOf(gone) = Total(SizeUnder, gone)
  BY <1>1, SizeOfIsTotal DEF CacheInv, SizesAddUp
<1> HIDE DEF touched, gone
<1>6. Total(SizeUnder', CacheKeys) =
        Total(SizeUnder, CacheKeys) - Total(SizeUnder, touched) + Total(SizeUnder', touched)
  BY <1>1, <1>3, IntelligentCacheAssumption, TotalChanged
<1>7. Total(SizeUnder, touched) = Total(SizeUnder, gone)
  BY <1>1, <1>3, TotalZeros
<1>8. Total(SizeUnder', touched) = size
  <2>1. Total(SizeUnder', touched) = Total(SizeUnder', {k})
    BY <1>1, <1>3, TotalZeros
  <2>2. {k} \in SUBSET CacheKeys /\ IsFiniteSet({k}) /\ {k} \ {k} = {}
    BY FS_Singleton
  <2>3. Total(SizeUnder', {k}) = Total(SizeUnder', {}) + SizeUnder'[k]
    BY <1>3, <2>2, TotalWithout
  <2>4. Total(SizeUnder', {}) = 0
    <3>1. Pairs(SizeUnder', {}) = {}
      BY DEF Pairs
    <3> QED BY <3>1, FS_EmptySet DEF Total
  <2> QED BY <1>2, <1>3, <2>1, <2>3, <2>4
<1> QED BY <1>4, <1>5, <1>6, <1>7, <1>8

\* What Set does, from whichever goroutine.
LEMMA SetStep ==
  ASSUME CacheInv, NEW k \in CacheKeys, NEW size \in Sizes, Set(k, size),
         GetterTypeOK',
         \A v \in Getters : getter'[v] = getter[v] \/ getter'[v].pc \in {"idle", "missed"}
  PROVE  CacheInv'
<1>0. /\ sets' = sets + 1 /\ sets' \in 1 .. MaxSets /\ UNCHANGED lateDrop
      /\ Victims \subseteq Present /\ Replaced(k) \subseteq Present
      /\ entries'[k] = [id |-> sets', size |-> size, expired |-> FALSE]
      /\ \A j \in CacheKeys \ {k} :
           entries'[j] = IF j \in Victims THEN NoEntry ELSE entries[j]
      /\ entries' \in [CacheKeys -> Entry \cup {NoEntry}]
      /\ Present' = (Present \ (Victims \cup {k})) \cup {k}
      /\ totalSize' = totalSize - SizeOf(Victims \cup Replaced(k)) + size
  BY SetFacts
<1>1. CacheTypeOK'
  <2>1. totalSize' \in Int
    <3>1. SizeOf(Victims \cup Replaced(k)) \in Nat
      <4>1. Victims \cup Replaced(k) \in SUBSET Present
        BY <1>0
      <4>2. SizeOf(Victims \cup Replaced(k)) = Total(SizeUnder, Victims \cup Replaced(k))
        BY <4>1, SizeOfIsTotal DEF CacheInv
      <4>3. Victims \cup Replaced(k) \in SUBSET CacheKeys /\ IsFiniteSet(Victims \cup Replaced(k))
        BY <4>1, PresentFinite, FS_Subset
      <4> QED BY <4>2, <4>3, SizeTypes, PairsFinite DEF CacheInv
    <3>2. totalSize \in Int /\ size \in Nat
      BY IntelligentCacheAssumption DEF CacheInv, CacheTypeOK
    <3> QED BY <1>0, <3>1, <3>2
  <2>2. sets' \in 0 .. MaxSets
    BY <1>0, IntelligentCacheAssumption
  <2> QED BY <1>0, <2>1, <2>2, SetOrder DEF CacheInv, CacheTypeOK
<1>2. IdsTell'
  <2>1. /\ sets \in Nat /\ sets' = sets + 1 /\ entries'[k].id = sets'
        /\ \A j \in Present' \ {k} : j \in Present /\ entries'[j] = entries[j]
    BY <1>0 DEF CacheInv, CacheTypeOK, Present
  <2>2. \A j \in Present' : entries'[j].id <= sets'
    <3>1. \A j \in Present : entries[j].id \in Nat /\ entries[j].id <= sets
      BY EntryFacts DEF CacheInv, CacheTypeOK, IdsTell, Present
    <3> QED BY <2>1, <3>1
  <2>3. ASSUME NEW v \in Getters, getter'[v].pc \in {"expired", "hit"}
        PROVE  /\ getter'[v].read.id <= sets'
               /\ LET j == getter'[v].key IN
                    j \in Present' /\ entries'[j].id = getter'[v].read.id =>
                      entries'[j].size = getter'[v].read.size
    <3>1. getter'[v] = getter[v] /\ getter[v].read \in Entry /\ getter[v].read.id <= sets
      BY <2>3, GetterFacts DEF CacheInv, CacheTypeOK, IdsTell
    <3>2. getter[v].read.id \in Nat
      BY <3>1, EntryFacts
    <3>3. CASE getter[v].key = k
      BY <2>1, <3>1, <3>2, <3>3
    <3>4. CASE getter[v].key # k
      BY <2>1, <2>3, <3>1, <3>2, <3>4 DEF CacheInv, IdsTell
    <3> QED BY <3>3, <3>4
  <2> QED BY <2>2, <2>3 DEF IdsTell
<1> QED BY <1>1, <1>2, SetOrder, SetSizes DEF CacheInv

\* The total of the sizes does not see an entry expire.
LEMMA ExpireStep ==
  ASSUME CacheInv, NEW k \in CacheKeys, Expire(k)
  PROVE  CacheInv'
<1>1. entries[k] \in Entry /\ k \in Present
  BY DEF Expire, CacheInv, CacheTypeOK, Present
<1>2. /\ entries'[k] = [entries[k] EXCEPT !.expired = TRUE]
      /\ \A j \in CacheKeys \ {k} : entries'[j] = entries[j]
      /\ entries' = [entries EXCEPT ![k] = [entries[k] EXCEPT !.expired = TRUE]]
      /\ UNCHANGED <<recency, totalSize, sets, getter, lateDrop>>
  BY DEF Expire, CacheInv, CacheTypeOK
<1>3. entries'[k] \in Entry /\ entries'[k].id = entries[k].id
                            /\ entries'[k].size = entries[k].size
  <2>1. entries[k] = [id |-> entries[k].id, size |-> entries[k].size,
                      expired |-> entries[k].expired]
    BY <1>1 DEF Entry
  <2>2. entries'[k] = [id |-> entries[k].id, size |-> entries[k].size, expired |-> TRUE]
    BY <1>2, <2>1
  <2> QED BY <1>1, <2>2 DEF Entry
<1>4. entries' \in [CacheKeys -> Entry \cup {NoEntry}]
  BY <1>2, <1>3 DEF CacheInv, CacheTypeOK
<1>5. entries[k] # NoEntry /\ entries'[k] # NoEntry
  BY <1>1, <1>3, EntryFacts
<1>6. Present' = Present /\ SizeUnder' = SizeUnder
  BY <1>2, <1>3, <1>5 DEF Present, SizeUnder
<1>7. \A j \in Present : entries'[j].id = entries[j].id /\ entries'[j].size = entries[j].size
  BY <1>2, <1>3 DEF Present
<1>8. CacheTypeOK'
  BY <1>2, <1>4 DEF CacheInv, CacheTypeOK, GetterTypeOK
<1>9. IdsTell'
  BY <1>2, <1>6, <1>7 DEF CacheInv, IdsTell
<1>10. RecencyInOrder' /\ SizesAddUp'
  BY <1>2, <1>6 DEF CacheInv, RecencyInOrder, SizesAddUp
<1> QED BY <1>8, <1>9, <1>10 DEF CacheInv

LEMMA CleanupStep ==
  ASSUME CacheInv, Cleanup
  PROVE  CacheInv'
<1> DEFINE gone == {k \in Present : entries[k].expired}
<1>1. /\ entries' = [k \in CacheKeys |-> IF k \in gone THEN NoEntry ELSE entries[k]]
      /\ recency' \in RecencyWithout(gone)
      /\ totalSize' = totalSize - SizeOf(gone)
      /\ UNCHANGED <<sets, getter, lateDrop>>
      /\ gone \in SUBSET Present
  BY DEF Cleanup
<1> HIDE DEF gone
<1>2. /\ entries' \in [CacheKeys -> Entry \cup {NoEntry}] /\ Present' = Present \ gone
      /\ \A k \in Present' : k \in Present /\ entries'[k] = entries[k]
  BY <1>1 DEF CacheInv, CacheTypeOK, Present
<1>3. recency' \in Seq(CacheKeys) /\ RecencyInOrder'
  BY <1>1, <1>2, OrderShrinks DEF CacheInv
<1>4. /\ gone \in SUBSET CacheKeys /\ IsFiniteSet(gone)
      /\ SizeOf(gone) = Total(SizeUnder, gone) /\ Total(SizeUnder, gone) \in Nat
  <2>1. gone \in SUBSET CacheKeys /\ IsFiniteSet(gone)
    BY <1>1, PresentFinite, FS_Subset
  <2>2. SizeOf(gone) = Total(SizeUnder, gone)
    BY <1>1, SizeOfIsTotal DEF CacheInv
  <2> QED BY <2>1, <2>2, SizeTypes, PairsFinite DEF CacheInv
<1>5. CacheTypeOK'
  BY <1>1, <1>2, <1>3, <1>4 DEF CacheInv, CacheTypeOK, GetterTypeOK
<1>6. IdsTell'
  BY <1>1, <1>2 DEF CacheInv, IdsTell
<1>7. ASSUME ChangeTracking, ~lateDrop' PROVE totalSize' = Total(SizeUnder', CacheKeys)
  <2>1. totalSize = Total(SizeUnder, CacheKeys)
    BY <1>1, <1>7 DEF CacheInv, SizesAddUp
  <2>2. /\ SizeUnder \in [CacheKeys -> Nat] /\ SizeUnder' \in [CacheKeys -> Nat]
        /\ \A k \in CacheKeys \ gone : SizeUnder'[k] = SizeUnder[k]
        /\ \A k \in gone \ {} : SizeUnder'[k] = 0
    <3>1. SizeUnder \in [CacheKeys -> Nat]
      BY SizeTypes DEF CacheInv
    <3>2. SizeUnder' \in [CacheKeys -> Nat]
      BY <1>2, EntryFacts DEF SizeUnder
    <3> QED BY <1>1, <1>4, <3>1, <3>2 DEF SizeUnder
  <2>3. Total(SizeUnder', CacheKeys) =
          Total(SizeUnder, CacheKeys) - Total(SizeUnder, gone) + Total(SizeUnder', gone)
    BY <1>4, <2>2, IntelligentCacheAssumption, TotalChanged
  <2>4. Total(SizeUnder', gone) = 0
    <3>1. \A k \in gone : 1 .. SizeUnder'[k] = {}
      BY <2>2
    <3>2. Pairs(SizeUnder', gone) = {}
      BY <3>1 DEF Pairs
    <3> QED BY <3>2, FS_EmptySet DEF Total
  <2>5. Total(SizeUnder, CacheKeys) \in Nat
    BY <2>2, IntelligentCacheAssumption, PairsFinite
  <2> QED BY <1>1, <1>4, <2>1, <2>3, <2>4, <2>5
<1> QED BY <1>3, <1>5, <1>6, <1>7 DEF CacheInv, SizesAddUp

\* An empty cache, whoever is inside Get.
EmptyCache ==
  /\ entries = [k \in CacheKeys |-> NoEntry] /\ recency = <<>> /\ totalSize = 0
  /\ sets \in 0 .. MaxSets /\ lateDrop \in BOOLEAN /\ GetterTypeOK
  /\ \A u \in Getters : getter[u].pc \in {"expired", "hit"} => getter[u].read.id <= sets

LEMMA EmptyInv == EmptyCache => CacheInv
<1> SUFFICES ASSUME EmptyCache PROVE CacheInv
  OBVIOUS
<1> USE DEF EmptyCache
<1>1. Present = {} /\ ToSet(recency) = {} /\ IsInjective(recency) /\ Len(recency) = 0
  BY DEF Present, ToSet, IsInjective
<1>2. Cardinality(Present) = 0
  BY <1>1, FS_EmptySet
<1>3. RecencyInOrder
  BY <1>1, <1>2, IntelligentCacheAssumption DEF RecencyInOrder
<1>4. CacheTypeOK
  BY DEF CacheTypeOK
<1>5. IdsTell
  BY <1>1 DEF IdsTell
<1>6. Total(SizeUnder, CacheKeys) = 0
  <2>1. \A k \in CacheKeys : 1 .. SizeUnder[k] = {}
    BY DEF SizeUnder
  <2>2. Pairs(SizeUnder, CacheKeys) = {}
    BY <2>1 DEF Pairs
  <2> QED BY <2>2, FS_EmptySet DEF Total
<1> QED BY <1>3, <1>4, <1>5, <1>6 DEF CacheInv, SizesAddUp

LEMMA CacheStarts == IntelligentInit => CacheInv
<1> SUFFICES ASSUME IntelligentInit PROVE CacheInv
  OBVIOUS
<1>1. GetterTypeOK /\ \A u \in Getters : getter[u].pc = "idle"
  BY DEF IntelligentInit, GetterTypeOK, Idle
<1>2. sets \in 0 .. MaxSets
  BY IntelligentCacheAssumption DEF IntelligentInit
<1> QED BY <1>1, <1>2, EmptyInv DEF IntelligentInit, EmptyCache

LEMMA ClearStep ==
  ASSUME CacheInv, Clear
  PROVE  CacheInv'
<1>1. /\ entries' = [k \in CacheKeys |-> NoEntry] /\ recency' = <<>> /\ totalSize' = 0
      /\ UNCHANGED <<sets, getter, lateDrop>>
  BY DEF Clear
<1>2. sets' \in 0 .. MaxSets /\ lateDrop' \in BOOLEAN /\ GetterTypeOK'
  BY <1>1 DEF CacheInv, CacheTypeOK, GetterTypeOK
<1>3. \A u \in Getters : getter'[u].pc \in {"expired", "hit"} => getter'[u].read.id <= sets'
  BY <1>1 DEF CacheInv, IdsTell
<1>4. EmptyCache'
  BY <1>1, <1>2, <1>3 DEF EmptyCache
<1>5. EmptyCache' => CacheInv'
  BY EmptyInv, PTL
<1> QED BY <1>4, <1>5

LEMMA CacheSteps == CacheInv /\ [IntelligentNext]_intelligentVars => CacheInv'
<1> SUFFICES ASSUME CacheInv, [IntelligentNext]_intelligentVars PROVE CacheInv'
  OBVIOUS
<1>1. ASSUME NEW u \in Getters, DropExpired(u) \/ Hit(u) \/ ReturnMiss(u) PROVE CacheInv'
  BY <1>1, DropExpiredStep, HitStep, ReturnMissStep
<1>2. ASSUME NEW u \in Getters, NEW size \in Sizes, StoreResult(u, size) PROVE CacheInv'
  <2>1. /\ getter[u].key \in CacheKeys /\ Set(getter[u].key, size)
        /\ getter' = [getter EXCEPT ![u] = Idle]
    BY <1>2, GetterFacts DEF StoreResult, CacheInv, CacheTypeOK
  <2>2. GetterTypeOK' /\ \A v \in Getters : getter'[v] = getter[v]
                                             \/ getter'[v].pc \in {"idle", "missed"}
    BY <2>1, GetterReturns DEF CacheInv, CacheTypeOK
  <2> QED BY <2>1, <2>2, SetStep
<1>3. ASSUME NEW u \in Getters, NEW k \in CacheKeys, Get(u, k) PROVE CacheInv'
  BY <1>3, GetStep
<1>4. ASSUME NEW k \in CacheKeys, NEW size \in Sizes, Set(k, size), UNCHANGED getter
      PROVE  CacheInv'
  <2>1. GetterTypeOK'
    BY <1>4 DEF CacheInv, CacheTypeOK, GetterTypeOK
  <2> QED BY <1>4, <2>1, SetStep
<1>5. ASSUME NEW k \in CacheKeys, Expire(k) PROVE CacheInv'
  BY <1>5, ExpireStep
<1>6. CASE Cleanup
  BY <1>6, CleanupStep
<1>7. CASE Clear
  BY <1>7, ClearStep
<1>8. CASE UNCHANGED intelligentVars
  BY <1>8 DEF intelligentVars, CacheInv, CacheTypeOK, GetterTypeOK, RecencyInOrder, IdsTell,
              SizesAddUp, Present, SizeUnder
<1> QED BY <1>1, <1>2, <1>3, <1>4, <1>5, <1>6, <1>7, <1>8 DEF IntelligentNext

\* Whatever Gets, Sets, cleanups and clears of the intelligent cache overlap,
\* it holds at most MaxEntries entries, the order of eviction has each of
\* their keys once, and with change tracking total_size_bytes is the sum of
\* their sizes unless a Get has deleted another entry than the one it read.
THEOREM CacheKeepsAccounts == IntelligentSpec => []CacheAccounts
<1>1. CacheInv => CacheAccounts
  <2> SUFFICES ASSUME CacheInv PROVE CacheAccounts
    OBVIOUS
  <2>1. IntelligentTypeOK
    BY GetterFacts DEF CacheInv, CacheTypeOK, IntelligentTypeOK
  <2>2. ChangeTracking /\ ~lateDrop => totalSize = SizeOf(Present)
    BY PresentTotal DEF CacheInv, SizesAddUp
  <2> QED BY <2>1, <2>2 DEF CacheInv, RecencyInOrder, CacheAccounts
<1> QED BY <1>1, CacheStarts, CacheSteps, PTL DEF IntelligentSpec
=============================================================================
