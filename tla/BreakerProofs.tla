---------------------------- MODULE BreakerProofs ----------------------------
(***************************************************************************)
(* For every set of callers, every MaxFailures and every ResetTimeout: the *)
(* safety invariants of CollectorCalls, its cool-down, and the fact that   *)
(* the breaker implements BreakerPromise. For every set of collectors and  *)
(* every finite set of goroutines: the types of DegradationManager, which  *)
(* keeps one such breaker per collector, and that its map of breakers      *)
(* stands still under every loop.                                          *)
(***************************************************************************)
EXTENDS CollectorCalls, DegradationManager, FiniteSetTheorems, TLAPS

\* CountDecidesState and OpeningIsCovered are inductive together with the
\* types: a half-open breaker keeps the count that opened it, so that the
\* next failure needs no new comparison with MaxFailures.
IInv == TypeOK /\ CountDecidesState /\ OpeningIsCovered

USE BreakerAssumption, CallersAssumption

\* Admission keeps the record a breaker, keeps its count and its clock, and
\* never leaves it open.
LEMMA AdmitFacts ==
  ASSUME NEW b \in Breaker
  PROVE  /\ Admit(b) \in Breaker
         /\ Admit(b).failures = b.failures
         /\ Admit(b).elapsed = b.elapsed
         /\ Admit(b).state \in {"closed", "halfOpen"}
         /\ Admit(b).state = "closed" <=> b.state = "closed"
  BY DEF Breaker, Admit, Expired

\* A recorded failure counts one, restarts the clock and decides the state by
\* the count alone.
LEMMA FailureFacts ==
  ASSUME NEW b \in Breaker, b.state = "closed" <=> b.failures < MaxFailures
  PROVE  /\ OnFailure(b) \in Breaker
         /\ OnFailure(b).failures = b.failures + 1
         /\ OnFailure(b).elapsed = 0
         /\ OnFailure(b).state = "closed" <=> OnFailure(b).failures < MaxFailures
         /\ OnFailure(b).state \in {"closed", "open"}
         /\ b.state # "closed" => OnFailure(b).state = "open"
<1>1. b.failures + 1 \in Nat /\ 0 \in 0 .. Expired
  BY DEF Breaker, Expired
<1>2. (IF b.state = "closed" /\ b.failures + 1 >= MaxFailures
       THEN "open" ELSE b.state) \in {"closed", "open", "halfOpen"}
  BY DEF Breaker
<1>3. recordFailure(b) \in Breaker
  BY <1>1, <1>2 DEF Breaker, recordFailure
<1>4. /\ recordFailure(b).failures = b.failures + 1
      /\ recordFailure(b).elapsed = 0
      /\ recordFailure(b).state = IF b.state = "closed" /\ b.failures + 1 >= MaxFailures
                                  THEN "open" ELSE b.state
  BY DEF Breaker, recordFailure
<1>5. /\ OnFailure(b) \in Breaker
      /\ OnFailure(b).failures = recordFailure(b).failures
      /\ OnFailure(b).elapsed = recordFailure(b).elapsed
      /\ OnFailure(b).state = IF recordFailure(b).state = "halfOpen"
                              THEN "open" ELSE recordFailure(b).state
  BY <1>3 DEF Breaker, OnFailure
<1>6. QED
  BY <1>4, <1>5 DEF Breaker

\* A success leaves an open breaker alone and clears any other.
LEMMA SuccessFacts ==
  ASSUME NEW b \in Breaker
  PROVE  /\ OnSuccess(b) \in Breaker
         /\ b.state = "open" => OnSuccess(b) = b
         /\ b.state # "open" => /\ OnSuccess(b).state = "closed"
                                /\ OnSuccess(b).failures = 0
                                /\ OnSuccess(b).elapsed = b.elapsed
  BY DEF Breaker, OnSuccess, Expired

LEMMA ResetFacts ==
  ASSUME NEW b \in Breaker
  PROVE  /\ Reset(b) \in Breaker
         /\ Reset(b).state = "closed"
         /\ Reset(b).failures = 0
         /\ Reset(b).elapsed = b.elapsed
  BY DEF Breaker, Reset, Expired

LEMMA LaterFacts ==
  ASSUME NEW b \in Breaker
  PROVE  /\ Later(b) \in Breaker
         /\ Later(b).state = b.state
         /\ Later(b).failures = b.failures
         /\ b.elapsed < Expired => Later(b).elapsed = b.elapsed + 1
         /\ b.elapsed = Expired => Later(b).elapsed = Expired
         /\ b.elapsed > ResetTimeout => Later(b).elapsed > ResetTimeout
  BY DEF Breaker, Later, Expired

-----------------------------------------------------------------------------
LEMMA InitIInv == Init => IInv
  BY DEF Init, IInv, TypeOK, CountDecidesState, OpeningIsCovered, CallStates,
         NewCircuitBreaker, Breaker, IsOpen, Expired

LEMMA StepIInv == IInv /\ [Next]_vars => IInv'
<1> SUFFICES ASSUME IInv, [Next]_vars PROVE IInv'
  OBVIOUS
<1> USE DEF IInv, TypeOK, CountDecidesState, OpeningIsCovered, IsOpen
<1>1. ASSUME NEW c \in Callers, Begin(c) PROVE IInv'
  BY <1>1, AdmitFacts DEF Begin, CallStates
<1>2. ASSUME NEW c \in Callers, Succeed(c) PROVE IInv'
  BY <1>2, SuccessFacts DEF Succeed, NoteOpening, CallStates, Expired
<1>3. ASSUME NEW c \in Callers, Fail(c) PROVE IInv'
  <2>1. cb' \in Breaker /\ cb'.elapsed = 0 /\ CountDecidesState'
    BY <1>3, FailureFacts DEF Fail
  <2>2. call' \in [Callers -> CallStates] /\ healthy' \in BOOLEAN
    BY <1>3 DEF Fail, CallStates
  <2>3. sinceOpen' \in 0 .. Expired
    BY <1>3 DEF Fail, NoteOpening, Expired
  <2>4. QED
    BY <2>1, <2>2, <2>3 DEF Expired
<1>4. CASE ResetByHand
  BY <1>4, ResetFacts DEF ResetByHand
<1>5. CASE Tick
  <2>1. cb' = Later(cb) /\ UNCHANGED <<call, healthy>>
    BY <1>5 DEF Tick
  <2>2. cb.elapsed \in 0 .. Expired
    BY DEF Breaker
  <2>3. sinceOpen' \in 0 .. Expired
    BY <1>5 DEF Tick, Expired
  <2>4. OpeningIsCovered'
    BY <1>5, <2>1, <2>2, LaterFacts DEF Tick, Expired
  <2>5. QED
    BY <2>1, <2>3, <2>4, LaterFacts
<1>6. CASE HealthChanges
  BY <1>6 DEF HealthChanges
<1>7. CASE UNCHANGED vars
  BY <1>7 DEF vars
<1>8. QED
  BY <1>1, <1>2, <1>3, <1>4, <1>5, <1>6, <1>7 DEF Next

LEMMA Invariance == Spec => []IInv
  BY InitIInv, StepIInv, PTL DEF Spec

\* The variables keep their types, for any number of callers.
THEOREM TypeCorrect == Spec => []TypeOK
<1>1. IInv => TypeOK
  BY DEF IInv
<1>2. QED
  BY <1>1, Invariance, PTL

\* The breaker is closed exactly while fewer than MaxFailures failures are
\* counted, whatever the order in which calls return.
THEOREM CountAndState == Spec => []CountDecidesState
<1>1. IInv => CountDecidesState
  BY DEF IInv
<1>2. QED
  BY <1>1, Invariance, PTL

\* lastFailTime is never older than the opening of an open breaker.
THEOREM OpeningCovered == Spec => []OpeningIsCovered
<1>1. IInv => OpeningIsCovered
  BY DEF IInv
<1>2. QED
  BY <1>1, Invariance, PTL

\* No call passes an open breaker before the reset timeout has run.
THEOREM CoolDown == Spec => CoolDownRespected
<1> DEFINE Safe == cb.state = "open" /\ cb'.state = "halfOpen"
                     => sinceOpen > ResetTimeout
<1>1. ASSUME IInv, Next PROVE Safe
  <2> SUFFICES ASSUME cb.state = "open", cb'.state = "halfOpen"
               PROVE  sinceOpen > ResetTimeout
    OBVIOUS
  <2> USE DEF IInv, TypeOK
  <2>1. ASSUME NEW c \in Callers, Begin(c) PROVE sinceOpen > ResetTimeout
    BY <1>1, <2>1 DEF Begin, Admits, OpeningIsCovered, IsOpen, Breaker, Expired
  <2>2. ASSUME NEW c \in Callers, Succeed(c) PROVE FALSE
    BY <1>1, <2>2, SuccessFacts DEF Succeed
  <2>3. ASSUME NEW c \in Callers, Fail(c) PROVE FALSE
    BY <1>1, <2>3, FailureFacts DEF Fail, CountDecidesState
  <2>4. CASE ResetByHand
    BY <1>1, <2>4, ResetFacts DEF ResetByHand
  <2>5. CASE Tick
    BY <1>1, <2>5, LaterFacts DEF Tick
  <2>6. CASE HealthChanges
    BY <1>1, <2>6 DEF HealthChanges
  <2>7. QED
    BY <1>1, <2>1, <2>2, <2>3, <2>4, <2>5, <2>6 DEF Next
<1>2. IInv /\ [Next]_vars => [Safe]_vars
  BY <1>1
<1>3. QED
  BY <1>2, Invariance, PTL DEF Spec, CoolDownRespected

\* Every run of the breaker is a run of BreakerPromise: no order of late
\* results, test calls and resets opens it without a failure, lets a call
\* through an uncooled breaker, or closes it out of the open state.
THEOREM ImplementsPromise == Spec => KeepsPromise
<1>1. Init => Abstract!PromiseInit
  BY DEF Init, NewCircuitBreaker, Abstract!PromiseInit, Expired, InFlight
<1>2. ASSUME IInv, [Next]_vars
      PROVE  [Abstract!PromiseNext]_(Abstract!promise)
  <2> USE DEF IInv, TypeOK, InFlight
  <2>1. ASSUME NEW c \in Callers, Begin(c) PROVE Abstract!LetThrough(c)
    <3>1. /\ call[c] = "none"
          /\ Admits(cb)
          /\ cb' = Admit(cb)
          /\ call' = [call EXCEPT ![c] = cb'.state]
      BY <2>1 DEF Begin
    <3>2. InFlight' = InFlight \cup {c} /\ c \notin InFlight
      BY <1>2, <3>1, AdmitFacts
    <3>3. cb'.state = (IF cb.state = "open" THEN "halfOpen" ELSE cb.state)
      BY <1>2, <3>1 DEF Admit, Breaker
    <3>4. cb.state = "open" => cb.elapsed > ResetTimeout
      BY <3>1 DEF Admits
    <3>5. cb'.elapsed = cb.elapsed
      BY <1>2, <3>1, AdmitFacts
    <3>6. QED
      BY <3>2, <3>3, <3>4, <3>5 DEF Abstract!LetThrough
  <2>2. ASSUME NEW c \in Callers, Succeed(c) PROVE Abstract!ReturnWell(c)
    <3>1. InFlight' = InFlight \ {c} /\ c \in InFlight
      BY <1>2, <2>2 DEF Succeed
    <3>2. /\ cb'.elapsed = cb.elapsed
          /\ cb'.state = (IF cb.state = "open" THEN "open" ELSE "closed")
      BY <1>2, <2>2, SuccessFacts DEF Succeed
    <3>3. QED
      BY <3>1, <3>2 DEF Abstract!ReturnWell
  <2>3. ASSUME NEW c \in Callers, Fail(c) PROVE Abstract!ReturnBadly(c)
    <3>1. InFlight' = InFlight \ {c} /\ c \in InFlight
      BY <1>2, <2>3 DEF Fail
    <3>2. /\ ~(cb'.elapsed > ResetTimeout)
          /\ cb'.state \in IF cb.state = "closed" THEN {"closed", "open"} ELSE {"open"}
      BY <1>2, <2>3, FailureFacts DEF Fail, CountDecidesState
    <3>3. QED
      BY <3>1, <3>2 DEF Abstract!ReturnBadly
  <2>4. CASE ResetByHand
    BY <1>2, <2>4, ResetFacts DEF ResetByHand, Abstract!ManualReset, Abstract!PromiseNext
  <2>5. CASE Tick
    BY <1>2, <2>5, LaterFacts
       DEF Tick, Abstract!CoolDown, Abstract!PromiseNext, Abstract!promise, Breaker, Expired
  <2>6. CASE HealthChanges
    BY <2>6 DEF HealthChanges, Abstract!promise
  <2>7. CASE UNCHANGED vars
    BY <2>7 DEF vars, Abstract!promise
  <2>8. QED
    BY <1>2, <2>1, <2>2, <2>3, <2>4, <2>5, <2>6, <2>7 DEF Next, Abstract!PromiseNext
<1>3. QED
  BY <1>1, <1>2, Invariance, PTL DEF Spec, KeepsPromise, Abstract!Promise

-----------------------------------------------------------------------------
(* The degradation manager. dm.mu only counts its read locks, so that a    *)
(* loop over dm.breakers is protected only if the count is exact: one for  *)
(* each goroutine in UpdateDegradationMode, one for each that still resets *)
(* and two for each that counts again within ResetAllBreakers.             *)

HoldOne == {t \in Threads : pc[t] \in {"count", "reset"}}
HoldTwo == {t \in Threads : pc[t] = "recount"}

ReadersCounted ==
  /\ IsFiniteSet(HoldOne) /\ IsFiniteSet(HoldTwo)
  /\ mu.readers = Cardinality(HoldOne) + 2 * Cardinality(HoldTwo)

\* Only the two loops take read locks, and only a reset takes two.
HeldByLoops ==
  /\ HoldOne \subseteq Updaters \cup Resetters
  /\ HoldTwo \subseteq Resetters

\* A goroutine within ExecuteWithDegradation knows its collector, and what it
\* has seen is the result of its call, then the state of its breaker.
Executing == {"getBreaker", "call", "collect", "observe", "publishOk", "publishEmpty",
              "publishError", "publishRejected", "store", "serve", "serveRejected",
              "lookup"}
Publishing == {"publishOk", "publishEmpty", "publishError", "publishRejected"}

ExecutesKnown(t) ==
  /\ pc[t] \in Executing => arg[t] \in Collectors
  /\ pc[t] = "observe" => seen[t] \in {"ok", "empty", "error", "rejected"}
  /\ pc[t] \in Publishing => seen[t] \in {"closed", "open", "halfOpen"}

DegradationTypes ==
  /\ breakers \in [Collectors -> Breaker]
  /\ created \subseteq Collectors
  /\ mu \in [writer : {{}} \cup {{t} : t \in Executors}, readers : Nat]
  /\ cached \subseteq Collectors
  /\ stateGauge \in [Collectors -> {"unset", "closed", "open", "halfOpen"}]
  /\ modeGauge \in {"normal", "partial", "unavailable"}
  /\ pc \in [Threads -> Labels]
  /\ arg \in [Threads -> Collectors \cup {"none"}]
  /\ seen \in [Threads -> Results]
  /\ todo \in [Threads -> SUBSET Collectors]
  /\ openCount \in [Threads -> Nat]

\* As in CollectorCalls, for each collector's breaker.
CountsDecide ==
  \A c \in Collectors :
    breakers[c].state = "closed" <=> breakers[c].failures < MaxFailures

DegradationInv ==
  /\ DegradationTypes
  /\ CountsDecide
  /\ \A t \in Threads : ExecutesKnown(t)
  /\ HeldByLoops
  /\ ReadersCounted

LEMMA InitDegradationInv == DegradationInit => DegradationInv
<1> SUFFICES ASSUME DegradationInit PROVE DegradationInv
  OBVIOUS
<1> USE DEF DegradationInit
<1>1. DegradationTypes
  BY DEF DegradationTypes, NewCircuitBreaker, Breaker, Expired, Unlocked, Labels, Results
<1>2. \A t \in Threads : ExecutesKnown(t)
  BY DEF ExecutesKnown, Executing, Publishing
<1>3. HoldOne = {} /\ HoldTwo = {}
  BY DEF HoldOne, HoldTwo
<1>4. HeldByLoops
  BY <1>3 DEF HeldByLoops
<1>5. ReadersCounted
  BY <1>3, FS_EmptySet DEF ReadersCounted, Unlocked
<1>6. CountsDecide
  BY DEF CountsDecide, NewCircuitBreaker
<1> QED BY <1>1, <1>2, <1>4, <1>5, <1>6 DEF DegradationInv

\* A goroutine's move from one label to another changes who holds the lock
\* only as far as the two labels say.
LEMMA HoldersAfterGoto ==
  ASSUME DegradationTypes, NEW t \in Threads, NEW l, Goto(t, l)
  PROVE  /\ HoldOne' = IF l \in {"count", "reset"} THEN HoldOne \cup {t} ELSE HoldOne \ {t}
         /\ HoldTwo' = IF l = "recount" THEN HoldTwo \cup {t} ELSE HoldTwo \ {t}
<1> USE DEF DegradationTypes, Goto, HoldOne, HoldTwo
<1>1. pc'[t] = l /\ \A u \in Threads \ {t} : pc'[u] = pc[u]
  OBVIOUS
<1>2. CASE l \in {"count", "reset"}
  BY <1>1, <1>2
<1>3. CASE l \notin {"count", "reset"}
  BY <1>1, <1>3
<1> QED BY <1>2, <1>3

\* What the operations on dm.mu do to its two fields.
LEMMA MutexFacts ==
  ASSUME DegradationTypes, NEW t
  PROVE  /\ RLocked(mu) = [writer |-> mu.writer, readers |-> mu.readers + 1]
         /\ RUnlocked(mu) = [writer |-> mu.writer, readers |-> mu.readers - 1]
         /\ RUnlocked(RUnlocked(mu)) = [writer |-> mu.writer, readers |-> mu.readers - 1 - 1]
         /\ Announced(mu, t) = [writer |-> {t}, readers |-> mu.readers]
         /\ WriteUnlocked(mu) = [writer |-> {}, readers |-> mu.readers]
<1>1. mu = [writer |-> mu.writer, readers |-> mu.readers]
  BY DEF DegradationTypes
<1>2. /\ RLocked(mu) = [writer |-> mu.writer, readers |-> mu.readers + 1]
      /\ WriteUnlocked(mu) = [writer |-> {}, readers |-> mu.readers]
  BY <1>1 DEF RLocked, WriteUnlocked
<1>3. Announced(mu, t) = [writer |-> {t}, readers |-> mu.readers]
  BY <1>1 DEF Announced
<1>4. \A w, n : RUnlocked([writer |-> w, readers |-> n]) = [writer |-> w, readers |-> n - 1]
  BY DEF RUnlocked
<1>5. RUnlocked(mu) = [writer |-> mu.writer, readers |-> mu.readers - 1]
  BY <1>1, <1>4
<1>6. RUnlocked(RUnlocked(mu)) = [writer |-> mu.writer, readers |-> mu.readers - 1 - 1]
  BY <1>4, <1>5
<1> QED BY <1>2, <1>3, <1>5, <1>6

\* A step that takes and gives back no read lock.
LEMMA QuietKeepsReaders ==
  ASSUME ReadersCounted, HeldByLoops, UNCHANGED <<HoldOne, HoldTwo>>,
         mu'.readers = mu.readers
  PROVE  ReadersCounted' /\ HeldByLoops'
  BY DEF ReadersCounted, HeldByLoops

\* A loop that begins counts as one reader.
LEMMA FirstLockCounted ==
  ASSUME DegradationTypes, ReadersCounted, HeldByLoops, NEW t \in Updaters \cup Resetters,
         pc[t] = "idle", HoldOne' = HoldOne \cup {t}, HoldTwo' = HoldTwo \ {t},
         mu'.readers = mu.readers + 1
  PROVE  ReadersCounted' /\ HeldByLoops'
<1>1. t \notin HoldOne /\ HoldTwo' = HoldTwo
  BY DEF HoldOne, HoldTwo
<1>2. IsFiniteSet(HoldOne) /\ IsFiniteSet(HoldTwo)
  BY DEF ReadersCounted
<1>3. IsFiniteSet(HoldOne') /\ Cardinality(HoldOne') = Cardinality(HoldOne) + 1
  BY <1>1, <1>2, FS_AddElement
<1>4. Cardinality(HoldOne) \in Nat /\ Cardinality(HoldTwo) \in Nat
  BY <1>2, FS_CardinalityType
<1>5. /\ mu.readers = Cardinality(HoldOne) + 2 * Cardinality(HoldTwo)
      /\ Cardinality(HoldTwo') = Cardinality(HoldTwo)
  BY <1>1 DEF ReadersCounted
<1>6. mu'.readers = Cardinality(HoldOne') + 2 * Cardinality(HoldTwo')
  BY <1>3, <1>4, <1>5
<1>7. HeldByLoops'
  BY <1>1 DEF HeldByLoops
<1> QED BY <1>1, <1>2, <1>3, <1>6, <1>7 DEF ReadersCounted

\* The reset loop that counts again trades its one read lock for two.
LEMMA SecondLockCounted ==
  ASSUME DegradationTypes, ReadersCounted, HeldByLoops, NEW t \in Resetters,
         pc[t] = "reset", HoldOne' = HoldOne \ {t}, HoldTwo' = HoldTwo \cup {t},
         mu'.readers = mu.readers + 1
  PROVE  ReadersCounted' /\ HeldByLoops'
<1>1. t \in HoldOne /\ t \notin HoldTwo
  BY DEF HoldOne, HoldTwo, Threads
<1>2. IsFiniteSet(HoldOne) /\ IsFiniteSet(HoldTwo)
  BY DEF ReadersCounted
<1>3. IsFiniteSet(HoldOne') /\ Cardinality(HoldOne') = Cardinality(HoldOne) - 1
  BY <1>1, <1>2, FS_RemoveElement
<1>4. IsFiniteSet(HoldTwo') /\ Cardinality(HoldTwo') = Cardinality(HoldTwo) + 1
  BY <1>1, <1>2, FS_AddElement
<1>5. Cardinality(HoldOne) \in Nat /\ Cardinality(HoldTwo) \in Nat
  BY <1>2, FS_CardinalityType
<1> QED BY <1>2, <1>3, <1>4, <1>5 DEF ReadersCounted, HeldByLoops

\* A loop that ends gives back exactly what it holds.
LEMMA LocksReturned ==
  ASSUME DegradationTypes, ReadersCounted, HeldByLoops, NEW t \in Threads, Counting(t),
         HoldOne' = HoldOne \ {t}, HoldTwo' = HoldTwo \ {t},
         mu'.readers = IF pc[t] = "recount" THEN mu.readers - 1 - 1 ELSE mu.readers - 1
  PROVE  ReadersCounted' /\ HeldByLoops' /\ mu'.readers \in Nat
<1>1. IsFiniteSet(HoldOne) /\ IsFiniteSet(HoldTwo)
  BY DEF ReadersCounted
<1>2. Cardinality(HoldOne) \in Nat /\ Cardinality(HoldTwo) \in Nat
  BY <1>1, FS_CardinalityType
<1>3. CASE pc[t] = "recount"
  <2>1. t \in HoldTwo /\ HoldOne' = HoldOne
    BY <1>3 DEF HoldOne, HoldTwo
  <2>2. IsFiniteSet(HoldTwo') /\ Cardinality(HoldTwo') = Cardinality(HoldTwo) - 1
    BY <1>1, <2>1, FS_RemoveElement
  <2>3. Cardinality(HoldTwo') \in Nat
    BY <2>2, FS_CardinalityType
  <2>4. /\ mu.readers = Cardinality(HoldOne) + 2 * Cardinality(HoldTwo)
        /\ Cardinality(HoldOne') = Cardinality(HoldOne)
    BY <2>1 DEF ReadersCounted
  <2>5. /\ mu'.readers = Cardinality(HoldOne') + 2 * Cardinality(HoldTwo')
        /\ mu'.readers \in Nat
    BY <1>2, <1>3, <2>2, <2>3, <2>4
  <2>6. HeldByLoops'
    BY <2>1 DEF HeldByLoops
  <2> QED BY <1>1, <2>1, <2>2, <2>4, <2>5, <2>6 DEF ReadersCounted
<1>4. CASE pc[t] = "count"
  <2>1. t \in HoldOne /\ HoldTwo' = HoldTwo
    BY <1>4 DEF HoldOne, HoldTwo
  <2>2. IsFiniteSet(HoldOne') /\ Cardinality(HoldOne') = Cardinality(HoldOne) - 1
    BY <1>1, <2>1, FS_RemoveElement
  <2>3. Cardinality(HoldOne') \in Nat
    BY <2>2, FS_CardinalityType
  <2>4. /\ mu.readers = Cardinality(HoldOne) + 2 * Cardinality(HoldTwo)
        /\ Cardinality(HoldTwo') = Cardinality(HoldTwo)
    BY <2>1 DEF ReadersCounted
  <2>5. /\ mu'.readers = Cardinality(HoldOne') + 2 * Cardinality(HoldTwo')
        /\ mu'.readers \in Nat
    BY <1>2, <1>4, <2>2, <2>3, <2>4
  <2>6. HeldByLoops'
    BY <2>1 DEF HeldByLoops
  <2> QED BY <1>1, <2>1, <2>2, <2>4, <2>5, <2>6 DEF ReadersCounted
<1> QED BY <1>3, <1>4 DEF Counting

LEMMA NextDegradationInv == DegradationInv /\ DegradationNext => DegradationInv'
<1> SUFFICES ASSUME DegradationInv, DegradationNext PROVE DegradationInv'
  OBVIOUS
<1> USE DEF DegradationInv
<1>0. Executors \subseteq Threads /\ Updaters \subseteq Threads /\ Resetters \subseteq Threads
  BY DEF Threads
\* An executor that goes from one label of its call to another.
<1>1. ASSUME NEW t \in Threads, NEW l \in Executing \cup {"idle"}, Goto(t, l),
             pc[t] \in Executing \cup {"idle"},
             mu'.readers = mu.readers
      PROVE  ReadersCounted' /\ HeldByLoops'
  <2>1. l \notin {"count", "reset", "recount"} /\ t \notin HoldOne /\ t \notin HoldTwo
    BY <1>1 DEF Executing, HoldOne, HoldTwo
  <2>2. UNCHANGED <<HoldOne, HoldTwo>>
    BY <1>1, <2>1, HoldersAfterGoto
  <2> QED BY <1>1, <2>2, QuietKeepsReaders
<1>2. ASSUME NEW t \in Executors, NEW c \in Collectors, Execute(t, c)
      PROVE  DegradationInv'
  <2>1. mu' = [writer |-> {t}, readers |-> mu.readers]
    BY <1>2, MutexFacts DEF Execute
  <2>2. DegradationTypes'
    BY <1>0, <1>2, <2>1 DEF Execute, DegradationTypes, Goto, Labels
  <2>3. \A u \in Threads : ExecutesKnown(u)'
    BY <1>0, <1>2 DEF Execute, DegradationTypes, Goto, ExecutesKnown, Executing, Publishing
  <2>4. ReadersCounted' /\ HeldByLoops'
    BY <1>0, <1>1, <1>2, <2>1 DEF Execute, Executing
  <2>5. CountsDecide'
    BY <1>2 DEF Execute, CountsDecide
  <2> QED BY <2>2, <2>3, <2>4, <2>5
<1>3. ASSUME NEW t \in Executors, GetCircuitBreaker(t)
      PROVE  DegradationInv'
  <2>1. mu' = [writer |-> {}, readers |-> mu.readers]
    BY <1>3, MutexFacts DEF GetCircuitBreaker
  <2>2. arg[t] \in Collectors
    BY <1>0, <1>3 DEF GetCircuitBreaker, ExecutesKnown, Executing
  <2>3. DegradationTypes'
    BY <1>0, <1>3, <2>1, <2>2 DEF GetCircuitBreaker, DegradationTypes, Goto, Labels
  <2>4. \A u \in Threads : ExecutesKnown(u)'
    BY <1>0, <1>3
       DEF GetCircuitBreaker, DegradationTypes, Goto, ExecutesKnown, Executing, Publishing
  <2>5. ReadersCounted' /\ HeldByLoops'
    BY <1>0, <1>1, <1>3, <2>1 DEF GetCircuitBreaker, Executing
  <2>6. CountsDecide'
    BY <1>3 DEF GetCircuitBreaker, CountsDecide
  <2> QED BY <2>3, <2>4, <2>5, <2>6
<1>4. ASSUME NEW t \in Executors, CallBegins(t)
      PROVE  DegradationInv'
  <2>1. arg[t] \in Collectors
    BY <1>0, <1>4 DEF CallBegins, ExecutesKnown, Executing
  <2>2. /\ Admit(breakers[arg[t]]) \in Breaker
        /\ Admit(breakers[arg[t]]).failures = breakers[arg[t]].failures
        /\ Admit(breakers[arg[t]]).state = "closed" <=> breakers[arg[t]].state = "closed"
    BY <2>1, AdmitFacts DEF DegradationTypes
  <2>3. DegradationTypes' /\ CountsDecide'
    BY <1>0, <1>4, <2>1, <2>2
       DEF CallBegins, DegradationTypes, Goto, Labels, Results, CountsDecide
  <2>4. \A u \in Threads : ExecutesKnown(u)'
    BY <1>0, <1>4
       DEF CallBegins, DegradationTypes, Goto, ExecutesKnown, Executing, Publishing
  <2>5. /\ pc[t] = "call" /\ mu' = mu
        /\ Goto(t, "collect") \/ Goto(t, "observe")
    BY <1>4 DEF CallBegins
  <2>6. ReadersCounted' /\ HeldByLoops'
    BY <1>0, <1>1, <2>5 DEF Executing
  <2> QED BY <2>3, <2>4, <2>6
<1>5. ASSUME NEW t \in Executors, CallReturns(t)
      PROVE  DegradationInv'
  <2>1. arg[t] \in Collectors /\ breakers[arg[t]] \in Breaker
    BY <1>0, <1>5 DEF CallReturns, ExecutesKnown, Executing, DegradationTypes
  <2>2. breakers[arg[t]].state = "closed" <=> breakers[arg[t]].failures < MaxFailures
    BY <2>1 DEF CountsDecide
  <2>3. \A b \in {OnSuccess(breakers[arg[t]]), OnFailure(breakers[arg[t]])} :
          b \in Breaker /\ (b.state = "closed" <=> b.failures < MaxFailures)
    BY <2>1, <2>2, FailureFacts, SuccessFacts
  <2>4. PICK b \in {OnSuccess(breakers[arg[t]]), OnFailure(breakers[arg[t]])} :
          breakers' = [breakers EXCEPT ![arg[t]] = b]
    BY <1>5 DEF CallReturns
  <2>5. PICK result \in {"ok", "empty", "error"} : seen' = [seen EXCEPT ![t] = result]
    BY <1>5 DEF CallReturns
  <2>6. breakers' \in [Collectors -> Breaker] /\ CountsDecide'
    BY <2>1, <2>3, <2>4 DEF DegradationTypes, CountsDecide
  <2>7. DegradationTypes'
    BY <1>0, <1>5, <2>5, <2>6 DEF CallReturns, DegradationTypes, Goto, Labels, Results
  <2>8. \A u \in Threads : ExecutesKnown(u)'
    BY <1>0, <1>5, <2>5
       DEF CallReturns, DegradationTypes, Goto, ExecutesKnown, Executing, Publishing
  <2>9. ReadersCounted' /\ HeldByLoops'
    BY <1>0, <1>1, <1>5 DEF CallReturns, Executing
  <2> QED BY <2>6, <2>7, <2>8, <2>9
<1>6. ASSUME NEW t \in Executors, ObserveState(t)
      PROVE  DegradationInv'
  <2>1. /\ arg[t] \in Collectors
        /\ seen[t] \in {"ok", "empty", "error", "rejected"}
        /\ breakers[arg[t]].state \in {"closed", "open", "halfOpen"}
    BY <1>0, <1>6 DEF ObserveState, ExecutesKnown, Executing, DegradationTypes, Breaker
  <2>2. PICK l \in Publishing : Goto(t, l)
    BY <1>6, <2>1 DEF ObserveState, Publishing
  <2>3. DegradationTypes' /\ CountsDecide'
    BY <1>0, <1>6, <2>1, <2>2
       DEF ObserveState, DegradationTypes, shared, Goto, Publishing, Labels, Results, CountsDecide
  <2>4. \A u \in Threads : ExecutesKnown(u)'
    BY <1>0, <1>6, <2>1, <2>2
       DEF ObserveState, DegradationTypes, Goto, ExecutesKnown, Executing, Publishing
  <2>5. ReadersCounted' /\ HeldByLoops'
    BY <1>0, <1>1, <1>6, <2>2 DEF ObserveState, shared, Executing, Publishing
  <2> QED BY <2>3, <2>4, <2>5
<1>7. ASSUME NEW t \in Executors, PublishState(t)
      PROVE  DegradationInv'
  <2>1. /\ pc[t] \in Publishing /\ arg[t] \in Collectors
        /\ seen[t] \in {"closed", "open", "halfOpen"}
    BY <1>0, <1>7 DEF PublishState, ExecutesKnown, Executing, Publishing
  <2>2. PICK l \in {"store", "serve", "serveRejected", "idle"} : Goto(t, l)
    BY <1>7 DEF PublishState, AfterPublish
  <2>3. DegradationTypes' /\ CountsDecide'
    BY <1>0, <1>7, <2>1, <2>2
       DEF PublishState, DegradationTypes, Goto, Labels, Results, CountsDecide
  <2>4. \A u \in Threads : ExecutesKnown(u)'
    BY <1>0, <1>7, <2>1, <2>2
       DEF PublishState, DegradationTypes, Goto, ExecutesKnown, Executing, Publishing
  <2>5. ReadersCounted' /\ HeldByLoops'
    BY <1>0, <1>1, <1>7, <2>1, <2>2 DEF PublishState, Executing, Publishing
  <2> QED BY <2>3, <2>4, <2>5
<1>8. ASSUME NEW t \in Executors, Store(t) \/ Serve(t) \/ getCachedMetrics(t)
      PROVE  DegradationInv'
  <2>1. /\ pc[t] \in {"store", "serve", "serveRejected", "lookup"}
        /\ arg[t] \in Collectors
        /\ UNCHANGED <<breakers, created, mu, stateGauge, modeGauge, arg, seen, todo, openCount>>
        /\ cached' \subseteq cached \cup {arg[t]}
    BY <1>0, <1>8 DEF Store, Serve, getCachedMetrics, shared, ExecutesKnown, Executing
  <2>2. PICK l \in {"lookup", "idle"} : Goto(t, l)
    BY <1>8 DEF Store, Serve, getCachedMetrics
  <2>3. DegradationTypes' /\ CountsDecide'
    BY <1>0, <2>1, <2>2 DEF DegradationTypes, Goto, Labels, CountsDecide
  <2>4. \A u \in Threads : ExecutesKnown(u)'
    BY <1>0, <2>1, <2>2 DEF DegradationTypes, Goto, ExecutesKnown, Executing, Publishing
  <2>5. ReadersCounted' /\ HeldByLoops'
    BY <1>0, <1>1, <2>1, <2>2 DEF Executing
  <2> QED BY <2>3, <2>4, <2>5
<1>9. ASSUME NEW t \in Updaters, UpdateDegradationMode(t)
      PROVE  DegradationInv'
  <2>1. mu' = [writer |-> mu.writer, readers |-> mu.readers + 1]
    BY <1>9, MutexFacts DEF UpdateDegradationMode
  <2>2. DegradationTypes' /\ CountsDecide'
    BY <1>0, <1>9, <2>1
       DEF UpdateDegradationMode, BeginCount, DegradationTypes, Goto, Labels, CountsDecide
  <2>3. \A u \in Threads : ExecutesKnown(u)'
    BY <1>0, <1>9
       DEF UpdateDegradationMode, BeginCount, DegradationTypes, Goto, ExecutesKnown,
           Executing, Publishing
  <2>4. HoldOne' = HoldOne \cup {t} /\ HoldTwo' = HoldTwo \ {t}
    BY <1>0, <1>9, HoldersAfterGoto DEF UpdateDegradationMode
  <2>5. ReadersCounted' /\ HeldByLoops'
    BY <1>9, <2>1, <2>4, FirstLockCounted DEF UpdateDegradationMode
  <2> QED BY <2>2, <2>3, <2>5
<1>10. ASSUME NEW t \in Resetters, ResetAllBreakers(t)
       PROVE  DegradationInv'
  <2>1. mu' = [writer |-> mu.writer, readers |-> mu.readers + 1]
    BY <1>10, MutexFacts DEF ResetAllBreakers
  <2>2. DegradationTypes' /\ CountsDecide'
    BY <1>0, <1>10, <2>1
       DEF ResetAllBreakers, DegradationTypes, Goto, Labels, CountsDecide
  <2>3. \A u \in Threads : ExecutesKnown(u)'
    BY <1>0, <1>10
       DEF ResetAllBreakers, DegradationTypes, Goto, ExecutesKnown, Executing, Publishing
  <2>4. HoldOne' = HoldOne \cup {t} /\ HoldTwo' = HoldTwo \ {t}
    BY <1>0, <1>10, HoldersAfterGoto DEF ResetAllBreakers
  <2>5. ReadersCounted' /\ HeldByLoops'
    BY <1>10, <2>1, <2>4, FirstLockCounted DEF ResetAllBreakers
  <2> QED BY <2>2, <2>3, <2>5
<1>11. ASSUME NEW t \in Resetters, SecondRLock(t)
       PROVE  DegradationInv'
  <2>1. mu' = [writer |-> mu.writer, readers |-> mu.readers + 1]
    BY <1>11, MutexFacts DEF SecondRLock
  <2>2. DegradationTypes' /\ CountsDecide'
    BY <1>0, <1>11, <2>1
       DEF SecondRLock, BeginCount, DegradationTypes, Goto, Labels, CountsDecide
  <2>3. \A u \in Threads : ExecutesKnown(u)'
    BY <1>0, <1>11
       DEF SecondRLock, BeginCount, DegradationTypes, Goto, ExecutesKnown, Executing, Publishing
  <2>4. HoldOne' = HoldOne \ {t} /\ HoldTwo' = HoldTwo \cup {t}
    BY <1>0, <1>11, HoldersAfterGoto DEF SecondRLock
  <2>5. ReadersCounted' /\ HeldByLoops'
    BY <1>11, <2>1, <2>4, SecondLockCounted DEF SecondRLock
  <2> QED BY <2>2, <2>3, <2>5
<1>12. ASSUME NEW t \in Threads, CountBreaker(t)
       PROVE  DegradationInv'
  <2>1. UNCHANGED <<shared, pc, arg, seen>>
    BY <1>12 DEF CountBreaker
  <2>2. DegradationTypes' /\ CountsDecide'
    BY <1>12, <2>1 DEF CountBreaker, shared, DegradationTypes, CountsDecide
  <2>3. \A u \in Threads : ExecutesKnown(u)'
    BY <2>1 DEF ExecutesKnown
  <2>4. ReadersCounted' /\ HeldByLoops'
    BY <2>1, QuietKeepsReaders DEF shared, HoldOne, HoldTwo
  <2> QED BY <2>2, <2>3, <2>4
<1>13. ASSUME NEW t \in Resetters, ResetBreaker(t)
       PROVE  DegradationInv'
  <2>1. UNCHANGED <<created, mu, cached, stateGauge, modeGauge, pc, arg, seen, openCount>>
    BY <1>13 DEF ResetBreaker
  <2>2. PICK c \in todo[t] : /\ breakers' = [breakers EXCEPT ![c] = Reset(@)]
                             /\ todo' = [todo EXCEPT ![t] = @ \ {c}]
    BY <1>13 DEF ResetBreaker
  <2>3. c \in Collectors /\ breakers[c] \in Breaker
    BY <1>0, <2>2 DEF DegradationTypes
  <2>4. /\ Reset(breakers[c]) \in Breaker
        /\ Reset(breakers[c]).state = "closed" /\ Reset(breakers[c]).failures < MaxFailures
    BY <2>3, ResetFacts
  <2>5. DegradationTypes' /\ CountsDecide'
    BY <1>0, <2>1, <2>2, <2>3, <2>4 DEF DegradationTypes, CountsDecide
  <2>6. \A u \in Threads : ExecutesKnown(u)'
    BY <2>1 DEF ExecutesKnown
  <2>7. ReadersCounted' /\ HeldByLoops'
    BY <2>1, QuietKeepsReaders DEF HoldOne, HoldTwo
  <2> QED BY <2>5, <2>6, <2>7
<1>14. ASSUME NEW t \in Threads, SetMode(t)
       PROVE  DegradationInv'
  <2>1. mu' = [writer |-> mu.writer,
               readers |-> IF pc[t] = "recount" THEN mu.readers - 1 - 1 ELSE mu.readers - 1]
    BY <1>14, MutexFacts DEF SetMode
  <2>2. HoldOne' = HoldOne \ {t} /\ HoldTwo' = HoldTwo \ {t}
    BY <1>14, HoldersAfterGoto DEF SetMode
  <2>3. ReadersCounted' /\ HeldByLoops' /\ mu'.readers \in Nat
    BY <1>14, <2>1, <2>2, LocksReturned DEF SetMode
  <2>4. mu' \in [writer : {{}} \cup {{u} : u \in Executors}, readers : Nat]
    BY <2>1, <2>3 DEF DegradationTypes
  <2>5. modeGauge' \in {"normal", "partial", "unavailable"}
    BY <1>14 DEF SetMode, ModeOf
  <2>6. DegradationTypes' /\ CountsDecide'
    BY <1>14, <2>4, <2>5 DEF SetMode, DegradationTypes, Goto, Labels, CountsDecide
  <2>7. \A u \in Threads : ExecutesKnown(u)'
    BY <1>14 DEF SetMode, DegradationTypes, Goto, ExecutesKnown, Executing, Publishing
  <2> QED BY <2>3, <2>6, <2>7
<1>15. CASE TimePasses
  <2>1. UNCHANGED <<created, mu, cached, stateGauge, modeGauge, local>>
    BY <1>15 DEF TimePasses
  <2>2. \A c \in Collectors :
          /\ Later(breakers[c]) \in Breaker
          /\ Later(breakers[c]).state = "closed" <=> Later(breakers[c]).failures < MaxFailures
    BY LaterFacts DEF DegradationTypes, CountsDecide
  <2>3. breakers' \in [Collectors -> Breaker] /\ CountsDecide'
    BY <1>15, <2>2 DEF TimePasses, CountsDecide
  <2>4. DegradationTypes'
    BY <2>1, <2>3 DEF DegradationTypes, local
  <2>5. \A u \in Threads : ExecutesKnown(u)'
    BY <2>1 DEF ExecutesKnown, local
  <2>6. ReadersCounted' /\ HeldByLoops'
    BY <2>1, QuietKeepsReaders DEF HoldOne, HoldTwo, local
  <2> QED BY <2>3, <2>4, <2>5, <2>6
<1>16. CASE CacheExpires
  <2>1. /\ UNCHANGED <<breakers, created, mu, stateGauge, modeGauge, local>>
        /\ cached' \subseteq cached
    BY <1>16 DEF CacheExpires
  <2>2. DegradationTypes' /\ CountsDecide'
    BY <2>1 DEF DegradationTypes, local, CountsDecide
  <2>3. \A u \in Threads : ExecutesKnown(u)'
    BY <2>1 DEF ExecutesKnown, local
  <2>4. ReadersCounted' /\ HeldByLoops'
    BY <2>1, QuietKeepsReaders DEF HoldOne, HoldTwo, local
  <2> QED BY <2>2, <2>3, <2>4
<1>17. ASSUME NEW t \in Executors, ExecuteStep(t) PROVE DegradationInv'
  BY <1>3, <1>4, <1>5, <1>6, <1>7, <1>8, <1>17 DEF ExecuteStep
<1>18. ASSUME NEW t \in Threads, CountStep(t) PROVE DegradationInv'
  BY <1>12, <1>14, <1>18 DEF CountStep
<1>19. ASSUME NEW t \in Resetters, ResetStep(t) PROVE DegradationInv'
  BY <1>11, <1>13, <1>19 DEF ResetStep
<1> QED
  BY <1>0, <1>2, <1>9, <1>10, <1>15, <1>16, <1>17, <1>18, <1>19 DEF DegradationNext

LEMMA DegradationInvariance == DegradationSpec => []DegradationInv
<1>1. DegradationInv /\ UNCHANGED degradationVars => DegradationInv'
  BY DEF DegradationInv, DegradationTypes, CountsDecide, ExecutesKnown, HeldByLoops, ReadersCounted,
         HoldOne, HoldTwo, degradationVars, shared, local
<1> QED BY <1>1, InitDegradationInv, NextDegradationInv, PTL DEF DegradationSpec

\* The variables of the degradation manager keep their types, and no more
\* read locks of dm.mu are held than its loops account for, for any finite
\* set of goroutines.
THEOREM DegradationTypeCorrect == DegradationSpec => []DegradationTypeOK
<1>1. DegradationInv => DegradationTypeOK
  <2> SUFFICES ASSUME DegradationInv PROVE DegradationTypeOK
    OBVIOUS
  <2> USE DEF DegradationInv
  <2>1. IsFiniteSet(Updaters) /\ IsFiniteSet(Resetters)
    BY ManagerAssumption, FS_Subset DEF Threads
  <2>2. /\ IsFiniteSet(Updaters \cup Resetters)
        /\ Cardinality(Updaters) \in Nat /\ Cardinality(Resetters) \in Nat
    BY <2>1, FS_Union, FS_CardinalityType
  <2>3. Cardinality(HoldOne \cup HoldTwo) <= Cardinality(Updaters) + Cardinality(Resetters)
    <3>1. HoldOne \cup HoldTwo \subseteq Updaters \cup Resetters
      BY DEF HeldByLoops
    <3>2. Cardinality(HoldOne \cup HoldTwo) <= Cardinality(Updaters \cup Resetters)
      BY <2>2, <3>1, FS_Subset
    <3>3. /\ Cardinality(Updaters \cup Resetters)
               = Cardinality(Updaters) + Cardinality(Resetters)
                   - Cardinality(Updaters \cap Resetters)
          /\ Cardinality(Updaters \cap Resetters) \in Nat
          /\ Cardinality(Updaters \cup Resetters) \in Nat
          /\ Cardinality(HoldOne \cup HoldTwo) \in Nat
      BY <2>1, <2>2, <3>1, FS_Union, FS_Subset, FS_CardinalityType, FS_Intersection
    <3> QED BY <2>2, <3>2, <3>3
  <2>4. /\ Cardinality(HoldOne \cup HoldTwo) = Cardinality(HoldOne) + Cardinality(HoldTwo)
        /\ Cardinality(HoldOne) \in Nat /\ Cardinality(HoldTwo) \in Nat
    <3>1. HoldOne \cap HoldTwo = {}
      BY DEF HoldOne, HoldTwo
    <3>2. IsFiniteSet(HoldOne) /\ IsFiniteSet(HoldTwo)
      BY DEF ReadersCounted
    <3>3. Cardinality(HoldOne \cup HoldTwo)
            = Cardinality(HoldOne) + Cardinality(HoldTwo) - Cardinality(HoldOne \cap HoldTwo)
      BY <3>2, FS_Union
    <3>4. Cardinality(HoldOne) \in Nat /\ Cardinality(HoldTwo) \in Nat
      BY <3>2, FS_CardinalityType
    <3> QED BY <3>1, <3>3, <3>4, FS_EmptySet
  <2>5. Cardinality(HoldTwo) <= Cardinality(Resetters)
    BY <2>1, FS_Subset DEF HeldByLoops
  <2>6. mu.readers \in 0 .. Cardinality(Updaters) + 2 * Cardinality(Resetters)
    <3>1. mu.readers = Cardinality(HoldOne) + 2 * Cardinality(HoldTwo)
      BY DEF ReadersCounted
    <3> QED BY <2>2, <2>3, <2>4, <2>5, <3>1
  <2> QED BY <2>6 DEF DegradationTypes, DegradationTypeOK
<1> QED BY <1>1, DegradationInvariance, PTL

\* Each collector's breaker of the manager is closed exactly while fewer than
\* MaxFailures failures are counted in it, whatever collections, rejections
\* and resets overlap on it.
THEOREM ManagedBreakersCount == DegradationSpec => []CountsDecide
<1>1. DegradationInv => CountsDecide
  BY DEF DegradationInv
<1> QED BY <1>1, DegradationInvariance, PTL

\* GetCircuitBreaker adds to dm.breakers only while nobody iterates over it:
\* a loop holds at least one of the read locks that mu counts, and the writer
\* gets in when the count is zero.
THEOREM WalksAreStable == DegradationSpec => WalkIsStable
<1> DEFINE Walked == \E t \in Threads : Walking(t)
<1>1. ASSUME DegradationInv, Walked PROVE mu.readers # 0
  <2>1. IsFiniteSet(HoldOne) /\ IsFiniteSet(HoldTwo)
    BY <1>1 DEF DegradationInv, ReadersCounted
  <2>2. HoldOne # {} \/ HoldTwo # {}
    BY <1>1 DEF Walking, HoldOne, HoldTwo
  <2>3. /\ Cardinality(HoldOne) \in Nat /\ Cardinality(HoldTwo) \in Nat
        /\ Cardinality(HoldOne) # 0 \/ Cardinality(HoldTwo) # 0
    BY <2>1, <2>2, FS_EmptySet, FS_CardinalityType
  <2>4. mu.readers = Cardinality(HoldOne) + 2 * Cardinality(HoldTwo)
    BY <1>1 DEF DegradationInv, ReadersCounted
  <2> QED BY <2>3, <2>4
<1>2. ASSUME DegradationNext, mu.readers # 0 PROVE created' = created
  BY <1>2
     DEF DegradationNext, ExecuteStep, CountStep, ResetStep, Execute, GetCircuitBreaker, HoldsLock,
         CallBegins, CallReturns, ObserveState, PublishState, Store, Serve, getCachedMetrics,
         UpdateDegradationMode, BeginCount, CountBreaker, SetMode, ResetAllBreakers,
         ResetBreaker, SecondRLock, TimePasses, CacheExpires, shared
<1>3. DegradationInv /\ [DegradationNext]_degradationVars
        => [Walked => created' = created]_degradationVars
  BY <1>1, <1>2
<1> QED BY <1>3, DegradationInvariance, PTL DEF DegradationSpec, WalkIsStable
=============================================================================
