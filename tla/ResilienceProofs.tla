--------------------------- MODULE ResilienceProofs ---------------------------
(***************************************************************************)
(* The safety invariants of ResilienceManager, of ResilienceCalls and of   *)
(* CacheStore, for every set of goroutines and keys and every              *)
(* configuration. The invariant of the manager says where a breaker can    *)
(* be: the map holds distinct breakers that were made, and whoever holds   *)
(* or has copied a breaker got it from the map, which never drops or       *)
(* replaces an entry. That of a breaker adds to its properties that the    *)
(* requests admitted in a half-open period are counted. That of the store  *)
(* is inductive as it stands; it rests on what the operators on its access *)
(* order return.                                                           *)
(***************************************************************************)
EXTENDS ResilienceCalls, ResilienceManager, CacheStore, FiniteSetTheorems, TLAPS

(* ResilienceManager                                                       *)

InMap(b) == \E n \in Names : breakers[n] = b

\* Every breaker in use is the one of the map.
Traced ==
  /\ \A u \in Users : pc[u] = "holds" => got[u] = breakers[name[u]] /\ got[u] \in Nat
  /\ \A b \in failing : InMap(b)

Bounded == \A n \in Names : breakers[n] \in Nat => breakers[n] < made

ManagerInv == ManagerTypeOK /\ Bounded /\ Traced

LEMMA ManagerInitInv == ManagerInit => ManagerInv
<1> SUFFICES ASSUME ManagerInit PROVE ManagerInv
  OBVIOUS
<1>1. ManagerTypeOK
  BY DEF ManagerInit, ManagerTypeOK
<1>2. Bounded
  BY ManagerAssumption DEF ManagerInit, Bounded
<1>3. Traced
  BY DEF ManagerInit, Traced
<1> QED BY <1>1, <1>2, <1>3 DEF ManagerInv

LEMMA LookupInv ==
  ASSUME ManagerInv, NEW u \in Users, NEW n \in Names, Lookup(u, n)
  PROVE  ManagerInv'
<1> USE DEF ManagerInv
<1>1. ManagerTypeOK'
  BY DEF ManagerTypeOK, Lookup
<1>2. Bounded'
  BY DEF Bounded, Lookup
<1>3. Traced'
  <2>1. ASSUME NEW v \in Users, pc'[v] = "holds"
        PROVE  got'[v] = breakers'[name'[v]] /\ got'[v] \in Nat
    <3>1. CASE v = u
      BY <2>1, <3>1 DEF ManagerTypeOK, Lookup, Known
    <3>2. CASE v # u
      BY <2>1, <3>2 DEF ManagerTypeOK, Lookup, Traced
    <3> QED BY <3>1, <3>2
  <2>2. \A b \in failing' : InMap(b)'
    BY DEF Lookup, Traced, InMap
  <2> QED BY <2>1, <2>2 DEF Traced
<1> QED BY <1>1, <1>2, <1>3

LEMMA CreateInv ==
  ASSUME ManagerInv, NEW u \in Users, Create(u)
  PROVE  ManagerInv'
<1> USE DEF ManagerInv
<1>1. CASE name[u] \in Known
  <2>0. breakers[name[u]] \in Nat
    BY <1>1 DEF ManagerTypeOK, Known
  <2>1. /\ UNCHANGED <<breakers, made, failing, name, snapshot>>
        /\ got' = [got EXCEPT ![u] = breakers[name[u]]]
        /\ pc' = [pc EXCEPT ![u] = "holds"]
    BY <1>1 DEF Create
  <2>2. ManagerTypeOK'
    BY <2>0, <2>1 DEF ManagerTypeOK
  <2>3. Bounded' /\ Traced'
    BY <2>0, <2>1 DEF ManagerTypeOK, Bounded, Traced, InMap
  <2> QED BY <2>2, <2>3
<1>2. CASE name[u] \notin Known
  <2>1. /\ breakers' = [breakers EXCEPT ![name[u]] = made]
        /\ made' = made + 1
        /\ got' = [got EXCEPT ![u] = made]
        /\ pc' = [pc EXCEPT ![u] = "holds"]
        /\ UNCHANGED <<failing, name, snapshot>>
    BY <1>2 DEF Create
  <2>2. name[u] \in Names /\ breakers[name[u]] = NoBreaker /\ made \in Nat
    BY <1>2 DEF ManagerTypeOK, Known
  <2>3. ManagerTypeOK'
    BY <2>1, <2>2 DEF ManagerTypeOK
  <2>4. Bounded'
    BY <2>1, <2>2 DEF Bounded, ManagerTypeOK
  <2>5. ASSUME NEW v \in Users, pc'[v] = "holds"
        PROVE  got'[v] = breakers'[name'[v]] /\ got'[v] \in Nat
    <3>1. CASE v = u
      BY <2>1, <2>2, <3>1 DEF ManagerTypeOK
    <3>2. CASE v # u
      <4>1. got[v] = breakers[name[v]] /\ got[v] \in Nat /\ pc[v] = "holds"
        BY <2>1, <2>5, <3>2 DEF ManagerTypeOK, Traced
      <4>2. name[v] # name[u]
        BY <2>2, <4>1, ManagerAssumption
      <4> QED BY <2>1, <3>2, <4>1, <4>2 DEF ManagerTypeOK
    <3> QED BY <3>1, <3>2
  <2>6. ASSUME NEW b \in failing' PROVE InMap(b)'
    <3>1. PICK n \in Names : breakers[n] = b
      BY <2>1, <2>6 DEF Traced, InMap
    <3>2. b \in Nat
      BY <2>1, <2>6 DEF ManagerTypeOK
    <3>3. n # name[u]
      BY <2>2, <3>1, <3>2, ManagerAssumption
    <3>4. breakers'[n] = b
      BY <2>1, <3>1, <3>3 DEF ManagerTypeOK
    <3> QED BY <3>4 DEF InMap
  <2> QED BY <2>3, <2>4, <2>5, <2>6 DEF Traced
<1> QED BY <1>1, <1>2

LEMMA UseInv ==
  ASSUME ManagerInv, NEW u \in Users, Use(u)
  PROVE  ManagerInv'
<1> USE DEF ManagerInv
<1>0. got[u] = breakers[name[u]] /\ got[u] \in Nat /\ name[u] \in Names
  BY DEF Use, Traced, ManagerTypeOK
<1>1. got[u] < made
  BY <1>0 DEF Bounded
<1>2. failing' \subseteq failing \cup {got[u]}
  BY DEF Use
<1>3. UNCHANGED <<breakers, made, name, snapshot>>
  BY DEF Use
<1>4. ManagerTypeOK'
  BY <1>0, <1>1, <1>2, <1>3 DEF ManagerTypeOK, Use
<1>5. Bounded' /\ Traced'
  BY <1>0, <1>2, <1>3 DEF ManagerTypeOK, Bounded, Traced, InMap, Use
<1> QED BY <1>4, <1>5

LEMMA ResetInv ==
  ASSUME ManagerInv, NEW r \in Resetters, ResetAll(r) \/ ResetOne(r) \/ ResetDone(r)
  PROVE  ManagerInv'
<1> USE DEF ManagerInv
<1>1. /\ UNCHANGED <<breakers, made, name, got>>
      /\ failing' \subseteq failing
      /\ \A u \in Users : pc'[u] = "holds" => pc[u] = "holds"
  BY DEF ResetAll, ResetOne, ResetDone, ManagerTypeOK
<1>2. pc' \in [Users \cup Resetters -> {"idle", "create", "holds", "reset"}]
  BY DEF ResetAll, ResetOne, ResetDone, ManagerTypeOK
<1>3. ASSUME NEW s \in Resetters, NEW b \in snapshot'[s]
      PROVE  b \in Nat /\ b < made
  <2>1. CASE ResetAll(r)
    <3>1. CASE s = r /\ snapshot'[s] = {breakers[n] : n \in Known}
      BY <1>3, <3>1 DEF Known, Bounded, ManagerTypeOK
    <3>2. CASE b \in snapshot[s]
      BY <3>2 DEF ManagerTypeOK
    <3> QED BY <1>3, <2>1, <3>1, <3>2 DEF ResetAll, ManagerTypeOK
  <2>2. CASE ResetOne(r)
    <3>1. b \in snapshot[s]
      BY <1>3, <2>2 DEF ResetOne
    <3> QED BY <3>1 DEF ManagerTypeOK
  <2>3. CASE ResetDone(r)
    BY <1>3, <2>3 DEF ResetDone, ManagerTypeOK
  <2> QED BY <2>1, <2>2, <2>3
<1>4. ManagerTypeOK'
  BY <1>1, <1>2, <1>3 DEF ManagerTypeOK
<1>5. Bounded' /\ Traced'
  BY <1>1 DEF Bounded, Traced, InMap
<1> QED BY <1>4, <1>5

LEMMA ManagerNextInv == ManagerInv /\ [ManagerNext]_managerVars => ManagerInv'
<1> SUFFICES ASSUME ManagerInv, [ManagerNext]_managerVars PROVE ManagerInv'
  OBVIOUS
<1>1. ASSUME NEW u \in Users, NEW n \in Names, Lookup(u, n) PROVE ManagerInv'
  BY <1>1, LookupInv
<1>2. ASSUME NEW u \in Users, Create(u) PROVE ManagerInv'
  BY <1>2, CreateInv
<1>3. ASSUME NEW u \in Users, Use(u) PROVE ManagerInv'
  BY <1>3, UseInv
<1>4. ASSUME NEW r \in Resetters, ResetAll(r) \/ ResetOne(r) \/ ResetDone(r) PROVE ManagerInv'
  BY <1>4, ResetInv
<1>5. CASE UNCHANGED managerVars
  BY <1>5 DEF managerVars, ManagerInv, ManagerTypeOK, Bounded, Traced, InMap
<1> QED BY <1>1, <1>2, <1>3, <1>4, <1>5 DEF ManagerNext

LEMMA ManagerInvariance == ManagerSpec => []ManagerInv
  BY ManagerInitInv, ManagerNextInv, PTL DEF ManagerSpec

\* The variables keep their types for any users, resetters and names.
THEOREM ManagerTypeCorrect == ManagerSpec => []ManagerTypeOK
<1>1. ManagerInv => ManagerTypeOK
  BY DEF ManagerInv
<1> QED BY <1>1, ManagerInvariance, PTL

\* GetOrCreate never hands out a breaker that the map does not hold, however
\* many goroutines create at once (circuit_breaker.go:316-337).
THEOREM NoStray == ManagerSpec => []NoStrayBreaker
<1>1. ManagerInv => NoStrayBreaker
  <2> SUFFICES ASSUME ManagerInv PROVE NoStrayBreaker
    OBVIOUS
  <2>1. \A u \in Users : pc[u] = "holds" => got[u] = breakers[name[u]]
    BY DEF ManagerInv, Traced
  <2>2. ASSUME NEW b \in failing PROVE \E n \in Known : breakers[n] = b
    <3>1. PICK n \in Names : breakers[n] = b
      BY <2>2 DEF ManagerInv, Traced, InMap
    <3>2. b # NoBreaker
      BY <2>2, ManagerAssumption DEF ManagerInv, ManagerTypeOK
    <3> QED BY <3>1, <3>2 DEF Known
  <2> QED BY <2>1, <2>2 DEF NoStrayBreaker
<1> QED BY <1>1, ManagerInvariance, PTL

-----------------------------------------------------------------------------
(* CacheStore: the access order                                            *)

LEMMA FirstRemoved ==
  ASSUME NEW S, NEW s \in Seq(S), IsInjective(s), NEW i \in DOMAIN s
  PROVE  RemoveFirst(s, s[i]) = RemoveAt(s, i)
<1>1. i \in 1 .. Len(s) /\ Len(s) \in Nat
  OBVIOUS
<1>2. {n \in 1 .. Len(s) : s[n] = s[i]} = {i}
  BY <1>1 DEF IsInjective
<1>3. Min({i}) = i
  BY <1>1 DEF Min
<1> QED BY <1>1, <1>2, <1>3 DEF RemoveFirst, SelectInSeq

LEMMA NoneRemoved ==
  ASSUME NEW S, NEW s \in Seq(S), NEW e, e \notin ToSet(s)
  PROVE  RemoveFirst(s, e) = s
<1>1. ~ \E i \in 1 .. Len(s) : s[i] = e
  BY DEF ToSet
<1> QED BY <1>1 DEF RemoveFirst

LEMMA RemovedAt ==
  ASSUME NEW S, NEW s \in Seq(S), NEW i \in DOMAIN s
  PROVE  /\ RemoveAt(s, i) \in Seq(S)
         /\ Len(RemoveAt(s, i)) = Len(s) - 1
         /\ \A n \in 1 .. Len(s) - 1 :
              RemoveAt(s, i)[n] = IF n < i THEN s[n] ELSE s[n + 1]
<1>1. i \in 1 .. Len(s) /\ Len(s) \in Nat
  OBVIOUS
<1> DEFINE a == SubSeq(s, 1, i - 1)
           b == SubSeq(s, i + 1, Len(s))
<1>2. /\ a \in Seq(S) /\ Len(a) = i - 1
      /\ \A n \in 1 .. i - 1 : a[n] = s[n]
  BY <1>1
<1>3. /\ b \in Seq(S) /\ Len(b) = Len(s) - i
      /\ \A n \in 1 .. Len(s) - i : b[n] = s[n + i]
  BY <1>1
<1>4. RemoveAt(s, i) = a \o b
  BY DEF RemoveAt
<1> HIDE DEF a, b
<1> QED BY <1>1, <1>2, <1>3, <1>4

LEMMA RemoveFirstFacts ==
  ASSUME NEW S, NEW s \in Seq(S), IsInjective(s), NEW e
  PROVE  /\ RemoveFirst(s, e) \in Seq(S)
         /\ IsInjective(RemoveFirst(s, e))
         /\ ToSet(RemoveFirst(s, e)) = ToSet(s) \ {e}
         /\ s # <<>> /\ Last(s) # e =>
              RemoveFirst(s, e) # <<>> /\ Last(RemoveFirst(s, e)) = Last(s)
<1>1. CASE e \notin ToSet(s)
  BY <1>1, NoneRemoved
<1>2. ASSUME NEW i \in DOMAIN s, e = s[i]
      PROVE  /\ RemoveFirst(s, e) \in Seq(S)
             /\ IsInjective(RemoveFirst(s, e))
             /\ ToSet(RemoveFirst(s, e)) = ToSet(s) \ {e}
             /\ s # <<>> /\ Last(s) # e =>
                  RemoveFirst(s, e) # <<>> /\ Last(RemoveFirst(s, e)) = Last(s)
  <2> DEFINE r == RemoveFirst(s, e)
  <2>1. /\ r \in Seq(S) /\ Len(r) = Len(s) - 1
        /\ \A n \in 1 .. Len(s) - 1 : r[n] = IF n < i THEN s[n] ELSE s[n + 1]
    BY <1>2, FirstRemoved, RemovedAt
  <2>2. i \in 1 .. Len(s) /\ Len(s) \in Nat
    OBVIOUS
  <2> HIDE DEF r
  <2>3. IsInjective(r)
    <3> SUFFICES ASSUME NEW m \in 1 .. Len(s) - 1, NEW n \in 1 .. Len(s) - 1, r[m] = r[n]
                 PROVE  m = n
      BY <2>1, <2>2 DEF IsInjective
    <3> DEFINE from(l) == IF l < i THEN l ELSE l + 1
    <3>1. /\ from(m) \in 1 .. Len(s) /\ from(n) \in 1 .. Len(s)
          /\ r[m] = s[from(m)] /\ r[n] = s[from(n)]
      BY <2>1, <2>2
    <3>2. \A a, b \in 1 .. Len(s) : s[a] = s[b] => a = b
      BY <2>2 DEF IsInjective
    <3>3. s[from(m)] = s[from(n)]
      BY <3>1
    <3> HIDE DEF from
    <3>4. from(m) = from(n)
      BY <3>1, <3>2, <3>3
    <3> QED BY <2>2, <3>4 DEF from
  <2>4. ASSUME NEW x \in ToSet(r) PROVE x \in ToSet(s) \ {e}
    BY <1>2, <2>1, <2>2, <2>4 DEF ToSet, IsInjective
  <2>5. ASSUME NEW x \in ToSet(s) \ {e} PROVE x \in ToSet(r)
    <3>1. PICK n \in 1 .. Len(s) : s[n] = x
      BY <2>5 DEF ToSet
    <3>2. CASE n < i
      BY <2>1, <2>2, <3>1, <3>2 DEF ToSet
    <3>3. CASE n > i
      <4>1. n - 1 \in 1 .. Len(r) /\ r[n - 1] = x
        BY <2>1, <2>2, <3>1, <3>3
      <4> QED BY <2>1, <4>1 DEF ToSet
    <3> QED BY <1>2, <2>2, <2>5, <3>1, <3>2, <3>3
  <2>6. ASSUME s # <<>>, Last(s) # e PROVE r # <<>> /\ Last(r) = Last(s)
    BY <1>2, <2>1, <2>2, <2>6 DEF Last
  <2> QED BY <2>1, <2>3, <2>4, <2>5, <2>6 DEF r
<1> QED BY <1>1, <1>2 DEF ToSet

LEMMA TouchedFacts ==
  ASSUME NEW s \in Seq(StoreKeys), IsInjective(s), NEW e \in StoreKeys
  PROVE  /\ Touched(s, e) \in Seq(StoreKeys)
         /\ IsInjective(Touched(s, e))
         /\ ToSet(Touched(s, e)) = ToSet(s) \cup {e}
         /\ Touched(s, e) # <<>> /\ Last(Touched(s, e)) = e
<1> DEFINE r == RemoveFirst(s, e)
<1>1. r \in Seq(StoreKeys) /\ IsInjective(r) /\ ToSet(r) = ToSet(s) \ {e}
  BY RemoveFirstFacts
<1>2. Touched(s, e) = Append(r, e)
  BY DEF Touched
<1> HIDE DEF r
<1>3. /\ Append(r, e) \in Seq(StoreKeys) /\ Len(Append(r, e)) = Len(r) + 1
      /\ \A n \in 1 .. Len(r) : Append(r, e)[n] = r[n]
      /\ Append(r, e)[Len(r) + 1] = e
  BY <1>1
<1>4. e \notin ToSet(r) /\ Len(r) \in Nat
  BY <1>1
<1>5. IsInjective(Append(r, e))
  BY <1>1, <1>3, <1>4 DEF IsInjective, ToSet
<1>6. ToSet(Append(r, e)) = ToSet(r) \cup {e}
  BY <1>1, <1>3, <1>4 DEF ToSet
<1> QED BY <1>1, <1>2, <1>3, <1>4, <1>5, <1>6 DEF Last

LEMMA TailFacts ==
  ASSUME NEW S, NEW s \in Seq(S), IsInjective(s), s # <<>>
  PROVE  /\ Tail(s) \in Seq(S)
         /\ IsInjective(Tail(s))
         /\ Head(s) \in ToSet(s)
         /\ ToSet(Tail(s)) = ToSet(s) \ {Head(s)}
<1>1. /\ Tail(s) \in Seq(S) /\ Len(Tail(s)) = Len(s) - 1 /\ Len(s) \in Nat
      /\ \A n \in 1 .. Len(s) - 1 : Tail(s)[n] = s[n + 1]
      /\ Head(s) = s[1] /\ Len(s) > 0
  OBVIOUS
<1>2. IsInjective(Tail(s))
  BY <1>1 DEF IsInjective
<1>3. Head(s) \in ToSet(s)
  BY <1>1 DEF ToSet
<1>4. ASSUME NEW x \in ToSet(Tail(s)) PROVE x \in ToSet(s) \ {Head(s)}
  BY <1>1, <1>4 DEF ToSet, IsInjective
<1>5. ASSUME NEW x \in ToSet(s) \ {Head(s)} PROVE x \in ToSet(Tail(s))
  <2>1. PICK n \in 1 .. Len(s) : s[n] = x
    BY <1>5 DEF ToSet
  <2>2. n - 1 \in DOMAIN Tail(s) /\ Tail(s)[n - 1] = x
    BY <1>1, <1>5, <2>1
  <2> QED BY <2>2 DEF ToSet
<1> QED BY <1>1, <1>2, <1>3, <1>4, <1>5

LEMMA RestsFacts ==
  ASSUME NEW S, NEW s \in Seq(S), IsInjective(s), NEW gone, NEW rest \in Rests(s, gone)
  PROVE  /\ rest \in Seq(S)
         /\ IsInjective(rest)
         /\ ToSet(rest) = ToSet(s) \ gone
         /\ s # <<>> /\ Last(s) \notin gone => rest # <<>> /\ Last(rest) = Last(s)
<1> DEFINE places == {i \in DOMAIN s : s[i] \notin gone}
           N == Cardinality(places)
<1>1. Len(s) \in Nat /\ DOMAIN s = 1 .. Len(s)
  OBVIOUS
<1>2. N \in Nat
  <2>1. IsFiniteSet(1 .. Len(s))
    BY <1>1, FS_Interval
  <2> QED BY <1>1, <2>1, FS_Subset, FS_CardinalityType
<1>3. PICK at \in Bijection(1 .. N, places) :
        /\ \A m, n \in 1 .. N : m < n => at[m] < at[n]
        /\ rest = [n \in 1 .. N |-> s[at[n]]]
  BY DEF Rests
<1>4. /\ at \in [1 .. N -> places]
      /\ \A m, n \in 1 .. N : at[m] = at[n] => m = n
      /\ \A i \in places : \E n \in 1 .. N : at[n] = i
  BY <1>3 DEF Bijection, Injection, Surjection, IsInjective
<1>5. \A n \in 1 .. N : at[n] \in 1 .. Len(s) /\ s[at[n]] \in S /\ s[at[n]] \notin gone
  BY <1>1, <1>4
<1> HIDE DEF N
<1>6. rest \in Seq(S) /\ Len(rest) = N /\ DOMAIN rest = 1 .. N
  BY <1>2, <1>3, <1>5
<1>7. IsInjective(rest)
  BY <1>1, <1>3, <1>4, <1>5, <1>6 DEF IsInjective
<1>8. ToSet(rest) = ToSet(s) \ gone
  <2>1. ASSUME NEW x \in ToSet(rest) PROVE x \in ToSet(s) \ gone
    BY <1>1, <1>3, <1>5, <1>6, <2>1 DEF ToSet
  <2>2. ASSUME NEW x \in ToSet(s) \ gone PROVE x \in ToSet(rest)
    <3>1. PICK i \in DOMAIN s : s[i] = x
      BY <2>2 DEF ToSet
    <3>2. PICK n \in 1 .. N : at[n] = i
      BY <1>4, <2>2, <3>1
    <3> QED BY <1>3, <1>6, <3>1, <3>2 DEF ToSet
  <2> QED BY <2>1, <2>2
<1>9. ASSUME s # <<>>, Last(s) \notin gone PROVE rest # <<>> /\ Last(rest) = Last(s)
  <2>1. Len(s) \in places
    BY <1>1, <1>9 DEF Last
  <2>2. PICK m \in 1 .. N : at[m] = Len(s)
    BY <1>4, <2>1
  <2>3. N \in 1 .. N /\ (m < N => at[m] < at[N]) /\ at[N] <= Len(s)
    BY <1>2, <1>3, <1>5, <2>2
  <2>4. m = N
    BY <1>1, <1>2, <1>5, <2>2, <2>3
  <2> QED BY <1>3, <1>6, <2>2, <2>3, <2>4 DEF Last
<1> QED BY <1>6, <1>7, <1>8, <1>9

-----------------------------------------------------------------------------
LEMMA StoredFinite ==
  ASSUME OrderIsRecency
  PROVE  IsFiniteSet(Stored) /\ Cardinality(Stored) \in Nat
<1>1. accessOrder \in Seq(StoreKeys) /\ ToSet(accessOrder) = Stored
  BY DEF OrderIsRecency, StoreTypeOK
<1>2. IsFiniteSet(1 .. Len(accessOrder))
  BY <1>1, FS_Interval
<1>3. accessOrder \in Surjection(1 .. Len(accessOrder), Stored)
  BY <1>1 DEF Surjection, ToSet
<1> QED BY <1>2, <1>3, FS_Surjection, FS_CardinalityType

LEMMA StoreInitInv == StoreInit => OrderIsRecency
<1> SUFFICES ASSUME StoreInit PROVE OrderIsRecency
  OBVIOUS
<1>1. StoreTypeOK
  BY DEF StoreInit, StoreTypeOK
<1>2. Stored = {} /\ ToSet(accessOrder) = {} /\ IsInjective(accessOrder)
  BY DEF StoreInit, Stored, ToSet, IsInjective
<1> QED BY <1>1, <1>2, FS_EmptySet, StoreAssumption DEF OrderIsRecency

\* A step that takes the entries of keys away, and takes the same keys out of
\* the order.
LEMMA TakenOut ==
  ASSUME OrderIsRecency, StoreTypeOK', UNCHANGED lastTouched, NEW gone,
         Stored' = Stored \ gone,
         IsInjective(accessOrder'), ToSet(accessOrder') = ToSet(accessOrder) \ gone,
         accessOrder # <<>> /\ Last(accessOrder) \notin gone =>
           accessOrder' # <<>> /\ Last(accessOrder') = Last(accessOrder)
  PROVE  OrderIsRecency'
<1>1. ToSet(accessOrder') = Stored'
  BY DEF OrderIsRecency
<1>2. Cardinality(Stored') <= MaxSize
  <2>1. IsFiniteSet(Stored) /\ Stored' \subseteq Stored
    BY StoredFinite
  <2>2. Cardinality(Stored') <= Cardinality(Stored) /\ Cardinality(Stored') \in Nat
    BY <2>1, FS_Subset, FS_CardinalityType
  <2> QED BY <2>2, StoredFinite, StoreAssumption DEF OrderIsRecency
<1>3. ASSUME lastTouched \cap Stored' # {} PROVE lastTouched = {Last(accessOrder')}
  <2>1. lastTouched = {Last(accessOrder)} /\ Last(accessOrder) \in Stored'
    BY <1>3 DEF OrderIsRecency
  <2>2. accessOrder # <<>>
    BY <2>1 DEF OrderIsRecency, ToSet
  <2> QED BY <2>1, <2>2
<1> QED BY <1>1, <1>2, <1>3 DEF OrderIsRecency

LEMMA StoreSetStep ==
  ASSUME OrderIsRecency, NEW k \in StoreKeys, StoreSet(k),
         missed' \in [Clients -> SUBSET StoreKeys]
  PROVE  OrderIsRecency'
<1> DEFINE full == Cardinality(Stored) >= MaxSize
           victims == IF full THEN {Head(accessOrder)} ELSE {}
           order == IF full THEN Tail(accessOrder) ELSE accessOrder
<1>1. /\ data' = [j \in StoreKeys |-> IF j = k THEN "fresh"
                             ELSE IF j \in victims THEN "absent" ELSE data[j]]
      /\ accessOrder' = Touched(order, k)
      /\ evictCount' = evictCount + Cardinality(victims)
      /\ lastTouched' = {k}
      /\ UNCHANGED evictions
  BY DEF StoreSet
<1>2. /\ accessOrder \in Seq(StoreKeys) /\ IsInjective(accessOrder)
      /\ ToSet(accessOrder) = Stored /\ Cardinality(Stored) <= MaxSize
      /\ data \in [StoreKeys -> {"absent", "fresh", "expired"}]
      /\ evictCount \in Nat /\ evictions \in Nat
  BY DEF OrderIsRecency, StoreTypeOK
<1>3. full => accessOrder # <<>>
  <2>1. ASSUME accessOrder = <<>> PROVE Cardinality(Stored) = 0
    <3>1. ToSet(accessOrder) = {}
      BY <2>1 DEF ToSet
    <3> QED BY <1>2, <3>1, FS_EmptySet
  <2> QED BY <2>1, StoreAssumption
<1>4. /\ order \in Seq(StoreKeys) /\ IsInjective(order)
      /\ ToSet(order) = Stored \ victims /\ victims \subseteq Stored
  BY <1>2, <1>3, TailFacts
<1>5. Stored' = (Stored \ victims) \cup {k}
  BY <1>1, <1>2 DEF Stored
<1>6. Cardinality(victims) = IF full THEN 1 ELSE 0
  BY FS_EmptySet, FS_Singleton
<1>7. Cardinality(Stored') <= MaxSize
  <2>1. IsFiniteSet(Stored) /\ Cardinality(Stored) \in Nat /\ MaxSize \in Nat \ {0}
    BY StoredFinite, StoreAssumption
  <2>2. /\ IsFiniteSet(Stored \ victims) /\ Cardinality(Stored \ victims) \in Nat
        /\ Cardinality(Stored \ victims) < MaxSize
    <3>1. CASE full
      <4>1. victims = {Head(accessOrder)} /\ Head(accessOrder) \in Stored
        BY <1>4, <3>1
      <4>2. /\ IsFiniteSet(Stored \ {Head(accessOrder)})
            /\ Cardinality(Stored \ {Head(accessOrder)}) = Cardinality(Stored) - 1
        BY <2>1, <4>1, FS_RemoveElement
      <4> HIDE DEF victims
      <4> QED BY <1>2, <2>1, <4>1, <4>2, FS_CardinalityType
    <3>2. CASE ~full
      BY <2>1, <3>2
    <3> QED BY <3>1, <3>2
  <2> DEFINE kept == Stored \ victims
  <2>3. Stored' = kept \cup {k} /\ IsFiniteSet(kept) /\ Cardinality(kept) \in Nat /\ Cardinality(kept) < MaxSize
    BY <1>5, <2>2
  <2> HIDE DEF kept
  <2>4. Cardinality(kept \cup {k}) \in {Cardinality(kept), Cardinality(kept) + 1}
    BY <2>3, FS_AddElement
  <2> QED BY <2>1, <2>3, <2>4
<1> HIDE DEF order, victims
<1>8. /\ accessOrder' \in Seq(StoreKeys) /\ IsInjective(accessOrder')
      /\ ToSet(accessOrder') = ToSet(order) \cup {k} /\ Last(accessOrder') = k
  <2>1. /\ Touched(order, k) \in Seq(StoreKeys) /\ IsInjective(Touched(order, k))
        /\ ToSet(Touched(order, k)) = ToSet(order) \cup {k}
        /\ Last(Touched(order, k)) = k
    BY <1>4, TouchedFacts
  <2> QED BY <1>1, <2>1
<1>9. StoreTypeOK'
  <2>1. Cardinality(victims) \in Nat
    BY <1>6
  <2> QED BY <1>1, <1>2, <1>8, <2>1 DEF StoreTypeOK
<1> QED BY <1>1, <1>4, <1>5, <1>7, <1>8, <1>9 DEF OrderIsRecency

LEMMA StoreStepInv == OrderIsRecency /\ [StoreNext]_storeVars => OrderIsRecency'
<1> SUFFICES ASSUME OrderIsRecency, [StoreNext]_storeVars PROVE OrderIsRecency'
  OBVIOUS
<1>0. /\ accessOrder \in Seq(StoreKeys) /\ IsInjective(accessOrder)
      /\ ToSet(accessOrder) = Stored /\ StoreTypeOK
  BY DEF OrderIsRecency, StoreTypeOK
<1>1. ASSUME NEW c \in Clients, NEW k \in StoreKeys, FindMiss(c, k) PROVE OrderIsRecency'
  <2>1. /\ data' = [data EXCEPT ![k] = "absent"]
        /\ accessOrder' = RemoveFirst(accessOrder, k) /\ UNCHANGED lastTouched
    BY <1>1 DEF FindMiss
  <2>2. StoreTypeOK'
    BY <1>0, <1>1, <2>1, RemoveFirstFacts DEF FindMiss, StoreTypeOK, countVars
  <2>3. Stored' = Stored \ {k}
    BY <1>0, <2>1 DEF Stored, StoreTypeOK
  <2> QED BY <1>0, <2>1, <2>2, <2>3, RemoveFirstFacts, TakenOut
<1>2. ASSUME NEW c \in Clients, StoreMissed(c) PROVE OrderIsRecency'
  <2>1. PICK k \in missed[c] : StoreSet(k)
    BY <1>2 DEF StoreMissed
  <2>2. k \in StoreKeys /\ missed' \in [Clients -> SUBSET StoreKeys]
    BY <1>0, <1>2 DEF StoreMissed, StoreTypeOK
  <2> QED BY <2>1, <2>2, StoreSetStep
<1>3. ASSUME NEW c \in Clients, StoreReturnMiss(c) PROVE OrderIsRecency'
  <2>1. StoreTypeOK'
    BY <1>0, <1>3 DEF StoreReturnMiss, StoreTypeOK, countVars
  <2> QED BY <1>3, <2>1 DEF StoreReturnMiss, OrderIsRecency, Stored
<1>4. ASSUME NEW k \in StoreKeys, FindHit(k) PROVE OrderIsRecency'
  <2>1. /\ accessOrder' = Touched(accessOrder, k) /\ lastTouched' = {k}
        /\ Stored' = Stored /\ k \in Stored
    BY <1>4 DEF FindHit, Stored
  <2>2. /\ accessOrder' \in Seq(StoreKeys) /\ IsInjective(accessOrder')
        /\ ToSet(accessOrder') = Stored /\ Last(accessOrder') = k
    <3>1. LET t == Touched(accessOrder, k) IN
            /\ t \in Seq(StoreKeys) /\ IsInjective(t)
            /\ ToSet(t) = Stored \cup {k} /\ Last(t) = k
      BY <1>0, TouchedFacts
    <3> QED BY <2>1, <3>1
  <2>3. StoreTypeOK'
    BY <1>0, <1>4, <2>2 DEF FindHit, StoreTypeOK, countVars
  <2> QED BY <2>1, <2>2, <2>3 DEF OrderIsRecency
<1>5. ASSUME NEW k \in StoreKeys, StoreDelete(k) PROVE OrderIsRecency'
  <2>1. /\ data' = [data EXCEPT ![k] = "absent"]
        /\ accessOrder' = RemoveFirst(accessOrder, k) /\ UNCHANGED lastTouched
    BY <1>5 DEF StoreDelete
  <2>2. StoreTypeOK'
    BY <1>0, <1>5, <2>1, RemoveFirstFacts DEF StoreDelete, StoreTypeOK, countVars
  <2>3. Stored' = Stored \ {k}
    BY <1>0, <2>1 DEF Stored, StoreTypeOK
  <2> QED BY <1>0, <2>1, <2>2, <2>3, RemoveFirstFacts, TakenOut
<1>6. ASSUME NEW k \in StoreKeys, StoreExpire(k) PROVE OrderIsRecency'
  <2>1. StoreTypeOK'
    BY <1>0, <1>6 DEF StoreExpire, StoreTypeOK, countVars
  <2>2. Stored' = Stored
    BY <1>0, <1>6 DEF StoreExpire, Stored, StoreTypeOK
  <2> QED BY <1>6, <2>1, <2>2 DEF StoreExpire, OrderIsRecency
<1>7. ASSUME NEW k \in StoreKeys, StoreSet(k), UNCHANGED missed PROVE OrderIsRecency'
  BY <1>0, <1>7, StoreSetStep DEF StoreTypeOK
<1>8. CASE StoreClear
  <2>1. StoreTypeOK'
    BY <1>0, <1>8 DEF StoreClear, StoreTypeOK, countVars
  <2>2. Stored' = {} /\ accessOrder' = <<>>
    BY <1>8 DEF StoreClear, Stored
  <2>3. ToSet(accessOrder') = {} /\ IsInjective(accessOrder')
    BY <2>2 DEF ToSet, IsInjective
  <2> QED BY <2>1, <2>2, <2>3, FS_EmptySet, StoreAssumption DEF OrderIsRecency
<1>9. CASE CleanupExpired
  <2> DEFINE expired == {k \in StoreKeys : data[k] = "expired"}
  <2>1. /\ data' = [k \in StoreKeys |-> IF k \in expired THEN "absent" ELSE data[k]]
        /\ accessOrder' \in Rests(accessOrder, expired)
        /\ evictions' = evictions + Cardinality(expired)
        /\ UNCHANGED <<evictCount, missed, lastTouched>>
    BY <1>9 DEF CleanupExpired
  <2>2. Stored' = Stored \ expired
    BY <1>0, <2>1 DEF Stored, StoreTypeOK
  <2>3. /\ accessOrder' \in Seq(StoreKeys) /\ IsInjective(accessOrder')
        /\ ToSet(accessOrder') = ToSet(accessOrder) \ expired
        /\ accessOrder # <<>> /\ Last(accessOrder) \notin expired =>
             accessOrder' # <<>> /\ Last(accessOrder') = Last(accessOrder)
    BY <1>0, <2>1, RestsFacts
  <2>4. StoreTypeOK'
    <3>1. expired \subseteq Stored
      BY DEF Stored
    <3>2. Cardinality(expired) \in Nat
      BY <3>1, StoredFinite, FS_Subset, FS_CardinalityType
    <3>3. data' \in [StoreKeys -> {"absent", "fresh", "expired"}]
      BY <1>0, <2>1 DEF StoreTypeOK
    <3> HIDE DEF expired
    <3> QED BY <1>0, <2>1, <2>3, <3>2, <3>3 DEF StoreTypeOK
  <2> HIDE DEF expired
  <2> QED BY <2>1, <2>2, <2>3, <2>4, TakenOut
<1>10. CASE UNCHANGED storeVars
  <2>1. StoreTypeOK'
    BY <1>0, <1>10 DEF storeVars, StoreTypeOK, countVars
  <2> QED BY <1>10, <2>1 DEF storeVars, OrderIsRecency, Stored
<1> QED BY <1>1, <1>2, <1>3, <1>4, <1>5, <1>6, <1>7, <1>8, <1>9, <1>10 DEF StoreNext

\* By whatever operations a store is filled, refreshed, expired, cleaned up and
\* evicted, its access order lists the stored keys once each, the last touched
\* at its end: for any keys, clients and size.
THEOREM StoreOrderIsRecency == StoreSpec => []OrderIsRecency
  BY StoreInitInv, StoreStepInv, PTL DEF StoreSpec

-----------------------------------------------------------------------------
(* ResilienceCalls                                                         *)

USE ResilienceAssumption

\* The number of admitted requests is bounded by a counter that is never reset
\* inside a half-open period, plus the one request that is not counted.
AdmittedAreCounted == state = "halfOpen" => admitted <= halfOpenRequests + 1

IInv ==
  /\ TypeOK
  /\ CountDecidesState
  /\ OpeningIsCovered
  /\ CoolDownPeriodIsTested
  /\ AdmittedAreCounted

LEMMA InitIInv == Init => IInv
<1> SUFFICES ASSUME Init PROVE IInv
  OBVIOUS
<1>1. TypeOK
  <2>1. call \in [Callers -> CallStates]
    BY DEF Init, CallStates
  <2>2. /\ halfOpenRequests \in 0 .. HalfOpenRequests
        /\ sinceFailure \in 0 .. ResetTimeout
        /\ sinceOpen \in 0 .. ResetTimeout
    BY DEF Init
  <2>3. QED
    BY <2>1, <2>2 DEF Init, TypeOK, States
<1>2. QED
  BY <1>1 DEF Init, IInv, CountDecidesState, OpeningIsCovered,
              CoolDownPeriodIsTested, AdmittedAreCounted

LEMMA AllowStep ==
  ASSUME IInv, NEW c \in Callers, allowRequest(c)
  PROVE  IInv'
<1> USE DEF IInv, TypeOK, CountDecidesState, OpeningIsCovered, AdmittedAreCounted,
            States, CallStates, breaker, history
<1>1. CASE AdmitClosed
  <2>1. state = "closed" /\ state' = "closed" /\ call' \in [Callers -> CallStates]
    BY <1>1 DEF allowRequest, AdmitClosed
  <2>2. QED
    BY <1>1, <2>1 DEF allowRequest, AdmitClosed, CoolDownPeriodIsTested
<1>2. CASE AdmitAfterCoolDown
  <2>1. /\ state = "open" /\ state' = "halfOpen" /\ admitted' = 1
        /\ halfOpenRequests' = 0 /\ byCoolDown' = TRUE
        /\ UNCHANGED <<failures, sinceFailure, sinceOpen, healthy>>
        /\ call' = [call EXCEPT ![c] = "halfOpen"]
    BY <1>2 DEF allowRequest, AdmitAfterCoolDown
  <2>2. TypeOK' /\ CountDecidesState' /\ OpeningIsCovered' /\ AdmittedAreCounted'
    BY <2>1
  <2>3. call'[c] = "halfOpen"
    BY <2>1
  <2>4. QED
    BY <2>2, <2>3 DEF CoolDownPeriodIsTested
<1>3. CASE AdmitHalfOpen
  <2>1. /\ state = "halfOpen" /\ state' = "halfOpen" /\ admitted' = admitted + 1
        /\ halfOpenRequests < HalfOpenRequests
        /\ halfOpenRequests' = halfOpenRequests + 1
        /\ UNCHANGED <<failures, sinceFailure, sinceOpen, byCoolDown, healthy>>
        /\ call' = [call EXCEPT ![c] = "halfOpen"]
    BY <1>3 DEF allowRequest, AdmitHalfOpen
  <2>2. TypeOK' /\ CountDecidesState' /\ OpeningIsCovered' /\ AdmittedAreCounted'
    BY <2>1
  <2>3. call'[c] = "halfOpen"
    BY <2>1
  <2>4. QED
    BY <2>2, <2>3 DEF CoolDownPeriodIsTested
<1>4. QED
  BY <1>1, <1>2, <1>3 DEF allowRequest

LEMMA FailureStep ==
  ASSUME IInv, NEW c \in Callers, recordFailure(c)
  PROVE  IInv'
<1> USE DEF IInv, TypeOK, CountDecidesState, OpeningIsCovered, AdmittedAreCounted,
            States, CallStates
<1>1. /\ failures' = failures + 1
      /\ sinceFailure' = 0
      /\ sinceOpen' = (IF state # "open" /\ state' = "open" THEN 0 ELSE sinceOpen)
      /\ call' = [call EXCEPT ![c] = "none"]
      /\ UNCHANGED <<halfOpenRequests, healthy, admitted, byCoolDown>>
  BY DEF recordFailure, SinceAfterFailure
<1>2. /\ state' \in {"closed", "open"}
      /\ state' = "closed" <=> failures' < FailureThreshold
  BY <1>1 DEF recordFailure, StateAfterFailure
<1>3. TypeOK'
  BY <1>1, <1>2
<1>4. QED
  BY <1>1, <1>2, <1>3 DEF CoolDownPeriodIsTested

LEMMA SuccessStep ==
  ASSUME IInv, NEW c \in Callers, recordSuccess(c)
  PROVE  IInv'
<1> USE DEF IInv, TypeOK, CountDecidesState, OpeningIsCovered, AdmittedAreCounted,
            States, CallStates
<1>1. /\ call' = [call EXCEPT ![c] = "none"]
      /\ UNCHANGED <<halfOpenRequests, sinceFailure, healthy, sinceOpen>>
  BY DEF recordSuccess
<1>2. CASE state = "open"
  <2>1. /\ state' = "halfOpen" /\ failures' = failures
        /\ admitted' = 0 /\ byCoolDown' = FALSE
    BY <1>2 DEF recordSuccess, FailuresAfterSuccess
  <2>2. TypeOK'
    BY <1>1, <2>1
  <2>3. CountDecidesState' /\ OpeningIsCovered' /\ AdmittedAreCounted'
    BY <1>1, <1>2, <2>1
  <2>4. QED
    BY <2>1, <2>2, <2>3 DEF CoolDownPeriodIsTested
<1>3. CASE state # "open"
  <2>1. /\ state' = "closed" /\ failures' = 0
        /\ admitted' = admitted /\ byCoolDown' = byCoolDown
    BY <1>3 DEF recordSuccess, FailuresAfterSuccess
  <2>2. QED
    BY <1>1, <1>3, <2>1 DEF CoolDownPeriodIsTested
<1>4. QED
  BY <1>2, <1>3

LEMMA OtherSteps ==
  ASSUME IInv, Reset \/ Tick \/ HealthChanges \/ UNCHANGED vars
  PROVE  IInv'
<1> USE DEF IInv, TypeOK, CountDecidesState, OpeningIsCovered, AdmittedAreCounted,
            CoolDownPeriodIsTested, States, CallStates, breaker, history
<1>1. CASE Reset
  BY <1>1 DEF Reset
<1>2. CASE Tick
  BY <1>2 DEF Tick, UpTo
<1>3. CASE HealthChanges
  BY <1>3 DEF HealthChanges
<1>4. CASE UNCHANGED vars
  BY <1>4 DEF vars
<1>5. QED
  BY <1>1, <1>2, <1>3, <1>4

LEMMA Invariance == Spec => []IInv
<1>1. IInv /\ [Next]_vars => IInv'
  BY AllowStep, FailureStep, SuccessStep, OtherSteps DEF Next
<1>2. QED
  BY InitIInv, <1>1, PTL DEF Spec

\* The variables keep their types.
THEOREM TypeCorrect == Spec => []TypeOK
<1>1. IInv => TypeOK
  BY DEF IInv
<1>2. QED
  BY <1>1, Invariance, PTL

\* lastFailure is never older than the opening of an open breaker.
THEOREM OpeningCovered == Spec => []OpeningIsCovered
<1>1. IInv => OpeningIsCovered
  BY DEF IInv
<1>2. QED
  BY <1>1, Invariance, PTL

\* State and failure count agree after any interleaving of results.
THEOREM CountAndState == Spec => []CountDecidesState
<1>1. IInv => CountDecidesState
  BY DEF IInv
<1>2. QED
  BY <1>1, Invariance, PTL

\* A half-open period exposes the API to at most HalfOpenRequests + 1 requests.
THEOREM TestsAreBounded == Spec => []TestsBounded
<1>1. IInv => TestsBounded
  BY DEF IInv, TypeOK, AdmittedAreCounted, TestsBounded
<1>2. QED
  BY <1>1, Invariance, PTL

\* A half-open period that began after a cool-down always has a test running.
THEOREM CoolDownTested == Spec => []CoolDownPeriodIsTested
<1>1. IInv => CoolDownPeriodIsTested
  BY DEF IInv
<1>2. QED
  BY <1>1, Invariance, PTL
=============================================================================
