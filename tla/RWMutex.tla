------------------------------- MODULE RWMutex ------------------------------
(***************************************************************************)
(* Go's sync.RWMutex as a record, external to this repository: what its    *)
(* callers rely on is that a writer that has announced itself keeps every  *)
(* new reader out, and then waits until the readers inside have left. A    *)
(* goroutine may hold the read lock more than once; the mutex does not     *)
(* know who holds it.                                                      *)
(***************************************************************************)
EXTENDS Naturals

\* writer: the goroutine that called Lock, from its announcement to Unlock;
\* readers: how many read locks are held.
Unlocked == [writer |-> {}, readers |-> 0]

MayRLock(mu) == mu.writer = {}
RLocked(mu) == [mu EXCEPT !.readers = @ + 1]
RUnlocked(mu) == [mu EXCEPT !.readers = @ - 1]

MayAnnounce(mu) == mu.writer = {}
Announced(mu, t) == [mu EXCEPT !.writer = {t}]
HoldsLock(mu, t) == mu.writer = {t} /\ mu.readers = 0
WriteUnlocked(mu) == [mu EXCEPT !.writer = {}]
=============================================================================
