------------------------------ MODULE ItemLife -------------------------------
(***************************************************************************)
(* What a batch processor promises for each item, whatever batches, loops, *)
(* timers and goroutines it uses: an item waits, is worked on and is       *)
(* settled, and never goes back.                                           *)
(***************************************************************************)
CONSTANT Items

VARIABLES waiting, working, settled    \* sets of items

lifeVars == <<waiting, working, settled>>

LifeInit == waiting = {} /\ working = {} /\ settled = {}

\* An item that is not needed is settled as it comes.
Accept(n) ==
  /\ n \notin waiting \cup working \cup settled
  /\ \/ waiting' = waiting \cup {n} /\ UNCHANGED settled
     \/ settled' = settled \cup {n} /\ UNCHANGED waiting
  /\ UNCHANGED working

\* Items are taken up together, to be worked on by one or to be dropped.
TakeUp(batch) ==
  /\ waiting' = waiting \ batch
  /\ \/ working' = working \cup batch /\ UNCHANGED settled
     \/ settled' = settled \cup batch /\ UNCHANGED working

Finish(batch) ==
  /\ working' = working \ batch
  /\ settled' = settled \cup batch
  /\ UNCHANGED waiting

LifeNext ==
  \/ \E n \in Items : Accept(n)
  \/ \E batch \in SUBSET waiting : TakeUp(batch)
  \/ \E batch \in SUBSET working : Finish(batch)

LifeSpec == LifeInit /\ [][LifeNext]_lifeVars
=============================================================================
