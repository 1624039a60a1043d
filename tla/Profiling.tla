----------------------------- MODULE Profiling ------------------------------
(***************************************************************************)
(* The Profiler of internal/performance/profiler.go around collections     *)
(* (internal/collector/profiled_collector.go), and the FileProfileStorage  *)
(* of profile_storage.go in which it saves their profiles. The process has *)
(* one CPU profile; the profiler has one entry per collector name; the     *)
(* storage has one mutex. CPU profiles and automatic saving are enabled.   *)
(***************************************************************************)
EXTENDS Naturals, Sequences, FiniteSetsExt, RWMutex

CONSTANTS
  Operations,     \* profiled collections, all of collectors of one name
  Continuous,     \* rounds of the continuous profiler
  Readers,        \* callers of GetStats
  ProfileSizes,   \* sizes of profiles
  StorageLimit,   \* config.MaxSize; 0 is no limit
  MaxStored,      \* bound: profiles that are stored at the same time
  Nobody

ASSUME ProfilingAssumption ==
  /\ ProfileSizes \subseteq Nat \ {0}
  /\ StorageLimit \in Nat /\ MaxStored \in Nat

Profiled == Operations \cup Continuous

VARIABLES
  mu,       \* fs.mu
  stored,   \* the sizes of the stored profiles, the oldest first
  op,       \* op[o]: where o is
  active,   \* p.profiles[name]: an operation or Nobody
  cpu,      \* who started the CPU profile of the process, or Nobody
  reader    \* reader[r]: where the GetStats of r is

profilingVars == <<mu, stored, op, active, cpu, reader>>

ProfilingInit ==
  /\ mu = Unlocked /\ stored = <<>>
  /\ op = [o \in Profiled |-> "idle"]
  /\ active = Nobody /\ cpu = Nobody
  /\ reader = [r \in Readers |-> "idle"]

Step(o, from, to) == op[o] = from /\ op' = [op EXCEPT ![o] = to]
Total(sizes) == FoldSet(LAMBDA i, n : n + sizes[i], 0, DOMAIN sizes)

-----------------------------------------------------------------------------
\* StartCPUProfile fails when the process has one already; an operation goes
\* on as if it had succeeded.
StartOperation(o) ==
  /\ Step(o, "idle", "starting")
  /\ cpu' = IF cpu = Nobody THEN o ELSE cpu
  /\ UNCHANGED <<mu, stored, active, reader>>

\* The entry of an operation of the same name is overwritten.
EnterProfile(o) ==
  /\ Step(o, "starting", "collecting")
  /\ active' = o
  /\ UNCHANGED <<mu, stored, cpu, reader>>

\* Mutation: only an operation that is still listed stops the CPU profile.
StopListed(o) ==
  /\ \/ Step(o, "collecting", "saving")
     \/ Step(o, "collecting", "leaving")
  /\ cpu' = IF active = o THEN Nobody ELSE cpu
  /\ UNCHANGED <<mu, stored, active, reader>>

\* Stop stops the CPU profile, whoever started it; whether the profile is
\* saved depends on its duration and memory.
Stop(o) ==
  /\ \/ Step(o, "collecting", "saving")
     \/ Step(o, "collecting", "leaving")
  /\ cpu' = Nobody
  /\ UNCHANGED <<mu, stored, active, reader>>

LeaveProfile(o) ==
  /\ Step(o, "leaving", "done")
  /\ active' = IF o \in Operations THEN Nobody ELSE active
  /\ UNCHANGED <<mu, stored, cpu, reader>>

\* A round of the continuous profiler stops only what it has started, and
\* saves its profile in any case.
StartRound(o) ==
  /\ \/ cpu = Nobody /\ cpu' = o /\ Step(o, "idle", "sampling")
     \/ cpu # Nobody /\ UNCHANGED cpu /\ Step(o, "idle", "saving")
  /\ UNCHANGED <<mu, stored, active, reader>>

StopRound(o) ==
  /\ Step(o, "sampling", "saving")
  /\ cpu' = Nobody
  /\ UNCHANGED <<mu, stored, active, reader>>

-----------------------------------------------------------------------------
SaveLock(o) ==
  /\ MayAnnounce(mu) /\ mu' = Announced(mu, o)
  /\ Step(o, "saving", "writing")
  /\ UNCHANGED <<stored, active, cpu, reader>>

\* Mutation: an error returns without the unlock.
SaveFailsLocked(o, size) ==
  /\ HoldsLock(mu, o) /\ Len(stored) < MaxStored
  /\ stored' = Append(stored, size)
  /\ Step(o, "writing", "leaving")
  /\ UNCHANGED <<mu, active, cpu, reader>>

\* A file cannot be written: what was written before it stays, and the limit
\* is not checked.
SaveFails(o, size) ==
  /\ HoldsLock(mu, o) /\ Len(stored) < MaxStored
  /\ stored' = Append(stored, size)
  /\ mu' = WriteUnlocked(mu)
  /\ Step(o, "writing", "leaving")
  /\ UNCHANGED <<active, cpu, reader>>

\* checkStorageLimits, above the limit, calls List, whose RLock waits for the
\* Lock of the same Save: no step leads out of "listing".
Save(o, size) ==
  /\ HoldsLock(mu, o) /\ Len(stored) < MaxStored
  /\ stored' = Append(stored, size)
  /\ IF StorageLimit > 0 /\ Total(stored') > StorageLimit
     THEN Step(o, "writing", "listing") /\ UNCHANGED mu
     ELSE Step(o, "writing", "leaving") /\ mu' = WriteUnlocked(mu)
  /\ UNCHANGED <<active, cpu, reader>>

\* Delete and Cleanup by anyone, in one step: a writer that has to wait
\* changes nothing that the waiting of a Save does not.
DeleteProfile(i) ==
  /\ mu = Unlocked
  /\ stored' = SubSeq(stored, 1, i - 1) \o SubSeq(stored, i + 1, Len(stored))
  /\ UNCHANGED <<mu, op, active, cpu, reader>>

\* GetStats calls List under its own read lock.
StatsRLock(r) ==
  /\ reader[r] = "idle" /\ MayRLock(mu)
  /\ reader' = [reader EXCEPT ![r] = "listing"]
  /\ mu' = RLocked(mu)
  /\ UNCHANGED <<stored, op, active, cpu>>

StatsList(r) ==
  /\ reader[r] = "listing" /\ MayRLock(mu)
  /\ reader' = [reader EXCEPT ![r] = "listed"]
  /\ UNCHANGED <<mu, stored, op, active, cpu>>

StatsReturn(r) ==
  /\ reader[r] = "listed"
  /\ reader' = [reader EXCEPT ![r] = "idle"]
  /\ mu' = RUnlocked(mu)
  /\ UNCHANGED <<stored, op, active, cpu>>

-----------------------------------------------------------------------------
OperationStep(o) ==
  \/ EnterProfile(o) \/ Stop(o) \/ LeaveProfile(o) \/ StopRound(o)
  \/ \E size \in ProfileSizes : SaveFails(o, size) \/ Save(o, size)

ProfilingNext ==
  \/ \E o \in Operations : StartOperation(o)
  \/ \E o \in Continuous : StartRound(o)
  \/ \E o \in Profiled : OperationStep(o) \/ SaveLock(o)
  \/ \E i \in DOMAIN stored : DeleteProfile(i)
  \/ \E r \in Readers : StatsRLock(r) \/ StatsList(r) \/ StatsReturn(r)

\* Go runs its goroutines; operations are finitely many, so that a writer that
\* waits is kept from its turn by finitely many others. Nobody has to collect,
\* to delete or to ask for statistics.
ProfilingFairness ==
  /\ \A o \in Profiled :
       WF_profilingVars(OperationStep(o)) /\ WF_profilingVars(SaveLock(o))
  /\ \A r \in Readers :
       WF_profilingVars(StatsList(r)) /\ WF_profilingVars(StatsReturn(r))

ProfilingSpec ==
  ProfilingInit /\ [][ProfilingNext]_profilingVars /\ ProfilingFairness

-----------------------------------------------------------------------------
ProfilingTypeOK ==
  /\ mu.readers = Cardinality({r \in Readers : reader[r] # "idle"})
  /\ \A o \in Profiled : mu.writer = {o} <=> op[o] \in {"writing", "listing"}
  /\ stored \in Seq(ProfileSizes)
  /\ active \in Operations \cup {Nobody} /\ cpu \in Profiled \cup {Nobody}

\* Neither a CPU profile, which would keep every later one from starting, nor
\* an entry of the profiler outlives the operation it was made for, though
\* operations of one name overwrite each other's entry and stop each other's
\* CPU profile.
NothingOutlived ==
  /\ ProfilingTypeOK
  /\ cpu # Nobody => op[cpu] \in {"starting", "collecting", "sampling"}
  /\ active # Nobody => op[active] # "done"

\* Save waits for its own lock.
Overfull == \E o \in Profiled : op[o] = "listing"

\* GetStats waits in List for a writer that waits for GetStats.
NestedRead == mu.writer # {} /\ \E r \in Readers : reader[r] = "listing"

\* Every profiled collection returns, and so does every GetStats, unless a
\* Save meets the size limit or a writer comes between the two read locks of
\* GetStats: those are the only ways to wait for ever.
ProfilingReturns ==
  [](~Overfull /\ ~NestedRead) =>
    /\ <>[](\A o \in Profiled : op[o] \in {"idle", "done"})
    /\ \A r \in Readers : []<>(reader[r] = "idle")

\* "Delete oldest profiles until under limit" (profile_storage.go:378): a Save
\* that finds the storage above its limit returns.
SaveReturns == \A o \in Profiled : op[o] = "listing" ~> op[o] = "done"
=============================================================================
