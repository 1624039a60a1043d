# Formal models of slurm-exporter

This directory is a TLA+ verification project for the Go program under `src/`:
a Prometheus exporter that reads the REST API of a SLURM cluster and serves
metrics over HTTP. The modules are translated from the source; `PROJECT.json`
maps every definition to the lines it stands for, lists the TLC runs, the
mutations each property must catch, the findings and the theorems.

    tlc -workers 2 -config <cfg> <module>      # model-check one run
    tlapm <Name>Proofs.tla                     # check the proofs

## 1. The system

`cmd/slurm-exporter/main.go` loads the configuration, starts logging, builds the
collector **registry** and the SLURM **client**, creates the enabled collectors,
starts the **performance monitor** reporter, the HTTP **server** and the
configuration **watcher**, then waits for a signal or a server error and runs the
**shutdown manager**. A second family of components is a library that only tests
exercise at this commit (`main.go` never constructs them): the scheduler and the
orchestrator, graceful degradation, the resilience circuit breaker, the batch
processors, the caches, the profiler, the wrappers around collectors and the adaptive and
analytics collectors. Of the SLURM client `main.go` uses `NewClient`, `TestConnection` and
`GetSlurmClient`: the collectors call the dependency's client directly.

| Component | State it keeps | Operations | Talks to |
|---|---|---|---|
| collector circuit breaker (`internal/collector/degradation.go`) | state, failures, lastFailTime | Call, IsOpen, Reset | called by the degradation manager |
| degradation manager (same file), degraded collector | breakers per collector, cached metrics with TTL, two gauges | GetCircuitBreaker, ExecuteWithDegradation, UpdateDegradationMode, GetDegradationStats, ResetAllBreakers | breakers, collectors, Prometheus |
| resilience circuit breaker (`internal/resilience`) | state, failures, halfOpenRequests, lastFailure | Call, CallWithContext, Reset, manager GetOrCreate/ResetAll/HealthCheck | SLURM calls, metrics |
| registry (`internal/collector/registry.go`) | registered collectors, stats, Up gauge per collector | Register, Unregister, Enable/DisableCollector, CollectAll, GetStats, ReconfigureCollectors, CreateCollectorsFromConfig | collectors, watcher (reload), server (readiness), Prometheus |
| base collector (`internal/collector/base.go`) | enabled flag, CollectorState | SetEnabled, CollectWithMetrics, UpdateState, HandleError, ShouldRetry | registry |
| scheduler (`internal/collector/scheduler.go`) | schedules with timers, stopped flag, context | Start, Stop, Update/Enable/DisableSchedule, run, health checks | concurrent collector, orchestrator |
| concurrent collector (`internal/collector/concurrent.go`) | semaphore, wait group, results of the last cycle | CollectAll, collectFromCollector | collectors |
| collection orchestrator (same file) | intervals, timers, stopped flag, context | Start, Stop, SetCollectorInterval, CollectNow | concurrent collector, collectors |
| configuration watcher (`internal/config/watcher.go`) | currentConfig, debounce timer, fsnotify watch | NewWatcher, Start, watch, reload, Stop | registry via the reload handler |
| shutdown manager (`cmd/slurm-exporter/shutdown.go`, `main.go`) | hooks, order, shutdownCh, done | Add/RemoveShutdownHook, Start, Shutdown | server, logger, watcher |
| configuration (`internal/config/config.go`, `validation.go`), authentication (`internal/slurm/auth`) | none; defaults, file and environment make one configuration | Default, Load, ApplyEnvOverrides, Validate, ValidateEnhanced, ConfigureAuth | main, watcher, registry, client, server |
| HTTP server and middleware (`internal/server`) | isShuttingDown, one `timeoutWriter` per request, the in-flight gauge | Start, Shutdown, handlers, the chain of middleware | registry, health checker |
| health checker (`internal/health`) | checks, cached results | RegisterCheck, RemoveCheck, CheckHealth, handlers | registry, server |
| SLURM client (`internal/slurm`) | connected, lastError, retryCount | TestConnection, executeWithRetry, Close, pool | SLURM REST API |
| cardinality manager (`internal/metrics/cardinality.go`) | limits, filters, usage per pattern | ShouldCollectMetric, SetLimit, SetFilter | collectors |
| batch processor, metric batcher (`internal/performance`) | current batch, timers, counters | Add, flush, FlushAll, ProcessBatch, Stop | processors, Prometheus |
| intelligent cache, cache manager (`internal/performance`) | entries, order of access, sizes, counters | Get, Set, Delete, Clear, CachedFunction, cleanup, eviction | collectors |
| profiler, profile storage (same directory) | entry per collector name, the CPU profile of the process, files under a mutex | StartOperation, Stop, Save, List, Delete, GetStats, the continuous rounds | profiled collector, file system |
| logging and degraded wrappers (`internal/collector/logging.go`, `degraded_collector.go`) | a channel and goroutines per call | Collect | wrapped collector, degradation manager |
| performance monitor (`internal/collector/performance_monitor.go`) | stats per collector, SLA violations | RecordCollection, RecordResourceUsage, GetStats | registry |

The registry's lock `r.mu` is where reload, scrapes and readiness probes meet; `dm.mu`
and `s.mu` play the same part in the degradation manager and the scheduler. Everything
else talks through plain calls, except the watcher (fsnotify events and a debounce
timer), the scheduler (timers) and the shutdown (signals, a deadline, goroutines that
may be left behind).

### Hard behaviours

- **Late results.** Both circuit breakers run the protected call outside their lock, so
  that the result of a call admitted in one state is recorded in another.
- **Lock order and re-entry.** `ResetAllBreakers` re-enters `dm.mu.RLock`; a scheduled run
  takes `s.mu` under `schedule.mu` while the health check does the opposite.
- **Chains of timers.** A run arms its successor; a controller that changes the schedule
  meanwhile starts a second chain that `schedule.timer` does not know.
- **Half-done changes.** A reload changes one collector after the other; the file itself may
  be half written, or replaced, while it is read.
- **Deadlines.** The shutdown deadline falls between any two steps of the hooks, some of
  which hang.
- **Check, then act.** The cardinality manager, the intelligent cache and the health checker
  look under one lock and act under another.
- **Locks around slow calls.** `TestConnection` waits for the API under `c.mu`; `Save` of the
  profile storage lists and deletes under the lock that List and Delete take.
- **Two validators.** What one accepts another may refuse, or nobody may have looked at it
  when main, the registry or the server meets it.
- **Goroutines left behind.** A handler goes on after its request was answered, a forced
  flush after Stop has returned, a timer's goroutine after its timer was replaced.
- **Shared wait groups and channels.** Calls of `CollectAll` and `CollectNow` share one wait
  group; a channel is closed when it is empty; a scrape's channel fills up.

### What makes each component correct

| Component | Correctness |
|---|---|
| both circuit breakers | count and state agree; no call before the cool-down; a healthy API closes the breaker; half-open periods are bounded and get tested |
| breaker manager | one breaker per name, seen by everybody |
| degradation manager | nobody waits for ever; the map of breakers does not change under a loop |
| watcher and registry | what `GetConfig` reports is what runs; nobody sees half a reload; the last valid content is reached |
| configuration | an accepted configuration works; a reload is worth a restart; documents and validators agree |
| shutdown, main, server | the process ends; exit code 0 means a clean shutdown, with the hooks run in reverse |
| scheduler | an enabled schedule never dies; nothing is armed after Stop; Stop returns |
| concurrent collector | every call has the result of each collection it started; at most `maxConcurrency` collect; every call returns |
| orchestrator | no timer is forgotten; after Stop none commits to a collection and all goroutines end |
| cardinality manager | what is collected is counted; limits are exceeded by a bounded number only |
| scrape (registry adapter, simple collectors, performance monitor) | every sample sent is counted once in each place; every scrape ends |
| batch processor | no item is lost or processed twice; what came before Stop is settled |
| HTTP middleware | one answer per request, the handler's or the timeout's; every request answered |
| health checker | a report has one result of each check and the worst status |
| intelligent cache, cache manager | order of eviction, size and counters agree with the entries; an eviction makes room |
| profiler, profile storage | no CPU profile and no entry outlives its operation; every operation returns |
| wrappers | what the collector sent is delivered; Collect returns |
| SLURM client | every request returns, whatever tests and cancellations do |

## 2. Modules

| Module | Models | Extends |
|---|---|---|
| `CollectorBreaker` | the record of `degradation.go`'s `CircuitBreaker` and what each critical section makes of it, as operators | |
| `CollectorCalls` | concurrent callers of one such breaker, time, the API's health | `CollectorBreaker` |
| `BreakerPromise` | the abstract breaker: what any caller may rely on | |
| `ResilienceCalls` | the resilience breaker with concurrent callers | |
| `ResilienceManager` | `GetOrCreate`, use and `ResetAll` of named breakers | |
| `RWMutex` | Go's `sync.RWMutex`, external: a waiting writer keeps new readers out | |
| `DegradationManager` | collection with cache and gauge, mode updates and resets around `dm.mu` | `CollectorBreaker`, `RWMutex` |
| `HotReload` | main's start-up, the watcher, `ReconfigureCollectors`, editors and probes | |
| `Lifecycle` | main's select, the shutdown hooks, the server, signals, the exit code | |
| `Scheduler` | schedules, their runs, controllers, Start, Stop and the health check around `s.mu` and `schedule.mu` | `RWMutex` |
| `ConcurrentCollector` | `CollectAll`, `CollectNow` and their goroutines: slots, wait group, waiter, channels | |
| `Orchestrator` | the timers of the orchestrator, Start, Stop and SetCollectorInterval | |
| `ItemLife` | the abstract life of an item: it waits, is worked on and is settled | |
| `BatchProcessor` | items between Add, loops, forced flushes, retries, the flush timer and Stop | |
| `CardinalityManager` | `ShouldCollectMetric` from concurrent callers, lock by lock | |
| `Scrape` | the registry's adapter around the jobs collector, reloads, the performance monitor's counts; callers of the cardinality manager | `CardinalityManager` |
| `HttpServer` | `TimeoutMiddleware`, its writer and its two goroutines, metrics and refusals | |
| `HealthChecker` | `CheckHealth`, its goroutines and cache, registration | |
| `Serving` | a health endpoint behind the middleware: both of the above, step by step | `HttpServer`, `HealthChecker` |
| `IntelligentCache` | Get in two halves, Set, CachedFunction, cleanup and Clear | |
| `CacheStore` | one store of the cache manager: order of access, eviction, counters | |
| `Profiling` | profiled operations, continuous rounds, the file storage and its mutex | `RWMutex` |
| `CollectPipe` | a wrapper between a collector and its caller's channel | |
| `SlurmClient` | retries, tests and the state of the connection around `c.mu` and the rate limiter | |
| `Configuration` | defaults, file, environment, validators, start and reload as functions of settings | |
| `BreakerProofs` | proofs about `CollectorCalls` and `DegradationManager` | them and `TLAPS`, as all below |
| `ResilienceProofs` | about `ResilienceCalls`, `ResilienceManager` and `CacheStore` | |
| `HotReloadProofs` | about `HotReload` and `Configuration` | |
| `SchedulerProofs` | about `Scheduler` | |
| `CollectingProofs` | about `ConcurrentCollector`, `Orchestrator` and `CollectPipe` | |
| `ScrapeProofs` | about `CardinalityManager`, `Scrape` and `IntelligentCache` | |
| `ServingProofs` | about `HttpServer`, `HealthChecker` and `Serving` | |
| `SupportProofs` | about `Lifecycle`, `BatchProcessor`, `Profiling` and `SlurmClient` | |
| `MC*` | what the model checker needs to instantiate the module of that name; five of them take several modules that share no state, one at a time (see *Side by side*) | they |

State and actions carry the names of the source where TLA+ allows it. One action is one
stretch of code between two points where another goroutine can make a difference: a lock
acquisition, a channel, a timer, the call of a collector. Examples: `CollectorCalls.Begin`
is the first critical section of `Call`, `Succeed` and `Fail` the second;
`DegradationManager.pc` names the place in `ExecuteWithDegradation`; `Scheduler.chain[s][i]`
is an armed timer of schedule `s` or the place its run has reached in
`runScheduledCollection`; `HotReload.todo` is what the loop of `ReconfigureCollectors` has
before it. Definitions introduced by "Mutation:" are the plausible bugs that the
properties must catch; nothing uses them.

Abstractions worth knowing:

- Time in the breakers is counted in ticks since the last failure, cut off one beyond the
  reset timeout: the code compares only that difference with only that bound.
- In `HotReload` a configuration is the set of collectors it enables, and filters and labels
  travel with it: that module is about when a content is read and applied. Writing in place
  truncates first, and `Load` takes an empty file for the defaults; after that the file may be
  for a while one that does not load, until it is all there. In
  `Configuration` it is a record of every option that a validator, main, the registry or the
  server looks at, and loading, starting and reloading are one step each: that module is
  about what the contents do.
- Intervals, latencies, counters and gauges that nothing reads back are left out. The
  state and mode gauges of the degradation manager are kept, and left out of the view.
- In `Scheduler`, `UpdateSchedule`, `EnableSchedule` and `DisableSchedule` are one action
  each: the map they look up never changes, and inside `schedule.mu` they wait for nothing.
- `ConcurrentCollector.wg` is the set of goroutines the wait group counts, so that the
  counter is its size; a waiter that wakes up and finds it in use again panics, as in Go.
- `Orchestrator.ticker[<<c, n>>]` is the goroutine of collector `c` that the n-th Start began;
  `timers` is the map, which knows the latest only.
- In `BatchProcessor` an item is the number of its call of Add; a batch being processed is
  what one goroutine holds, whoever took it out of the map.
- In `CardinalityManager` a sample is a metric and the names of its labels: the code counts
  samples per label name, never values. Sampling is a choice, as a hash is to the reader.
  `allowed` is history: the loosest bound anybody has found.
- In `HttpServer` a text is its author. A write to the connection takes time and holds
  `tw.mu`, as it does in the code, so that a slow client delays the timeout's answer. Handlers
  answer with any of `Codes`, 408 among them, which the middleware also uses. Two things end
  the program: a handler's panic, and the map of headers, which `timeoutWriter` hands on
  without a lock (`HeadersRace`). What the headers say is left out.
- In `Scrape` the runtime may end the program at two places: `LabelValues` read during
  `updateUsage`, and the custom labels that a reload puts in while a scrape ranges over them
  (`SetCustomLabels`). After either nothing goes on.
- In `Configuration` a file is its settings, each a section, an option and a value (or
  something that cannot be read as one); the environment likewise. Secrets and certificates
  are files that are missing, blank or good. Where it is for the host or a library to say
  whether a value will do, "unusable" is the value that will not: an address the server cannot
  listen on, a log file whose directory cannot be made, a base_url that the client library
  refuses. `begun` is the content the process started from, which the server keeps; `adopted`
  is the last one reloaded, which the collectors have.
- In `CollectPipe`, `Profiling` and `SlurmClient` what a metric, a profile or an answer
  holds is left out; a profile has a size.
- `IntelligentCache.lateDrop` is history: a Get has deleted an entry it had not read.
- `Lifecycle.Select` is the select of `main` and the `signal.Stop` that follows it at once.

## 3. Runs

| Run | Asks | Properties | Bounds |
|---|---|---|---|
| `collector_calls` | Do late results, resets and test calls in any order keep the cool-down, implement `BreakerPromise`, and let the breaker recover? | `CoolDownRespected`, `KeepsPromise`, `Recovers` | 3 callers, threshold 2, timeout 2 ticks, `FailureBound` 4 |
| `resilience` | Are test requests of the resilience breaker bounded and awaited? Does `GetOrCreate`'s second look suffice? Do the caches' order, size and entries agree? | `TestsBounded`, `CoolDownPeriodIsTested`; `NoStrayBreaker`; `CacheAccounts`; `OrderIsRecency` | 4 callers, threshold 2, 2 test requests, `FailureBound` 5; 3 users, 2 names, 1 resetter; 3 keys, 2 entries, 2 goroutines, 3 Sets, 2 evictions |
| `resilience_wedge` (violation) | Does a half-open breaker admit a test when nothing is in flight? | `HalfOpenAdmitsTests` | as above |
| `degradation` | Is the loop over the breakers safe, and do operations return? | `WalkIsStable`, `OperationsReturn` | 2 collectors, one executor, updater and resetter each |
| `degradation_reset` (violation) | Does `ResetAllBreakers` return? | `ResetReturns` | 1 collector, 1 executor, 1 resetter |
| `hot_reload` | Do file, `GetConfig` and running collectors agree, go forward and converge? Does an accepted configuration fail only for the listed causes, and is its reload worth a restart? | `RunsCurrent`, `NeverGoesBack`, `Converges`; `OnlyOverlookedKills`, `ReloadIsRestart` | 3 collectors (one outside the reload's switch), 3 configurations, one of them the defaults, and a broken one, `EditBound` 5; 48 settings of the file and 9 environments, `SettingBound` 2, `ChangeBound` 2 |
| `lifecycle` | Does the process end, and with an honest exit code? | `ZeroMeansClean`, `Terminates` | main's 3 hooks, 2 requests, 2 signals |
| `scheduler` | Do chains of timers survive, or end, as schedules and Stop demand? | `ScheduleAlive`, `NoRearmAfterStop`, `DisabledStops`, `KeepsCollecting` | 1 schedule, 3 chains, 1 checker |
| `scheduler_stop` (violation) | Does Stop return? | `StopReturns` | 1 schedule, 2 chains, 1 checker |
| `collecting` | Do slots, results, wait group and channels come out right when calls overlap? Do timers live and end as Start, Stop and SetCollectorInterval demand? Does a wrapper deliver and return? | `SlotsAccounted`, `ResultsComplete`, `PanicOnlyByReuse`, `CallsReturn`; `TimersAlive`, `StopEndsTimers`; `MetricsDelivered`, `PipeReturns` | 1 CollectAll of 2 collectors, 1 CollectNow, 1 slot; 1 collector, 3 calls of Start; 3 metrics through a channel of 1 |
| `supporting` | Is each item in one place, whoever flushes, and settled? Does a profile outlive its operation, does a storage operation hang? Does every request return? | `ItemsConserved`, `EarlyItemsSettle`; `NothingOutlived`, `ProfilingReturns`; `ApiCallsReturn` | 3 items, 2 keys, 1 type, batches of 2, 1 retry; 2 operations, 1 round, 1 reader, room for 2 profiles; 2 requests, 1 retry, 1 test |
| `serving` | Is there one answer, in time, with the worst status? Are scrapes' samples accounted for, limits kept and scrapes ended? | `OneAnswer`, `ReportIsWorst`, `RequestsReturn`; `SamplesAccounted`, `LimitHolds`, `ScrapesEnd` | 1 request, 2 checks; 2 scrapes, 2 samples of 1 metric, 1 label, a limit of 1, channel of 1, 1 change |

Why these bounds are enough to be worth something:

- *Breakers.* Three callers are one that opens the breaker, one whose result is late and one
  that tests; a fourth is needed to fill the half-open capacity of the resilience breaker
  while a late success is under way. `FailureBound` stops the count of failures two or three
  above the threshold, where only `failures >= threshold` is asked of it; more than that
  many failures in a row differ in nothing.
- *Degradation.* One goroutine of each kind shows every pair of operations around `dm.mu`;
  a threshold of 1 makes each failure open a breaker.
- *Hot reload.* `EditBound` counts changes of the file, of which an edit in place makes two or
  more; the fifth is the last with which an edit may begin. That is two edits in place, or
  three if none leaves a part of a file in between: one while the debounce timer runs, one
  while the reload runs and one after it. Two flags keep cases apart in which the code cannot converge:
  `Replaces` (the subject of `HotReloadReplaced.cfg`) and `EditsUnseen`, a change between
  NewWatcher's Load and its `watcher.Add`. Both are FALSE in `hot_reload`.
- *Lifecycle.* The hooks are those of `main.go`; one request that ends and one that hangs.
- *Scheduler.* `Chains` bounds how many timers and runs one schedule has: its own, one left
  behind by an update, and one more for the controller that comes while both are in flight.
  Schedules share only `s.mu`; the safety invariants also hold with two schedules of two
  chains each (4.9 million states, not among the runs for its length).

- *Collecting.* One slot and up to three goroutines make every goroutine wait for every
  other; a CollectNow between the waking of a waiter and its look at the wait group is the
  panic. A second CollectAll (12.8 million states, no error) is too long for a run; the
  proofs take any number. Three calls of Start are one whose timer is in the map, one that
  it has replaced, and one after Stop.
- *Caches.* Three keys are one more than fits, so that Set has to evict; two goroutines are
  one whose Get or CachedFunction is between its locks and one that changes what it read.
- *Wrappers.* Three metrics are one in the channel, one in the collector's hand and one behind.
- *Batches.* Three items are a full batch and the first of the next; two keys are a
  duplicate and not one. Types share only the flushing loops over them.
- *Profiles.* Two operations of one name are what can overwrite and stop each other's, a
  continuous round competes for the one CPU profile, and the third Save exceeds the limit.
- *Client.* Two requests and one test are one that holds `c.mu` and two that need it.
- *Settings.* The validators read at most two options together that are not defaults, but for
  a few that need the environment as third; TLS needs three before the server uses it, which
  is what one of the environments gives it. The settings of `MCHotReload.tla` have at least
  one for each of their checks, on either side of it where a boundary is compared, and those
  that matter to main and to the registry. Two changes are one that sets something in a
  reload and one that takes it out again.
- *Serving.* Requests share a gauge and a cache that no answer reads, so that one shows all
  interleavings of its three goroutines. A limit of 1 with two scrapes is the smallest that
  can be exceeded; one sample has the label and one has not; a channel of 1 is full at once.
- *Side by side.* Modules that share no state are checked in one run: `MCResilience` (the
  breaker, its manager, the two caches), `MCCollecting` (calls, timers, a wrapper),
  `MCHotReload` (the reload, the settings), `MCSupport` (batches, profiles, client) and
  `MCServing` (requests, scrapes) choose at the start which one runs. The others stay in
  their initial states, in which nothing is due, so that the fairness of all is the fairness
  of the one that runs. Only the flush timer of the batches ticks always.

`CHECK_DEADLOCK FALSE` stands only where the system may stop: an exporter that has exited,
a file that nobody edits any more, a scheduler that has been stopped (or is deadlocked,
which `scheduler_stop` is about), calls, scrapes and requests that have all been made, and
a profile storage that waits for itself.

### Fairness

Goroutines that the Go scheduler can run do run (weak fairness of their steps). Whoever
waits for a lock that is free again and again gets it (strong fairness, in
`DegradationManager` and `Scheduler`): `sync.Mutex` hands over to a starving waiter and a
waiting writer of `sync.RWMutex` keeps new readers out. Collections end because they carry
a context with a deadline. Timers fire if they stay armed (weak fairness: a schedule
updated faster than its interval never collects, so `KeepsCollecting` assumes that updates
cease). Nobody has to edit, probe, signal, control, start, stop or reset; requests and hooks
need not end; the API need not recover, and `Recovers` speaks only of an API that stays
healthy.

Of `ConcurrentCollector` it is enough that Go goes on while any goroutine can run, as every
call takes finitely many steps. `Orchestrator` needs strong fairness of the select's second
case: with timer and context both ready Go chooses at random, and not the timer for ever.
`HttpServer` asks nothing of the handler: a request is answered because its context has a
deadline, and because a write to the connection ends (the server's WriteTimeout). Strong
fairness there is for `tw.mu`. In `Scrape` SLURM's answer or the HTTP client's timeout comes
and Prometheus reads its channel. In `BatchProcessor` the ticker ticks; the loops owe
nothing, since the flush timer and Stop see to every item that came before Stop.

`CollectPipe`, `Profiling` and `SlurmClient` have weak fairness of every step of the wrapper, the
operation or the request: a collector ends, a write of a file ends, the rate limiter and the
API answer or the request's timeout does. The caller of a wrapper reads until its context is
done and owes nothing afterwards. `fs.mu` and `c.mu` are each taken a bounded number of times
by the operations of the instance, so that weak fairness is enough. Nothing temporal is
asked of the caches and of the settings.

## 4. Findings

Each is a property that says what a comment or a document says, and that fails. Three are
runs of `PROJECT.json`, 4, 5, 6 and 8 have a configuration here that reproduces them, and for
the rest it is enough to add the property to the configuration of the run that is named.

1. `resilience_wedge`: a late success in the open state enters the half-open state without
   resetting `halfOpenRequests`; the breaker can reject every request until a manual Reset.
2. `degradation_reset`: `ResetAllBreakers` calls `UpdateDegradationMode` under
   `dm.mu.RLock`; with a `GetCircuitBreaker` in between, both wait for ever.
3. `scheduler_stop`: health check, run and Stop wait for each other in a circle.
4. `tlc -config HotReloadReplaced.cfg HotReload`: after the configuration file is
   replaced, as ConfigMap updates do, no change is seen any more (`Converges`).
5. `tlc -config LifecycleHangup.cfg MCLifecycle`: SIGHUP, documented as reload, shuts the
   exporter down (`HangupReloads`).
6. `tlc -config ServingPanics.cfg MCServing`: a handler's panic happens in the goroutine
   that `TimeoutMiddleware` started, where `RecoveryMiddleware` cannot recover it
   (`PanicsAreRecovered`).
7. `StopWaitsForAll` (`MCSupport`): Stop of the batch processor, which says "Wait for all
   goroutines", does not wait for those of forced flushes, its own included.
8. `tlc -config OrchestratorStopPrevents.cfg Orchestrator`: a timer's goroutine can begin a
   collection after Stop has returned, since it looks at the flag first and calls Collect
   after releasing the lock (`NoNewCollections`).
9. `SamplesAccounted`, which holds: the "current number of metric series" is the number of
   samples sent since the program began. With the default limits a cluster of unchanging
   jobs reaches them after enough scrapes, and its job metrics are dropped from then on.
10. `TotalSizeIsSum` (`MCResilience`): the size of the intelligent cache drifts. A `Get` deletes
    by key what it finds under the write lock, but subtracts the size of what it read under the
    read lock; and without change tracking a `Set` of a present key adds without subtracting.
11. `EvictionMakesRoom` (`MCResilience`, as a PROPERTY): a `Set` of a key that a full store of
    the cache manager already has evicts all the same.
12. `EvictionsExported` (`MCResilience`): `cache_evictions_total` counts expired entries only.
13. `SaveReturns` (`MCSupport`, as a PROPERTY): the first `Save` above the size limit waits for
    its own lock, and `GetStats` reads under a read lock it already has. `ProfilingReturns`
    shows that those are the only ways for a storage to hang.
14. `LoggingReturns` (`MCCollecting`, as a PROPERTY): the forwarder of `LoggingCollector` leaves
    when the context is done, and a collector with more metrics than the channel holds blocks
    for ever, `Collect` with it. `PipeReturns` shows that this is the only way to hang.
15. `EnvironmentPrevails` (`MCHotReload`): most options cannot be set by environment variables.
16. `CollectionsFitRequest` (`MCHotReload`): six collectors may take longer than a request.
17. `TokenFileIsEnough` (`MCHotReload`): a JWT configuration with a token file is refused; the
    shipped `configs/production.yaml` is one.

What `OnlyOverlookedKills` has to admit is worth reading as well. It is about the refusals that
come after the validators': of `NewLogger`, `NewClient`, the registry, `server.New` and the
server that is to listen, and the panic of a scrape. `Overlooked` lists their causes, each of
which is needed:

- an address the host does not let the server listen on: only an empty one is refused
  (`config.go:812`), the server's goroutine fails and main exits with code 1;
- a log file whose directory cannot be made (`logger.go:85`), a base_url that the client library
  takes for none (`client.go:76`);
- blank secrets and certificates;
- TLS below 1.3 with cipher suites that do not include HTTP/2's AES_128_GCM_SHA256:
  `net/http` refuses to listen. The shipped `configs/production.yaml:21` lists such suites;
- a metrics path that is one of the fixed routes, which panics in `setupRoutes`;
- custom labels that a metric uses itself. They keep the exporter from starting; a reload
  accepts them too, and the next scrape panics in a goroutine of the Prometheus registry.

Outside of it are what the command line changes after the validation, a running process that
ends whatever its configuration (`HttpServer`, `Scrape` and `ConcurrentCollector` show how), and
a library that refuses a valid value for reasons of its own, but for base_url.

Seen while reading, without a run: the half-open collector breaker admits any number of test
calls (`degradation.go:78`) and a late success closes it early (`:110`); a half-open period
of the resilience breaker admits one request more than `half_open_max_requests`
(`TestsBounded` states the true bound); the state gauge may be stale and the published mode
may be one that never was (`degradation.go:305`, `:377`); a rejected call may get the error
although its metrics are cached (`:309`); a change of the file between NewWatcher's Load and
its watch is lost; a collector disabled at start cannot be enabled by a reload.
`SetCollectorInterval` on a running orchestrator ends the timed collection of that collector
(`concurrent.go:270`); the orchestrator's timers take no slot of the semaphore; after Stop a
new Start collects nothing, its context being cancelled, although it resets the flag "to
allow collections" (`:279`). An item whose key is in the batch is skipped even if it is newer
(`batch_processor.go:134`); a batch may exceed `MaxBatchSize`; Add after Stop succeeds and is
never processed. `findApplicableLimit` "finds the most specific limit" (`cardinality.go:308`)
but takes whichever the map yields first; default patterns with "|" never match (`:182`, `:196`);
reading `LabelValues` during `updateUsage` may end the program (`:295`). The metrics record
the handler's status, not the timeout's (`middleware.go:115`); a handler that has begun its
answer when it times out leaves it truncated, with status 200. A slow `CheckHealth` may put
an old result, or one of a removed check, into the cache (`health.go:123`), which nothing
reads. The validators have lists of collectors of their own:
`CollectorsConfig.Validate` (`config.go:1006`) leaves out accounts and associations, and no list
has the licenses. Filters without patterns are validated, but the creation of collectors
ignores them until a reload (`registry.go:547`). A `warn_limit` equal to `max_series` passes one
validator (`config.go:1192`) and not the other (`validation.go:311`). The default debug endpoint
"cache" (`config.go:701`) is one that `DebugConfig.Validate` refuses once debugging is enabled.
"Empty enables auto-detection" (`config.go:319`) of the API version is made v0.0.44 by the
validator. Two `TestConnection`s and a request may leave the
older verdict in `connected`.

## 5. Proofs

Every safety property of the runs, invariant or action property, is a theorem as well, for any
number of goroutines, collectors, schedules, requests, keys and settings, from the named
assumptions on the constants alone: positive thresholds, sizes and timeouts, which the
validation of the configuration enforces or the code cannot do without; sets that do not
overlap; finite sets of whatever is counted. Modules whose components have to do with each
other share a module of proofs.

- **`BreakerProofs`**: of `CollectorCalls`, `TypeOK`, `CountDecidesState`, `OpeningIsCovered`
  (together inductive: a half-open breaker keeps the count that opened it), the cool-down, and
  that it implements `BreakerPromise` step by step. Of `DegradationManager`, `WalkIsStable`. A
  loop has to be known to hold `dm.mu` while it iterates, so the invariant counts: the readers
  of `mu` are the loops that hold it once and twice those that hold it twice
  (`ReadersCounted`), and only loops do (`HeldByLoops`). The same invariant gives that each
  managed breaker keeps `CountsDecide`.
- **`ResilienceProofs`**: of `ResilienceCalls`, the same as of the other breaker and
  `TestsBounded`, `CoolDownPeriodIsTested`. `TestsBounded` needs `AdmittedAreCounted`: the ghost
  count of admissions exceeds `halfOpenRequests` by at most the one request that is not
  counted. Of `ResilienceManager`, `NoStrayBreaker`: whoever holds or has copied a breaker got
  it from a map that never drops an entry (`Traced`). Of `CacheStore`, `OrderIsRecency`, which
  is inductive as it stands; the work is in what the operators on the order return: removing
  keys from an injective sequence, one or many, leaves the others in it once and in order.
- **`HotReloadProofs`**: of `HotReload`, `RunsCurrent`, `OneConfigProbed`, `NeverGoesBack`. The
  invariant follows the configuration from the file to the collectors: loaded is never newer
  than the file, a collector never newer than what is being applied to it, and one already
  visited runs with exactly what was loaded. Of `Configuration`, `OnlyOverlookedKills` and
  `ReloadIsRestart`, whatever the settings are called and say: the collectors follow the
  adopted configuration (`Follow`: those of a reload, or at the start exactly those created),
  the configuration begun with and the adopted one were both accepted, and a process has failed
  only for a reason in the first and crashed only for one in the second. Of the validators only the checks that somebody repeats
  later are unfolded, and Effective not at all: nothing depends on how settings are laid over
  each other, only on the reload and the restart taking the same result.
- **`SchedulerProofs`**: `ScheduleAlive` and `NoRearmAfterStop`. The invariant says which
  chain's run holds `schedule.mu`, that the stopped flag follows the caller's place, that a
  schedule already visited by Stop has no run about to arm a timer, and that while Start is at
  work an enabled schedule is still to be visited or has a chain. None of it depends on
  `s.mu`: what makes Stop final is that the flag is read and the timer armed under one
  `schedule.mu`.
- **`CollectingProofs`**: of `ConcurrentCollector`, `SlotsAccounted`, `ResultsComplete` and
  `PanicOnlyByReuse`. The invariant ties every goroutine's place to the wait group (counted
  from the moment it is started until it is done), and the waiter's to the channel: it closes
  only when no goroutine of its call can still send. Of `Orchestrator`, `TimersAlive`, inductive
  once Start's number is one it can give (`StartNumbered`). Of `CollectPipe`, `MetricsDelivered`:
  until the context is done, a metric is in the channel, gathered, in the forwarder's hand or
  delivered, an equation for each wrapper (`LoggingKeeps`, `DegradedKeeps`), and Collect returns
  after its collector and its forwarder (`ReturnedLast`).
- **`ScrapeProofs`**: of `CardinalityManager`, `LimitHolds`. What is inductive is sharper: usage
  plus the callers that have passed this dimension's comparison and not yet counted stays below
  the loosest bound plus the number of callers, and one that compares holds a copy of a limit no
  looser than `allowed`. Every step of `Scrape` is a step of `CardinalityManager` or leaves it
  alone, so that this carries over. `SamplesAccounted`: who asks the manager is emitting, a
  failed scrape sends nothing, a forwarder that is done has emptied the channel
  (`ScrapeSteady`), and both equations (`UsageIsSent`, `TotalsAgree`). Of `IntelligentCache`,
  `CacheAccounts`: a goroutine between the halves of Get holds an entry it has read; if the
  entry under the key still has that id it has that size (`IdsTell`), so that what Get subtracts
  is what it removes unless the deletion is late.
- **`ServingProofs`**: of `HttpServer`, `OneAnswer`: what the serving goroutine, the handler's,
  the mark, the header and `tw.mu` know of each other (`Agree`), and the gauge as the number of
  handlers (`Gauge`). Of `HealthChecker`, `ReportIsWorst`: each check asked is running, sent or
  received, with one result (`OnePlace`), so their numbers add up (`AllCounted`) and the loop
  that receives as many as it has asked has received them all. `Serving` implements both
  specifications (`ServingUsesBoth`), whence both hold of the health endpoints; that an
  answer's code tells a finished report (`AnswersTellReports`) follows from the two together.
  `AnswersAreFinal`: no step changes a status that was sent, text of one side is never followed
  by the other's, and an answer whose serving goroutine has returned is left alone.
- **`SupportProofs`**: of `Lifecycle`, `ZeroMeansClean`: every hook behind main's position has
  ended well or is among the failures, though the goroutine of a hook given up may end well
  later (`PassedHooksReported`); the server's hook ends well only with nobody in flight
  (`ServerHookTrue`). Of `BatchProcessor`, `ItemsConserved`: besides the places, no two batches
  and no two goroutines hold one item (`HandledOnce`); and that it implements `ItemLife`
  (`BatchesKeepItemLife`), which mentions no batch, loop or flush: Add is Accept, taking a batch
  is TakeUp of what it holds, the last attempt is Finish, and the rest are stutters. Of
  `Profiling`, `NothingOutlived`, with what the readers and the writer of the storage's mutex are
  doing (`StorageLocked`). Of `SlurmClient`, `ClientAgrees`: the assignments of requests and
  tests, in any order, never leave a connected client with an error or failed calls, and a
  request fails after exactly RetryAttempts + 1 attempts (`VerdictsAgree`, `AttemptsBounded`).

The sums in `SamplesAccounted` and `CacheAccounts` are written as cardinalities, of a set of
pairs (`Total`, `SizeOf`): a sum over a set is defined by recursion, and a theorem about it would need
induction over an operator, which the provers cannot instantiate. Of cardinalities the library
proves what one more member, one fewer and a union do; the lemmas `TotalRaised`, `TotalWithout`,
`TotalSplit` and `TotalChanged` say the same of sums. For the same reason the orders of the
caches after a removal are described (`Rests`, `RecencyWithout`) rather than computed.

Each proof module also states that the variables keep their types (`TypeCorrect` and the
like, or with the property where that contains them). `OpeningIsCovered` of both breakers,
`CountDecidesState`, `CountsDecide`, `OneConfigProbed`, `AnswerTellsReport`, `NothingTakenBack`,
`VerdictsAgree`, `AttemptsBounded` and `ItemLife` are proved and not asked of the runs.

Model-checked only: every liveness property (`Recovers`, `OperationsReturn`, `Converges`,
`Terminates`, `DisabledStops`, `KeepsCollecting`, `CallsReturn`, `StopEndsTimers`, `PipeReturns`,
`EarlyItemsSettle`, `ProfilingReturns`, `ApiCallsReturn`, `RequestsReturn`, `ScrapesEnd`). Each
rests on fairness, that is on ENABLED, about which the proof system's backends know nothing.

## 6. Not modelled

`PROJECT.json` lists every component with its reason. Most of the source is of three kinds
that a state machine says nothing about: input and output (translation of API answers, HTTP
rendering, logging, tracing, debug pages), declarations of metrics and of options, and the
streaming, analytics and benchmark collectors (the largest files of `internal/collector`),
which compute simulated or floating-point data, each under one mutex, and which nothing but
tests constructs: about two thirds of the implementation's lines. The same holds of adaptive
scheduling and smart filtering. Of what has state:

- The connection pool is always empty, because `newSlurmClient` always fails.
- The requests of the simple collectors go through a dependency; what its calls can do to the
  exporter is in `List`, `Collect` and `Finish`: an answer, an error, or a timeout.
- `DegradedRegistry` adds a map under one mutex to what `DegradationManager` and `CollectPipe`
  model; base collectors keep statistics under one mutex.
- `Registry.Unregister`, `EnableCollector` and `DisableCollector` have no caller outside tests;
  nor have the second reloader of `config.go` (`NewReloader`) and the memory storage of profiles.
- The adaptive times to live of the intelligent cache are floating-point heuristics: in the
  model an entry may expire at any moment.
- Of the configuration: the syntax of YAML, the command line, and options that nothing
  validates and that change no control.

## 7. Plan

Done: the breakers and their manager, degradation manager, hot reload, lifecycle, scheduler,
concurrent collector, orchestrator, batch processor, cardinality manager, scrapes, HTTP
middleware, health checker, caches, profiler and its storage, wrappers, SLURM client,
configuration, and a theorem for every safety property of the runs. To come:

1. What the safety properties of the liveness arguments are: that who waits for `dm.mu`,
   `schedule.mu`, `c.mu` or a slot waits for somebody who can go on, as invariants to be proved.
2. Abstract specifications beyond `BreakerPromise`, `CardinalityManager` and `ItemLife` that a
   detailed one can be proved to implement: the way of a configuration (`HotReload`) and the
   promise of a collection to its caller (`ConcurrentCollector`).
