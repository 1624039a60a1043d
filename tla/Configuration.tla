---------------------------- MODULE Configuration ----------------------------
(***************************************************************************)
(* The configuration of the exporter: its defaults, the file, the          *)
(* environment that overrides it, and the validators of                    *)
(* internal/config/config.go and validation.go; main, which starts the     *)
(* client, the collectors and the server from it; and the reload, which    *)
(* gives the running collectors another one.                               *)
(*                                                                         *)
(* A configuration is a record of sections, a section a record of options. *)
(* Durations are in seconds, fractions in thousandths. A file a            *)
(* configuration names is "" (not named), "missing", "blank" (nothing      *)
(* usable in it) or, with any other name, good. An address is "unusable"   *)
(* when the host does not let the server listen on it, a log file when its *)
(* directory cannot be made, and a base_url when the client library makes  *)
(* no client of it, whatever the reason. Custom labels are "none",         *)
(* "fresh", "clash" (a name the collector's metrics use themselves) or     *)
(* "illegal"; a metric pattern is "empty", "bad" or anything else.         *)
(*                                                                         *)
(* Left out: options that nothing validates and that change no control,    *)
(* and the command line, which main applies after the validation.          *)
(***************************************************************************)
EXTENDS Integers, FiniteSets, FiniteSetsExt, TLC

CONSTANTS
  FileSettings,     \* settings a file may hold
  Environments,     \* environments of the process, each a set of settings
  SettingBound,     \* bound of the model: settings in a file
  ChangeBound       \* bound of the model: how often the file changes

ASSUME SettingsAssumption ==
  SettingBound \in Nat /\ ChangeBound \in Nat

VARIABLES
  content,      \* the settings in the file
  changes,      \* how often the file has changed
  environ,      \* the settings in the environment of the process
  process,      \* "down", "up", "rejected", "failed" or "crashed"
  watched,      \* hot reload is enabled
  begun,        \* the content the process started from: its server's
  adopted,      \* the content it last reloaded: its collectors'
  collectors    \* registered collectors, with what each was configured to

configVars == <<content, changes, environ, process, watched, begun, adopted, collectors>>

-----------------------------------------------------------------------------
(* Default                                                                 *)

ServerDefaults ==
  [ server |-> [address |-> ":8080", metrics_path |-> "/metrics",
                health_path |-> "/health", ready_path |-> "/ready", timeout |-> 30,
                read_timeout |-> 15, write_timeout |-> 10, idle_timeout |-> 60,
                max_request_size |-> 1048576],
    tls |-> [enabled |-> FALSE, cert_file |-> "", key_file |-> "", min_version |-> "",
             cipher_suites |-> "default"],
    basic_auth |-> [enabled |-> FALSE, username |-> "", password |-> ""],
    slurm |-> [base_url |-> "http local", api_version |-> "", timeout |-> 30,
               retry_attempts |-> 3, retry_delay |-> 5],
    auth |-> [type |-> "none", token |-> "", token_file |-> "", username |-> "",
              password |-> "", password_file |-> "", api_key |-> "",
              api_key_file |-> ""],
    rate_limit |-> [requests_per_second |-> 10000, burst_size |-> 20] ]

GlobalDefaults ==
  [ global |-> [default_interval |-> 30, default_timeout |-> 10, max_concurrency |-> 5,
                error_threshold |-> 5, recovery_delay |-> 60] ]

\* A section that Default does not mention holds Go's zero values.
Unmentioned ==
  [enabled |-> FALSE, interval |-> 0, timeout |-> 0, max_concurrency |-> 0,
   max_retries |-> 0, retry_delay |-> 0, backoff_factor |-> 0, max_retry_delay |-> 0,
   enable_all |-> FALSE, include |-> {}, exclude |-> {}, only |-> {}, skip |-> {},
   labels |-> "none"]

Mentioned(on, every) ==
  [Unmentioned EXCEPT !.enabled = on, !.interval = every, !.timeout = 10,
                      !.max_retries = 3, !.retry_delay = 5, !.backoff_factor = 2000,
                      !.max_retry_delay = 60, !.enable_all = TRUE]

CollectorDefaults ==
  [n \in {"cluster", "nodes", "diagnostics"} |-> Mentioned(TRUE, 30)]
    @@ [n \in {"users", "partitions", "system", "qos", "reservations", "licenses", "tres"}
          |-> Mentioned(TRUE, 60)]
    @@ [jobs |-> Mentioned(TRUE, 15), performance |-> Mentioned(FALSE, 30),
        shares |-> Mentioned(TRUE, 120), clusters |-> Mentioned(TRUE, 300),
        wckeys |-> [Mentioned(FALSE, 300) EXCEPT !.enable_all = FALSE],
        accounts |-> Unmentioned, associations |-> Unmentioned]

DegradationDefaults ==
  [ timeouts |-> [collection_timeout |-> 30],
    degradation |-> [enabled |-> TRUE, max_failures |-> 3, reset_timeout |-> 300,
                     use_cached_metrics |-> TRUE, cache_ttl |-> 600],
    logging |-> [level |-> "info", format |-> "json", output |-> "stdout", file |-> "",
                 max_size |-> 0, max_age |-> 0, max_backups |-> 0],
    metrics |-> [namespace |-> "slurm", max_age |-> 300, age_buckets |-> 5],
    cardinality |-> [max_series |-> 10000, max_labels |-> 100, max_label_size |-> 1024,
                     warn_limit |-> 8000] ]

ObservabilityDefaults ==
  [ performance_monitoring |-> [enabled |-> TRUE, interval |-> 30,
        memory_threshold |-> 104857600, cpu_threshold |-> 80, cardinality_update |-> 60],
    tracing |-> [enabled |-> FALSE, sample_rate |-> 10, endpoint |-> "localhost:4317"],
    adaptive |-> [enabled |-> TRUE, min_interval |-> 30, max_interval |-> 300,
                  base_interval |-> 60, score_window |-> 600],
    smart_filtering |-> [enabled |-> TRUE, noise_threshold |-> 800, cache_size |-> 10000,
                         learning_window |-> 100, variance_limit |-> 800,
                         correlation_min |-> 200],
    circuit_breaker |-> [enabled |-> TRUE, failure_threshold |-> 5, reset_timeout |-> 30,
                         half_open_requests |-> 3],
    health |-> [enabled |-> TRUE, interval |-> 30, timeout |-> 10,
                checks |-> {"slurm_api", "collectors", "memory"}],
    endpoints |-> [enabled |-> TRUE, path |-> "/health", ready_path |-> "/ready",
                   live_path |-> "/live"],
    debug |-> [enabled |-> FALSE, require_auth |-> TRUE, username |-> "debug",
               password |-> "",
               enabled_endpoints |-> {"collectors", "tracing", "patterns", "scheduler",
                                      "health", "runtime", "config", "cache"}],
    caching |-> [intelligent |-> TRUE, base_ttl |-> 60, max_entries |-> 50000,
                 cleanup_interval |-> 300],
    adaptive_ttl |-> [enabled |-> TRUE, min_ttl |-> 30, max_ttl |-> 1800,
                      stability_window |-> 600, variance_threshold |-> 100,
                      change_threshold |-> 50, extension_factor |-> 2000,
                      reduction_factor |-> 500],
    batch_processing |-> [enabled |-> TRUE, max_batch_size |-> 1000, max_batch_wait |-> 5,
                          flush_interval |-> 10, max_concurrency |-> 4],
    validation |-> [allow_insecure |-> FALSE] ]

Default == ServerDefaults @@ GlobalDefaults @@ CollectorDefaults @@ DegradationDefaults
             @@ ObservabilityDefaults

-----------------------------------------------------------------------------
(* Load: the file over the defaults, the environment over both. A setting  *)
(* is <<section, option, readable, value>>; one that is not readable is    *)
(* what yaml, ParseDuration, ParseBool or Atoi refuses.                    *)

Section(s) == s[1]
Option(s) == s[2]
Readable(s) == s[3]
Value(s) == s[4]

Adopt(config, settings) ==
  FoldSet(LAMBDA s, c : [c EXCEPT ![Section(s)][Option(s)] = Value(s)], config, settings)

ServerOverrides ==
  [ server |-> DOMAIN ServerDefaults.server,
    tls |-> {"enabled", "cert_file", "key_file"},
    basic_auth |-> DOMAIN ServerDefaults.basic_auth ]

SLURMOverrides ==
  [slurm |-> DOMAIN ServerDefaults.slurm, auth |-> DOMAIN ServerDefaults.auth,
   rate_limit |-> DOMAIN ServerDefaults.rate_limit]

\* The collectors Validate knows; those ValidateEnhanced knows.
Validated == {"cluster", "nodes", "jobs", "users", "partitions", "performance", "system",
              "qos", "reservations"}
Enhanced == Validated \cup {"accounts", "associations"}

CollectorsOverrides ==
  [n \in Validated |-> {"enabled", "interval", "timeout", "max_concurrency"}]
    @@ [global |-> {"default_interval", "default_timeout", "max_concurrency"}]

LoggingOverrides == [logging |-> DOMAIN DegradationDefaults.logging]

MetricsOverrides ==
  [metrics |-> DOMAIN DegradationDefaults.metrics,
   cardinality |-> DOMAIN DegradationDefaults.cardinality]

Overrides == ServerOverrides @@ SLURMOverrides @@ CollectorsOverrides @@ LoggingOverrides
               @@ MetricsOverrides

\* What is left of the environment: the variables the code asks for.
Heeded == {s \in environ : Section(s) \in DOMAIN Overrides
                             /\ Option(s) \in Overrides[Section(s)]}

Effective(settings) == Adopt(Adopt(Default, settings), Heeded)

-----------------------------------------------------------------------------
(* Validate                                                                *)

Positive(section, options) == \A o \in options : section[o] > 0
NonNegative(section, options) == \A o \in options : section[o] >= 0
Given(section, options) == \A o \in options : section[o] # ""
Fractions(section, options) == \A o \in options : section[o] \in 0..1000

ServerValid(c) ==
  /\ Given(c.server, {"address", "metrics_path", "health_path", "ready_path"})
  /\ Positive(c.server, {"timeout", "read_timeout", "write_timeout", "idle_timeout",
                         "max_request_size"})
  /\ c.tls.enabled =>
       Given(c.tls, {"cert_file", "key_file"})
         /\ "missing" \notin {c.tls.cert_file, c.tls.key_file}
  /\ c.basic_auth.enabled => Given(c.basic_auth, {"username", "password"})

\* A secret that is given, or a file for it that exists.
Secret(auth, secret, file) ==
  /\ auth[secret] # "" \/ auth[file] # ""
  /\ auth[file] # "missing"

\* Mutation: a password is enough.
AuthValidWithoutName(auth) ==
  \/ auth.type = "none"
  \/ auth.type = "jwt" /\ Secret(auth, "token", "token_file")
  \/ auth.type = "basic" /\ Secret(auth, "password", "password_file")
  \/ auth.type = "apikey" /\ Secret(auth, "api_key", "api_key_file")

AuthValid(auth) ==
  \/ auth.type = "none"
  \/ auth.type = "jwt" /\ Secret(auth, "token", "token_file")
  \/ auth.type = "basic" /\ auth.username # ""
       /\ Secret(auth, "password", "password_file")
  \/ auth.type = "apikey" /\ Secret(auth, "api_key", "api_key_file")

\* An empty version becomes v0.0.44 here, before NewClient could detect one.
SLURMValid(c) ==
  /\ c.slurm.base_url \in {"http local", "http remote", "https", "unusable"}
  /\ c.slurm.api_version \in {"", "v0.0.40", "v0.0.41", "v0.0.42", "v0.0.43", "v0.0.44"}
  /\ Positive(c.slurm, {"timeout", "retry_delay"})
  /\ NonNegative(c.slurm, {"retry_attempts"})
  /\ AuthValid(c.auth)
  /\ Positive(c.rate_limit, {"requests_per_second", "burst_size"})

ErrorHandlingValid(col) ==
  /\ NonNegative(col, {"max_retries"})
  /\ Positive(col, {"retry_delay", "backoff_factor", "max_retry_delay"})
  /\ col.max_retry_delay >= col.retry_delay

CollectorValid(col) ==
  col.enabled =>
    /\ Positive(col, {"interval", "timeout"})
    /\ NonNegative(col, {"max_concurrency"})
    /\ ErrorHandlingValid(col)

DegradationValid(d) ==
  d.enabled => /\ Positive(d, {"max_failures", "reset_timeout"})
               /\ d.use_cached_metrics => d.cache_ttl > 0

CollectorsValid(c) ==
  /\ Positive(c.global, {"default_interval", "default_timeout", "max_concurrency",
                         "recovery_delay"})
  /\ NonNegative(c.global, {"error_threshold"})
  /\ \A n \in Validated : CollectorValid(c[n])
  /\ DegradationValid(c.degradation)

LoggingValid(l) ==
  /\ l.level \in {"debug", "info", "warn", "error"}
  /\ l.format \in {"json", "text"}
  /\ l.output \in {"stdout", "stderr", "file"}
  /\ l.output = "file" => l.file # ""
  /\ NonNegative(l, {"max_size", "max_age", "max_backups"})

MetricsValid(c) ==
  /\ c.metrics.namespace # ""
  /\ Positive(c.metrics, {"max_age", "age_buckets"})
  /\ Positive(c.cardinality, {"max_series", "max_labels", "max_label_size"})
  /\ c.cardinality.warn_limit \in 0..c.cardinality.max_series

PerformanceMonitoringValid(p) ==
  p.enabled => /\ Positive(p, {"interval", "cardinality_update"})
               /\ NonNegative(p, {"memory_threshold"})
               /\ p.cpu_threshold \in 0..100

TracingValid(t) == t.enabled => Fractions(t, {"sample_rate"}) /\ t.endpoint # ""

AdaptiveCollectionValid(a) ==
  a.enabled => /\ Positive(a, {"min_interval", "max_interval", "base_interval",
                               "score_window"})
               /\ a.min_interval < a.max_interval
               /\ a.base_interval \in a.min_interval..a.max_interval

SmartFilteringValid(s) ==
  s.enabled => /\ Fractions(s, {"noise_threshold", "variance_limit", "correlation_min"})
               /\ Positive(s, {"cache_size", "learning_window"})

CircuitBreakerValid(b) ==
  b.enabled => Positive(b, {"failure_threshold", "reset_timeout", "half_open_requests"})

EndpointsValid(e) == e.enabled => Given(e, {"path", "ready_path", "live_path"})

HealthValid(c) ==
  c.health.enabled =>
    /\ Positive(c.health, {"interval", "timeout"})
    /\ c.health.timeout < c.health.interval
    /\ c.health.checks \subseteq {"slurm_api", "collectors", "memory", "disk", "network"}
    /\ EndpointsValid(c.endpoints)

\* "cache", one of the defaults, is not a valid endpoint.
DebugValid(d) ==
  d.enabled =>
    /\ d.require_auth => Given(d, {"username", "password"})
    /\ d.enabled_endpoints \subseteq {"collectors", "tracing", "patterns", "scheduler",
                                      "health", "runtime", "config"}

AdaptiveTTLValid(a) ==
  a.enabled => /\ Positive(a, {"min_ttl", "max_ttl", "stability_window"})
               /\ a.min_ttl < a.max_ttl
               /\ Fractions(a, {"variance_threshold", "change_threshold"})
               /\ a.extension_factor > 1000
               /\ a.reduction_factor \in 1..999

CachingValid(c) ==
  c.caching.intelligent =>
    /\ Positive(c.caching, {"base_ttl", "max_entries", "cleanup_interval"})
    /\ AdaptiveTTLValid(c.adaptive_ttl)

BatchProcessingValid(b) ==
  b.enabled => Positive(b, {"max_batch_size", "max_batch_wait", "flush_interval",
                            "max_concurrency"})

ObservabilityValid(c) ==
  /\ PerformanceMonitoringValid(c.performance_monitoring)
  /\ TracingValid(c.tracing)
  /\ AdaptiveCollectionValid(c.adaptive)
  /\ SmartFilteringValid(c.smart_filtering)
  /\ CircuitBreakerValid(c.circuit_breaker)
  /\ HealthValid(c)
  /\ DebugValid(c.debug)
  /\ CachingValid(c)
  /\ BatchProcessingValid(c.batch_processing)

BasicValid(c) ==
  /\ ServerValid(c) /\ SLURMValid(c) /\ CollectorsValid(c)
  /\ LoggingValid(c.logging) /\ MetricsValid(c) /\ ObservabilityValid(c)

-----------------------------------------------------------------------------
(* ValidateEnhanced                                                        *)

\* Passwords of fewer than eight characters are "short".
SecurityValid(c) ==
  /\ c.tls.enabled =>
       Given(c.tls, {"cert_file", "key_file"})
         /\ c.tls.min_version \in {"", "1.0", "1.1", "1.2", "1.3"}
  /\ c.basic_auth.enabled =>
       c.basic_auth.username # "" /\ c.basic_auth.password \notin {"", "short"}
  /\ c.auth.type = "jwt" => c.auth.token # ""
  /\ c.slurm.base_url = "http remote" => c.validation.allow_insecure

PerformanceValid(c) ==
  /\ c.global.default_interval >= 10
  /\ c.cardinality.max_series <= 1000000
  /\ c.slurm.timeout <= 300
  /\ c.server.read_timeout <= 120

LabelsValid(col) == col.labels # "illegal"

SelectsMetrics(col) ==
  \/ col.enable_all
  \/ col.include # {} \/ col.exclude # {} \/ col.only # {} \/ col.skip # {}

FiltersValid(col) ==
  /\ SelectsMetrics(col)
  /\ Cardinality(col.only) <= 1
  /\ {"empty", "bad"} \cap (col.include \cup col.exclude) = {}

BusinessLogicValid(c) ==
  /\ \E n \in Enhanced : c[n].enabled
  /\ \A n \in Enhanced : c[n].enabled => LabelsValid(c[n]) /\ FiltersValid(c[n])

CollectionTimeouts(c) ==
  {c.global.default_timeout} \cup {c[n].timeout : n \in {m \in Enhanced : c[m].enabled}}

CrossFieldValid(c) ==
  /\ c.server.read_timeout > 0 =>
       \A t \in CollectionTimeouts(c) : c.server.read_timeout > t
  /\ \A t \in CollectionTimeouts(c) : c.slurm.timeout > t
  /\ c.cardinality.warn_limit < c.cardinality.max_series

ValidEnhanced(c) ==
  /\ BasicValid(c)
  /\ SecurityValid(c) /\ PerformanceValid(c) /\ BusinessLogicValid(c) /\ CrossFieldValid(c)

Loads(settings) ==
  /\ \A s \in settings \cup Heeded : Readable(s)
  /\ ValidEnhanced(Effective(settings))

-----------------------------------------------------------------------------
(* What main makes of a configuration                                      *)

LoggerStarts(l) == l.output = "file" => l.file # "unusable"

\* readSecretFile and LoadX509KeyPair want more than a file that exists.
Good(file) == file \notin {"", "missing", "blank"}

SecretRead(auth, secret, file) == auth[secret] # "" \/ Good(auth[file])

AuthConfigured(auth) ==
  \/ auth.type = "none"
  \/ auth.type = "jwt" /\ SecretRead(auth, "token", "token_file")
  \/ auth.type = "basic" /\ auth.username # ""
       /\ SecretRead(auth, "password", "password_file")
  \/ auth.type = "apikey" /\ SecretRead(auth, "api_key", "api_key_file")

\* NewClient hands base_url to the client library, which may refuse it.
ClientStarts(c) == AuthConfigured(c.auth) /\ c.slurm.base_url # "unusable"

FixedRoutes == {"/health", "/ready", "/live", "/healthz", "/readyz", "/", "/debug/health",
                "/debug/collectors", "/debug/performance"}

\* ServeMux panics on a pattern it knows and on a malformed one, such as one
\* without a slash.
RoutesSetUp(server) == server.metrics_path \notin FixedRoutes \cup {"metrics"}

TLSLoads(tls) ==
  tls.enabled => /\ tls.min_version \in {"", "1.0", "1.1", "1.2", "1.3"}
                 /\ Good(tls.cert_file) /\ Good(tls.key_file)

Labelled == {"jobs", "nodes", "system"}      \* CustomLabelsCollectors
Filterable == {"jobs"}                       \* FilterableCollectors
NeverRegistered == {"accounts", "performance"}
Reconfigured == Enhanced                     \* the switch of ReconfigureCollectors

Filter(col) == [enable_all |-> col.enable_all, include |-> col.include,
                exclude |-> col.exclude, only |-> col.only, skip |-> col.skip]

\* CreateCollectorsFromConfig: the enabled ones; a filter without patterns is
\* not handed over.
Created(c) ==
  [n \in {m \in DOMAIN CollectorDefaults \ NeverRegistered : c[m].enabled} |->
     [enabled |-> TRUE,
      labels |-> IF n \in Labelled THEN c[n].labels ELSE "none",
      filter |-> IF n \in Filterable /\ c[n].include \cup c[n].exclude # {}
                 THEN Filter(c[n]) ELSE Filter(Mentioned(TRUE, 0))]]

\* A descriptor with the same label twice cannot be registered.
Registers(created) == \A n \in DOMAIN created : created[n].labels # "clash"

\* Mutation: only new labels are handed over, as at the start.
ReconfigureNewLabels(registered, c) ==
  [n \in DOMAIN registered |->
     IF n \notin Reconfigured THEN registered[n]
     ELSE [enabled |-> c[n].enabled,
           labels |-> IF n \in Labelled /\ c[n].labels # "none" THEN c[n].labels
                      ELSE registered[n].labels,
           filter |-> IF n \in Filterable THEN Filter(c[n]) ELSE registered[n].filter]]

\* ReconfigureCollectors.
ReconfigureAll(registered, c) ==
  [n \in DOMAIN registered |->
     IF n \notin Reconfigured THEN registered[n]
     ELSE [enabled |-> c[n].enabled,
           labels |-> IF n \in Labelled THEN c[n].labels ELSE registered[n].labels,
           filter |-> IF n \in Filterable THEN Filter(c[n]) ELSE registered[n].filter]]

\* What main does before it serves.
Starts(c) ==
  /\ LoggerStarts(c.logging)
  /\ ClientStarts(c)
  /\ Registers(Created(c))
  /\ RoutesSetUp(c.server)
  /\ TLSLoads(c.tls)

\* net/http serves no HTTP/2 over suites that are all "others" than the one
\* the protocol requires, and no TLS without HTTP/2.
HTTP2Configured(tls) ==
  tls.enabled /\ tls.cipher_suites = "others" => tls.min_version = "1.3"

\* ListenAndServe or ListenAndServeTLS of the server that was made of c.
Listens(c) == c.server.address # "unusable" /\ HTTP2Configured(c.tls)

\* main starts the watcher, which hands the configuration to the collectors
\* again; when it cannot be created there is no hot reload.
Running(c, watching) == IF watching THEN ReconfigureAll(Created(c), c) ELSE Created(c)

-----------------------------------------------------------------------------
NoCollectors == [n \in {} |-> FALSE]

ConfigInit ==
  /\ content \in {{}} \cup {{s} : s \in FileSettings}
  /\ changes = 0
  /\ environ \in Environments
  /\ process = "down"
  /\ watched = FALSE
  /\ begun = {} /\ adopted = {}
  /\ collectors = NoCollectors

\* The file changes in one setting: added, replaced or taken out.
ChangeSetting ==
  /\ changes < ChangeBound
  /\ changes' = changes + 1
  /\ \E s \in FileSettings :
       LET others == {t \in content : <<Section(t), Option(t)>> # <<Section(s), Option(s)>>}
       IN content' \in {others, others \cup {s}} \ {content}
  /\ Cardinality(content') <= SettingBound
  /\ UNCHANGED <<environ, process, watched, begun, adopted, collectors>>

RefuseFile ==
  /\ process = "down"
  /\ ~Loads(content)
  /\ process' = "rejected"
  /\ UNCHANGED <<content, changes, environ, watched, begun, adopted, collectors>>

\* Fatal of main, or a panic of the ServeMux.
FailToStart ==
  /\ process = "down"
  /\ Loads(content)
  /\ ~Starts(Effective(content))
  /\ process' = "failed"
  /\ begun' = content
  /\ UNCHANGED <<content, changes, environ, watched, adopted, collectors>>

StartExporter ==
  /\ process = "down"
  /\ Loads(content)
  /\ Starts(Effective(content))
  /\ process' = "up"
  /\ begun' = content /\ adopted' = content
  /\ watched' \in BOOLEAN
  /\ collectors' = Running(Effective(content), watched')
  /\ UNCHANGED <<content, changes, environ>>

\* The server's goroutine reports that it cannot listen, and main exits with
\* code 1. Nothing that was reloaded meanwhile matters to the server.
ServerFails ==
  /\ process = "up"
  /\ ~Listens(Effective(begun))
  /\ process' = "failed"
  /\ UNCHANGED <<content, changes, environ, watched, begun, adopted, collectors>>

\* A file that does not load changes nothing.
ReloadFile ==
  /\ process = "up" /\ watched
  /\ Loads(content)
  /\ adopted' = content
  /\ collectors' = ReconfigureAll(collectors, Effective(content))
  /\ UNCHANGED <<content, changes, environ, process, watched, begun>>

\* MustNewConstMetric panics on a descriptor that is not valid, in a
\* goroutine of the Prometheus registry.
ScrapePanics ==
  /\ process = "up"
  /\ Listens(Effective(begun))
  /\ \E n \in DOMAIN collectors : collectors[n].enabled /\ collectors[n].labels = "clash"
  /\ process' = "crashed"
  /\ UNCHANGED <<content, changes, environ, watched, begun, adopted, collectors>>

\* The service is stopped, or has ended, and is started again.
EndProcess ==
  /\ process # "down"
  /\ process' = "down"
  /\ watched' = FALSE
  /\ begun' = {} /\ adopted' = {}
  /\ collectors' = NoCollectors
  /\ UNCHANGED <<content, changes, environ>>

ConfigNext ==
  \/ ChangeSetting
  \/ RefuseFile \/ FailToStart \/ StartExporter
  \/ ServerFails \/ ReloadFile \/ ScrapePanics
  \/ EndProcess

ConfigSpec == ConfigInit /\ [][ConfigNext]_configVars

-----------------------------------------------------------------------------
\* What no validator looks at: whether the host lets the server listen and the
\* log directory be made, what is in a secret's file or in the TLS files, what
\* the client library thinks of base_url, HTTP/2's cipher suites, the routes,
\* and the labels of the collectors' own metrics.
Overlooked(c) ==
  \/ c.server.address = "unusable"
  \/ c.logging.output = "file" /\ c.logging.file = "unusable"
  \/ c.slurm.base_url = "unusable"
  \/ "blank" \in {c.auth.token_file, c.auth.password_file, c.auth.api_key_file}
  \/ c.tls.enabled /\ "blank" \in {c.tls.cert_file, c.tls.key_file}
  \/ ~HTTP2Configured(c.tls)
  \/ ~RoutesSetUp(c.server)
  \/ \E n \in Labelled : c[n].enabled /\ c[n].labels = "clash"

\* An exporter whose configuration the validators have accepted fails to start
\* or to listen, or panics in a scrape, only for one of those causes, in the
\* configuration it started from or, for the scrape, last reloaded: of what
\* NewLogger, NewClient, the registry, server.New and the listening server
\* check again, everything else has been checked before (Load and
\* ValidateEnhanced against NewLogger, ConfigureAuth, Register, setupRoutes,
\* createTLSConfig and Start). What ends a running process whatever its
\* configuration, data races and a dying host, is not in this module.
OnlyOverlookedKills ==
  /\ process = "failed" => Overlooked(Effective(begun))
  /\ process = "crashed" => Overlooked(Effective(adopted))

\* The collectors after any sequence of reloads are what a restart with the
\* same file would make of them, but for those a restart would not create,
\* which are disabled; a setting that was taken out of the file is back at
\* its default or at what the environment says (ReconfigureCollectors
\* against CreateCollectorsFromConfig).
ReloadIsRestart ==
  process = "up" =>
    LET restarted == Running(Effective(adopted), watched)
    IN  \A n \in DOMAIN collectors \cap Reconfigured :
          IF n \in DOMAIN restarted THEN collectors[n] = restarted[n]
          ELSE ~collectors[n].enabled

\* "All configuration options can be set via environment variables"
\* (docs/configuration.md): only those of ApplyEnvOverrides can.
EnvironmentPrevails ==
  process = "up" =>
    \A s \in environ : Effective(adopted)[Section(s)][Option(s)] = Value(s)

\* "Must be longer than max collection timeout" (Default, read_timeout): the
\* timeout of six of the collectors is compared with nothing.
CollectionsFitRequest ==
  process = "up" =>
    Effective(adopted).server.read_timeout > Effective(adopted).timeouts.collection_timeout

\* configs/production.yaml names a token_file and no token: SLURMConfig's
\* validator takes it, validateSecurity does not.
TokenFileIsEnough ==
  process = "rejected" =>
    LET c == Effective(content)
    IN  ~(c.auth.type = "jwt" /\ c.auth.token_file = "good" /\ BasicValid(c))
=============================================================================
