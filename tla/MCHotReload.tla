----------------------------- MODULE MCHotReload -----------------------------
(* Model checking of the two modules on the configuration: its reload with *)
(* three collectors, one of which the reload does not know, and three      *)
(* configurations; and its contents, with files of up to two settings,     *)
(* nine environments and two changes of the file. They share no state, and *)
(* are looked at one at a time; nothing temporal is asked of the settings. *)
EXTENDS HotReload, Configuration

VARIABLE side    \* the one that is looked at

MCInit ==
  /\ Init /\ ConfigInit
  /\ side \in {"reload", "settings"}
  /\ side = "reload" => content = {} /\ environ = {}
  /\ side = "settings" => file = Version(CHOOSE c \in Configs : TRUE, 0)

MCNext ==
  /\ \/ side = "reload" /\ Next /\ UNCHANGED configVars
     \/ side = "settings" /\ ConfigNext /\ UNCHANGED vars
  /\ UNCHANGED side

MCSpec == MCInit /\ [][MCNext]_<<vars, configVars, side>> /\ Fairness

Set(section, option, value) == <<section, option, TRUE, value>>
Garbled(section, option, value) == <<section, option, FALSE, value>>

\* At least one setting for every check of the validators, and those that
\* matter to main and to the registry.
MCFileSettings ==
  { Set("server", "address", "unusable"),
    Set("server", "metrics_path", "/health"), Set("server", "timeout", 0),
    Set("server", "read_timeout", 60), Set("server", "read_timeout", 121),
    Set("tls", "enabled", TRUE), Set("tls", "cert_file", "good"),
    Set("tls", "cipher_suites", "others"), Set("tls", "min_version", "1.3"),
    Set("slurm", "base_url", "unusable"),
    Set("basic_auth", "enabled", TRUE), Set("slurm", "base_url", "ftp"),
    Set("slurm", "base_url", "http remote"), Set("slurm", "timeout", 10),
    Set("auth", "type", "basic"), Set("auth", "type", "jwt"),
    Set("auth", "type", "apikey"), Set("auth", "api_key_file", "blank"),
    Set("auth", "token", "good"),
    Set("auth", "password", "good"), Set("auth", "token_file", "good"),
    Set("auth", "password_file", "blank"),
    Set("global", "default_interval", 5), Set("global", "recovery_delay", 0),
    Set("jobs", "enabled", FALSE), Set("jobs", "labels", "fresh"),
    Set("jobs", "labels", "clash"), Set("jobs", "labels", "illegal"),
    Set("jobs", "include", {"slurm_job_state"}), Set("jobs", "only", {"counters"}),
    Set("jobs", "enable_all", FALSE), Set("nodes", "labels", "clash"),
    Set("nodes", "interval", 0), Set("system", "enabled", FALSE),
    Set("users", "enabled", FALSE), Set("users", "max_retry_delay", 1),
    Set("qos", "timeout", 20), Set("licenses", "enabled", FALSE),
    Set("licenses", "interval", 0), Set("associations", "enabled", TRUE),
    Set("degradation", "cache_ttl", 0), Set("logging", "output", "file"),
    Set("logging", "file", "unusable"),
    Set("cardinality", "warn_limit", 10000), Set("health", "timeout", 30),
    Set("debug", "enabled", TRUE), Set("caching", "base_ttl", 0),
    Garbled("slurm", "timeout", 30) }

\* Settings on their own, one the code does not ask for among them, and those
\* that let the server do TLS.
MCEnvironments ==
  { {}, {Set("auth", "type", "basic")}, {Set("auth", "username", "slurm")},
    {Set("jobs", "enabled", FALSE)}, {Set("tls", "key_file", "blank")},
    {Set("basic_auth", "username", "admin")}, {Set("jobs", "labels", "fresh")},
    {Garbled("slurm", "timeout", 30)},
    {Set("tls", "enabled", TRUE), Set("tls", "cert_file", "good"),
     Set("tls", "key_file", "good")} }
=============================================================================
