---------------------------- MODULE CollectPipe -----------------------------
(***************************************************************************)
(* A wrapper of internal/collector between a collector and the channel of  *)
(* its caller: LoggingCollector (logging.go) forwards the metrics while    *)
(* they come, DegradedCollector (degraded_collector.go) gathers them first *)
(* and sends them when the collector has succeeded; what the degradation   *)
(* manager serves in place of a failed collection is DegradationManager's. *)
(* The collector sends to a buffered channel of the wrapper's, and looks   *)
(* at no context.                                                          *)
(***************************************************************************)
EXTENDS Naturals

CONSTANTS
  PipeCapacity,   \* of metricChan
  MaxMetrics      \* bound: metrics that the collector sends

ASSUME PipeAssumption == PipeCapacity \in Nat \ {0} /\ MaxMetrics \in Nat

VARIABLES
  wrapper,     \* "logging" or "degraded"
  pipeDone,
  inner,       \* the collector: "idle", "working", "sending", "ok", "failed"
  sent,        \* metrics that it has sent
  buffered,    \* len(metricChan); the channel is closed when inner returns
  forwarder,   \* the goroutine that reads it, of logging, or Collect itself,
               \* of degraded: "reading", "sending" or "gone"
  gathered,    \* metrics of degraded that are yet to be sent
  delivered,   \* metrics that the caller has read
  collect      \* Collect: "idle", "waiting" or "returned"

pipeVars == <<wrapper, pipeDone, inner, sent, buffered, forwarder, gathered,
              delivered, collect>>

Logging == wrapper = "logging"
InnerReturned == inner \in {"ok", "failed"}
Drained == InnerReturned /\ buffered = 0

PipeInit ==
  /\ wrapper \in {"logging", "degraded"}
  /\ pipeDone = FALSE
  /\ inner = "idle" /\ forwarder = "reading" /\ collect = "idle"
  /\ sent = 0 /\ buffered = 0 /\ gathered = 0 /\ delivered = 0

PipeCollect ==
  /\ collect = "idle" /\ collect' = "waiting"
  /\ inner' = "working"
  /\ UNCHANGED <<wrapper, pipeDone, sent, buffered, forwarder, gathered, delivered>>

PipeCtxDone ==
  /\ collect = "waiting" /\ ~pipeDone /\ pipeDone' = TRUE
  /\ UNCHANGED <<wrapper, inner, sent, buffered, forwarder, gathered, delivered, collect>>

-----------------------------------------------------------------------------
InnerWants ==
  /\ inner = "working" /\ sent < MaxMetrics /\ inner' = "sending"
  /\ UNCHANGED <<wrapper, pipeDone, sent, buffered, forwarder, gathered, delivered, collect>>

InnerSends ==
  /\ inner = "sending" /\ buffered < PipeCapacity
  /\ inner' = "working" /\ sent' = sent + 1 /\ buffered' = buffered + 1
  /\ UNCHANGED <<wrapper, pipeDone, forwarder, gathered, delivered, collect>>

InnerReturns ==
  /\ inner = "working" /\ inner' \in {"ok", "failed"}
  /\ UNCHANGED <<wrapper, pipeDone, sent, buffered, forwarder, gathered, delivered, collect>>

-----------------------------------------------------------------------------
Read ==
  /\ forwarder = "reading" /\ buffered > 0
  /\ buffered' = buffered - 1
  /\ IF Logging THEN forwarder' = "sending" /\ UNCHANGED gathered
                ELSE gathered' = gathered + 1 /\ UNCHANGED forwarder
  /\ UNCHANGED <<wrapper, pipeDone, inner, sent, delivered, collect>>

\* The loop over metricChan ends when it is closed and empty.
ReadEnd ==
  /\ forwarder = "reading" /\ Drained /\ collect = "waiting"
  /\ forwarder' = IF Logging THEN "gone" ELSE "sending"
  /\ gathered' = IF inner = "ok" THEN gathered ELSE 0
  /\ UNCHANGED <<wrapper, pipeDone, inner, sent, buffered, delivered, collect>>

\* The caller reads: logging goes back for the next metric, degraded has the
\* rest to send.
Forward ==
  /\ forwarder = "sending" /\ (Logging \/ gathered > 0)
  /\ delivered' = delivered + 1
  /\ IF Logging THEN forwarder' = "reading" /\ UNCHANGED gathered
                ELSE gathered' = gathered - 1 /\ UNCHANGED forwarder
  /\ UNCHANGED <<wrapper, pipeDone, inner, sent, buffered, collect>>

\* Mutation: the select of degraded has no second case, and its caller has
\* stopped reading.
GiveUpLogging ==
  /\ forwarder = "sending" /\ pipeDone /\ Logging
  /\ forwarder' = "gone"
  /\ UNCHANGED <<wrapper, pipeDone, inner, sent, buffered, gathered, delivered, collect>>

\* The context is done: the select may take that case, and what is left is
\* not sent. Logging leaves metricChan to fill up.
GiveUpSending ==
  /\ forwarder = "sending" /\ pipeDone /\ (Logging \/ gathered > 0)
  /\ forwarder' = "gone"
  /\ UNCHANGED <<wrapper, pipeDone, inner, sent, buffered, gathered, delivered, collect>>

\* Mutation: logging does not wait for its forwarder.
PipeReturnEarly ==
  /\ collect = "waiting" /\ InnerReturned
  /\ Logging \/ forwarder = "gone" \/ (forwarder = "sending" /\ gathered = 0)
  /\ collect' = "returned"
  /\ UNCHANGED <<wrapper, pipeDone, inner, sent, buffered, forwarder, gathered, delivered>>

PipeReturn ==
  /\ collect = "waiting" /\ InnerReturned
  /\ \/ forwarder = "gone"
     \/ ~Logging /\ forwarder = "sending" /\ gathered = 0
  /\ collect' = "returned"
  /\ UNCHANGED <<wrapper, pipeDone, inner, sent, buffered, forwarder, gathered, delivered>>

-----------------------------------------------------------------------------
PipeNext ==
  \/ PipeCollect \/ PipeCtxDone
  \/ InnerWants \/ InnerSends \/ InnerReturns
  \/ Read \/ ReadEnd \/ Forward \/ GiveUpSending \/ PipeReturn

\* The collector works to its end if its sends do. A caller whose context is
\* done need not read any more.
PipeFairness ==
  /\ WF_pipeVars(InnerWants \/ InnerSends \/ InnerReturns)
  /\ WF_pipeVars(Read \/ ReadEnd \/ (Forward /\ ~pipeDone) \/ GiveUpSending)
  /\ WF_pipeVars(PipeReturn)

PipeSpec == PipeInit /\ [][PipeNext]_pipeVars /\ PipeFairness

-----------------------------------------------------------------------------
PipeTypeOK ==
  /\ sent \in 0..MaxMetrics /\ buffered \in 0..PipeCapacity
  /\ gathered \in 0..MaxMetrics /\ delivered \in 0..MaxMetrics
  /\ inner \in {"idle", "working", "sending", "ok", "failed"}
  /\ forwarder \in {"reading", "sending", "gone"}
  /\ collect \in {"idle", "waiting", "returned"}

\* When Collect returns before its context is done, the caller has read every
\* metric of the collector, or, from degraded, none of a failed one; what was
\* not read is lost only with the context.
MetricsDelivered ==
  /\ PipeTypeOK
  /\ collect = "returned" /\ ~pipeDone =>
       delivered = IF ~Logging /\ inner = "failed" THEN 0 ELSE sent

\* The forwarder of logging has left a collector that fills the channel.
Abandoned == Logging /\ forwarder = "gone" /\ inner = "sending" /\ buffered = PipeCapacity

\* Collect returns, though its caller stops reading when the context is done,
\* unless the forwarder of logging has left and the channel is full: that is
\* the only way to hang.
PipeReturns == [](~Abandoned) => (collect = "waiting" ~> collect = "returned")

\* What LoggingCollector claims with "Wait for collection to complete": the
\* wait ends.
LoggingReturns == collect = "waiting" ~> collect = "returned"
=============================================================================
