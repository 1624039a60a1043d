------------------------------- MODULE MCServing -------------------------------
(* Model checking of Serving and of Scrape. A request of a health endpoint *)
(* and two checks: requests share nothing but the cache, which no answer   *)
(* reads, and a gauge. Two overlapping scrapes of two samples of one       *)
(* metric, one of them with a label; a channel that is full with one       *)
(* sample; a limit of one series and one value, with sampling, which the   *)
(* wildcard may have from the start and either pattern may get. Probes and *)
(* scrapes share no state: the two are looked at one at a time, and what   *)
(* has not begun asks for nothing, so that the fairness of both holds.     *)
EXTENDS Serving, Scrape

VARIABLE side    \* the one that is looked at

MCInit ==
  /\ ServingInit /\ ScrapeInit
  /\ side \in {"probes", "scrapes"}
  /\ side = "probes" => limits[Wildcard] = None
  /\ \A m \in Metrics : limits[m] = None

MCNext ==
  /\ \/ side = "probes" /\ ServingNext /\ UNCHANGED scrapeVars
     \/ side = "scrapes" /\ ScrapeNext /\ UNCHANGED servingVars
  /\ UNCHANGED side

MCSpec ==
  /\ MCInit /\ [][MCNext]_<<servingVars, scrapeVars, side>>
  /\ HttpFairness /\ ScrapeFairness

MCSamples == [metric : Metrics, labels : SUBSET Labels]

MCLimits == {[bound |-> [d \in Dimensions |-> 1], sampled |-> TRUE]}
=============================================================================
