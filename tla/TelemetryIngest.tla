--------------------------- MODULE TelemetryIngest ---------------------------
(***************************************************************************)
(* What the unattended jobs read and whom they serve: the scheduler's list *)
(* of subscriptions, which two jobs extend while two walk over it          *)
(* (futuris/infra/scheduler.py), and the connectors the jobs read from     *)
(* (futuris/connectors/).                                                  *)
(*                                                                         *)
(* The scheduler that app.py builds is given no observation repository, so *)
(* what the ingest job fetches is counted and dropped.  The subscriptions  *)
(* that are no trading pairs are left out.                                 *)
(***************************************************************************)
EXTENDS Integers, FiniteSets, Sequences

CONSTANTS
  Pairs,         (* trading pairs Stratex may report as active, in order  *)
  Defaults,      (* ... and those every discovery adds                    *)
  FirstPairs,    (* the pairs subscribed from the start: a list           *)
  IngestJob, RefreshJob, BacktestJob,
  Day            (* instants between the start and the end of a fetch     *)

ASSUME IngestAssumption ==
  /\ Pairs \subseteq Nat /\ IsFiniteSet(Pairs) /\ Defaults \subseteq Pairs
  /\ FirstPairs \in Seq(Pairs)
  /\ \A i, k \in DOMAIN FirstPairs : FirstPairs[i] = FirstPairs[k] => i = k

VARIABLES
  source,        (* settings.FUTURIS_TELEMETRY_SOURCE                     *)
  subscriptions, (* ForecastScheduler.subscriptions                       *)
  job,           (* job[j]: its step, the targets listed when it started, *)
                 (* the position of its loop, the target in hand and the  *)
                 (* targets it has served                                 *)
  session        (* the scheduler's session: "sound" or "failed"          *)

ingestVars == <<source, subscriptions, job, session>>

Jobs == {IngestJob, RefreshJob, BacktestJob}
Subscribed == {subscriptions[i] : i \in DOMAIN subscriptions}
Dormant == [step |-> "idle", listed |-> {}, at |-> 1, hand |-> 0, served |-> {}]

IngestInit ==
  /\ source \in {"synthetic", "nexus", "vyralx"}
  /\ subscriptions = FirstPairs /\ session = "sound"
  /\ job = [j \in Jobs |-> Dormant]

-----------------------------------------------------------------------------
(* The connectors.  An answer is [code, bad]: its status, and the instants *)
(* whose row cannot be parsed.                                             *)

Answers == [code : {200, 503}, bad : SUBSET (1 .. Day)]
Raises == [raised |-> TRUE, rows |-> {}]
Rows(instants) == [raised |-> FALSE, rows |-> instants]

\* raise_for_status, and a loop that any malformed row ends.
NexusRows(answer) == IF answer.code # 200 \/ answer.bad # {} THEN Raises ELSE Rows(1 .. Day)

\* Malformed rows are skipped one by one; anything but a 200 is replaced by a
\* made-up series over the same window.
VyralxRows(answer) == Rows(IF answer.code = 200 THEN (1 .. Day) \ answer.bad ELSE 1 .. Day)

\* The generator asks nobody.
SyntheticRows == Rows(1 .. Day)

Fetched(answer) ==
  CASE source = "synthetic" -> SyntheticRows
    [] source = "vyralx" -> VyralxRows(answer)
    [] OTHER -> NexusRows(answer)

\* The pipeline refuses an empty list of observations.
Telemetry == \E answer \in Answers : ~Fetched(answer).raised /\ Fetched(answer).rows # {}

-----------------------------------------------------------------------------
(* sync_dynamic_trading_subscriptions, called by the ingest and the        *)
(* refresh job.                                                            *)

StartJob(j) ==
  /\ j # BacktestJob /\ job[j].step = "idle"
  /\ job' = [job EXCEPT ![j] = [Dormant EXCEPT !.step = "discovering", !.listed = Subscribed]]
  /\ UNCHANGED <<source, subscriptions, session>>

\* The mutant: as the job found the list at its start.
MutantKnownAtStart(j) == job[j].listed

\* existing_targets is read when Stratex has answered.
Known(j) == Subscribed

\* Stratex's pairs with the default ones, in the order of sorted(): the only one there is.
Sorted(found) ==
  {s \in [1 .. Cardinality(found) -> found] : \A i, k \in DOMAIN s : i < k => s[i] < s[k]}

Synced(j) == [Dormant EXCEPT !.step = IF j = IngestJob THEN "fetching" ELSE "walking"]

Discovered(j, active) ==
  /\ job[j].step = "discovering"
  /\ \E new \in Sorted((active \cup Defaults) \ Known(j)) : subscriptions' = subscriptions \o new
  /\ job' = [job EXCEPT ![j] = Synced(j)]
  /\ UNCHANGED <<source, session>>

\* Whatever the discovery raises is logged, and the job goes on with the list as it is.
SyncFails(j) ==
  /\ job[j].step = "discovering"
  /\ job' = [job EXCEPT ![j] = Synced(j)]
  /\ UNCHANGED <<source, subscriptions, session>>

-----------------------------------------------------------------------------
(* The jobs.                                                               *)

\* ingest_job: a day is fetched, or the connector raises and ends the job.
IngestFetched ==
  /\ job[IngestJob].step = "fetching"
  /\ job' = [job EXCEPT ![IngestJob] = Dormant]
  /\ UNCHANGED <<source, subscriptions, session>>

\* backtest_nightly_job looks for no new pairs.
StartBacktest ==
  /\ job[BacktestJob].step = "idle"
  /\ job' = [job EXCEPT ![BacktestJob] = [Dormant EXCEPT !.step = "walking"]]
  /\ UNCHANGED <<source, subscriptions, session>>

\* for sub in self.subscriptions: the iterator keeps a position, and looks at the
\* list as it is when it is asked for the next element.
TakeNext(j) ==
  LET p == job[j] IN
  /\ p.step = "walking"
  /\ job' = [job EXCEPT ![j] =
       IF p.at > Len(subscriptions) THEN Dormant
       ELSE [p EXCEPT !.step = "serving", !.hand = subscriptions[p.at], !.at = p.at + 1]]
  /\ UNCHANGED <<source, subscriptions, session>>

\* The target in hand is forecast (or backtested), and what came of it is flushed.
Serve(j) ==
  LET p == job[j] IN
  /\ p.step = "serving" /\ session = "sound"
  /\ j = RefreshJob => Telemetry
  /\ job' = [job EXCEPT ![j] = [p EXCEPT !.step = "walking", !.served = p.served \cup {p.hand}]]
  /\ UNCHANGED <<source, subscriptions, session>>

\* An exception (a connector's, a model's, the session's) ends the whole pass.
PassBreaks(j) ==
  /\ job[j].step = "serving"
  /\ job' = [job EXCEPT ![j] = Dormant]
  /\ UNCHANGED <<source, subscriptions, session>>

\* A flush that fails ends it too, and leaves a session that nobody rolls back.
FlushFails(j) ==
  /\ job[j].step = "serving" /\ session = "sound"
  /\ job' = [job EXCEPT ![j] = Dormant] /\ session' = "failed"
  /\ UNCHANGED <<source, subscriptions>>

IngestNext ==
  \/ \E j \in Jobs : StartJob(j) \/ \E active \in SUBSET Pairs : Discovered(j, active)
  \/ \E j \in Jobs : SyncFails(j) \/ TakeNext(j) \/ Serve(j) \/ PassBreaks(j) \/ FlushFails(j)
  \/ IngestFetched \/ StartBacktest

IngestSpec == IngestInit /\ [][IngestNext]_ingestVars

-----------------------------------------------------------------------------
Behind(j) == job[j].served \cup (IF job[j].step = "serving" THEN {job[j].hand} ELSE {})
StillAhead(j) == {subscriptions[i] : i \in job[j].at .. Len(subscriptions)}

(* However discoveries overlap with each other and with the loops that     *)
(* await a forecast for every element of the same list (scheduler.py:106,  *)
(* 155, 244): no pair is subscribed twice, and at every moment of a pass   *)
(* each pair subscribed by then is either behind the pass or still ahead   *)
(* of it, never both and never neither; so a pass that ends unbroken has   *)
(* served every pair subscribed when it ends, each once.                   *)
PassesServeEachOnce ==
  /\ \A i, k \in DOMAIN subscriptions : subscriptions[i] = subscriptions[k] => i = k
  /\ \A j \in Jobs : job[j].step \in {"walking", "serving"} =>
       /\ Behind(j) \cup StillAhead(j) = Subscribed
       /\ Behind(j) \cap StillAhead(j) = {}
       /\ job[j].step = "serving" => job[j].hand \notin job[j].served
=============================================================================
