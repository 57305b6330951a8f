---------------------------- MODULE MarketAdvisory ----------------------------
(***************************************************************************)
(* Market forecasts and the IntelX webhook that triggers them              *)
(* (futuris/api/routers/market.py, webhooks.py).  Deliveries of one        *)
(* research run race and repeat; the first stores a notice and starts a    *)
(* recalibration in the background.  A recalibration, or a request of a    *)
(* client, gathers context, writes a forecast into its session, publishes  *)
(* an advisory to Memora and answers.                                      *)
(***************************************************************************)
EXTENDS Naturals, FiniteSets

CONSTANTS
  Deliveries,   (* webhook calls                                           *)
  Runs,         (* research runs, the keys of notices                      *)
  Supported,    (* the runs that name a supported symbol                   *)
  Findings,     (* what a notice says                                      *)
  Queries,      (* POST and GET /forecast                                  *)
  Nothing

ASSUME AdvisoryAssumption ==
  Supported \subseteq Runs /\ Runs \cap Queries = {} /\ Nothing \notin Findings

\* A forecast is named by what made it: a run's recalibration, or a query.
Makers == Runs \cup Queries

VARIABLES
  handling,     (* per delivery: phase, run, finding and answer            *)
  notice,       (* the committed notice of each run: finding and status    *)
  memory,       (* the finding Memora holds under the run's key            *)
  making,       (* per maker: how far its forecast is                      *)
  rows,         (* committed forecasts                                     *)
  advised,      (* forecasts with an advisory in Memora's feed             *)
  starts,       (* recalibrations begun per run                            *)
  broken        (* runs whose processing a failure has cut off             *)

advisoryVars == <<handling, notice, memory, making, rows, advised, starts, broken>>

NoNotice == [finding |-> Nothing, status |-> "none"]
Statuses == {"none", "received", "queued", "unsupported", "failed", "forecast_generated"}
Makings == {"idle", "context", "telemetry", "write", "publish", "notify", "report", "teardown",
            "done", "failed", "cut"}
Answers == {"none", "stored", "already_received", "conflict", "unavailable", "error"}

AdvisoryInit ==
  /\ handling = [d \in Deliveries |-> [phase |-> "off", run |-> Nothing, finding |-> Nothing,
                                   answer |-> "none"]]
  /\ notice = [r \in Runs |-> NoNotice]
  /\ memory = [r \in Runs |-> Nothing]
  /\ making = [m \in Makers |-> "idle"]
  /\ rows = {} /\ advised = {} /\ starts = [r \in Runs |-> 0] /\ broken = {}

-----------------------------------------------------------------------------
(* The webhook.                                                             *)

Stage(d, p) == handling' = [handling EXCEPT ![d].phase = p]
Answer(d, a) == handling' = [handling EXCEPT ![d].phase = "answered", ![d].answer = a]
Run(d) == handling[d].run
SameFinding(d) == notice[Run(d)].finding = handling[d].finding

DeliverNotice(d) ==
  /\ handling[d].phase = "off"
  /\ \E r \in Runs, f \in Findings :
       handling' = [handling EXCEPT
         ![d] = [phase |-> "remember", run |-> r, finding |-> f, answer |-> "none"]]
  /\ UNCHANGED <<notice, memory, making, rows, advised, starts, broken>>

\* _persist_notice_to_memora under a key of the run: the first content stays.
RememberRun(d) ==
  /\ handling[d].phase = "remember"
  /\ memory' = [memory EXCEPT ![Run(d)] = IF @ = Nothing THEN handling[d].finding ELSE @]
  /\ Stage(d, "look")
  /\ UNCHANGED <<notice, making, rows, advised, starts, broken>>

\* An earlier notice decides: a repetition, or other content for the same run.
AnswerKnown(d) == Answer(d, IF SameFinding(d) THEN "already_received" ELSE "conflict")

LookForNotice(d) ==
  /\ handling[d].phase = "look"
  /\ IF notice[Run(d)] = NoNotice THEN Stage(d, "insert") ELSE AnswerKnown(d)
  /\ UNCHANGED <<notice, memory, making, rows, advised, starts, broken>>

MutantInsertUpserts(d) ==
  /\ handling[d].phase = "insert"
  /\ notice' = [notice EXCEPT ![Run(d)] = [finding |-> handling[d].finding, status |-> "received"]]
  /\ Stage(d, "mark")
  /\ UNCHANGED <<memory, making, rows, advised, starts, broken>>

\* INSERT and commit; the primary key refuses a second notice, and then the winner decides.
InsertNotice(d) ==
  /\ handling[d].phase = "insert"
  /\ IF notice[Run(d)] = NoNotice
     THEN /\ notice' = [notice EXCEPT
                           ![Run(d)] = [finding |-> handling[d].finding, status |-> "received"]]
          /\ Stage(d, "mark")
     ELSE AnswerKnown(d) /\ UNCHANGED notice
  /\ UNCHANGED <<memory, making, rows, advised, starts, broken>>

\* The commit takes effect, and its acknowledgement is lost: 503, "retry".
InsertUnknown(d) ==
  /\ handling[d].phase = "insert" /\ notice[Run(d)] = NoNotice
  /\ notice' = [notice EXCEPT ![Run(d)] = [finding |-> handling[d].finding, status |-> "received"]]
  /\ Answer(d, "unavailable") /\ broken' = broken \cup {Run(d)}
  /\ UNCHANGED <<memory, making, rows, advised, starts>>

\* Memora or the database fails before anything is stored.
StoreFails(d) ==
  /\ handling[d].phase \in {"remember", "look", "insert"}
  /\ Answer(d, "unavailable")
  /\ UNCHANGED <<notice, memory, making, rows, advised, starts, broken>>

\* _set_processing_status, and the background task that runs after the answer.
MarkNotice(d) ==
  /\ handling[d].phase = "mark"
  /\ IF Run(d) \in Supported
     THEN /\ notice' = [notice EXCEPT ![Run(d)].status = "queued"]
          /\ making' = [making EXCEPT ![Run(d)] = "context"]
          /\ starts' = [starts EXCEPT ![Run(d)] = @ + 1]
     ELSE /\ notice' = [notice EXCEPT ![Run(d)].status = "unsupported"]
          /\ UNCHANGED <<making, starts>>
  /\ Answer(d, "stored")
  /\ UNCHANGED <<memory, rows, advised, broken>>

\* That write fails: the client is told an error, and a retry that it is known already.
MarkFails(d) ==
  /\ handling[d].phase = "mark"
  /\ Answer(d, "error") /\ broken' = broken \cup {Run(d)}
  /\ UNCHANGED <<notice, memory, making, rows, advised, starts>>

-----------------------------------------------------------------------------
(* _generate_market_prediction.                                             *)

Move(m, p) == making' = [making EXCEPT ![m] = p]

Ask(q) ==
  /\ making[q] = "idle" /\ Move(q, "context")
  /\ UNCHANGED <<handling, notice, memory, rows, advised, starts, broken>>

\* IntelX research, the inbox and Inference are optional, Stratex telemetry is not.
Gather(m) ==
  /\ \/ making[m] = "context" /\ Move(m, "telemetry")
     \/ making[m] = "telemetry" /\ \E p \in {"write", "failed"} : Move(m, p)
  /\ UNCHANGED <<handling, notice, memory, rows, advised, starts, broken>>

\* create and log_mutation flush; a failure is rolled back and refused.
WriteForecast(m) ==
  /\ making[m] = "write" /\ \E p \in {"publish", "failed"} : Move(m, p)
  /\ UNCHANGED <<handling, notice, memory, rows, advised, starts, broken>>

\* Two posts of one message id; that none is accepted is logged.
PublishForecast(m) ==
  /\ making[m] = "publish" /\ Move(m, "notify")
  /\ advised' \in {advised, advised \cup {m}}
  /\ UNCHANGED <<handling, notice, memory, rows, starts, broken>>

\* dispatch_market_forecast_to_stratex, whose failure is ignored.
Notify(m) ==
  /\ making[m] = "notify" /\ Move(m, IF m \in Queries THEN "teardown" ELSE "report")
  /\ UNCHANGED <<handling, notice, memory, rows, advised, starts, broken>>

\* get_db_session commits after the answer has left, or fails.
TeardownCommits(q) ==
  /\ q \in Queries /\ making[q] = "teardown"
  /\ \/ Move(q, "done") /\ rows' = rows \cup {q}
     \/ Move(q, "failed") /\ UNCHANGED rows
  /\ UNCHANGED <<handling, notice, memory, advised, starts, broken>>

MutantReportQueued(r) ==
  /\ r \in Runs /\ making[r] \in {"report", "failed"}
  /\ Move(r, "done")
  /\ notice' = [notice EXCEPT ![r].status =
                  IF making[r] = "failed" THEN @ ELSE "forecast_generated"]
  /\ UNCHANGED <<handling, memory, rows, advised, starts, broken>>

\* The outcome is written into the notice.  The session of the background forecast comes
\* from _forecast_repo_dependency, which closes it and commits nothing.
ReportNotice(r) ==
  /\ r \in Runs /\ making[r] \in {"report", "failed"} /\ Move(r, "done")
  /\ \/ /\ notice' = [notice EXCEPT ![r].status =
                        IF making[r] = "failed" THEN "failed" ELSE "forecast_generated"]
        /\ UNCHANGED broken
     \/ broken' = broken \cup {r} /\ UNCHANGED notice
  /\ UNCHANGED <<handling, memory, rows, advised, starts>>

\* The process ends: background tasks die with it, and the sender gets no answer.
AdvisoryCrash ==
  LET cut == {r \in Runs : \/ making[r] \notin {"idle", "done", "cut"}
                           \/ \E d \in Deliveries : handling[d].phase = "mark" /\ Run(d) = r} IN
  /\ handling' = [d \in Deliveries |-> IF handling[d].phase = "off" THEN handling[d]
                                   ELSE [handling[d] EXCEPT !.phase = "answered"]]
  /\ making' = [m \in Makers |-> IF making[m] \in {"idle", "done"} THEN making[m] ELSE "cut"]
  /\ broken' = broken \cup cut
  /\ UNCHANGED <<notice, memory, rows, advised, starts>>

HandleDelivery(d) == RememberRun(d) \/ LookForNotice(d) \/ InsertNotice(d) \/ MarkNotice(d)
Make(m) ==
  \/ Gather(m) \/ WriteForecast(m) \/ PublishForecast(m) \/ Notify(m)
  \/ TeardownCommits(m) \/ ReportNotice(m)

AdvisoryNext ==
  \/ \E d \in Deliveries :
       \/ DeliverNotice(d) \/ HandleDelivery(d)
       \/ StoreFails(d) \/ InsertUnknown(d) \/ MarkFails(d)
  \/ \E q \in Queries : Ask(q)
  \/ \E m \in Makers : Make(m)
  \/ AdvisoryCrash

\* Handlers and background tasks go on; nothing has to fail.
AdvisoryFairness ==
  /\ \A d \in Deliveries : WF_advisoryVars(HandleDelivery(d))
  /\ \A m \in Makers : WF_advisoryVars(Make(m))

AdvisorySpec == AdvisoryInit /\ [][AdvisoryNext]_advisoryVars /\ AdvisoryFairness

-----------------------------------------------------------------------------
(* Properties.                                                              *)

\* A retried or concurrent delivery is told "already_received" about a stored notice
\* that says the same, "conflict" about one that says something else, and a run is
\* recalibrated at most once (_store_webhook_notice, the `is_new` branch).
RepeatsAreRecognised ==
  /\ \A d \in Deliveries :
       /\ handling[d].answer \in {"stored", "already_received"} => SameFinding(d)
       /\ handling[d].answer = "conflict" => notice[Run(d)] # NoNotice /\ ~SameFinding(d)
  /\ \A r \in Runs : starts[r] <= 1

\* "Publish only a persisted, evidence-backed forecast" (market.py:393): a forecast whose
\* maker has ended well and that was advised is in the database.
AdvisedArePersisted == \A m \in advised : making[m] = "done" => m \in rows

\* A stored notice is processed: its status becomes final unless a crash or a failing
\* write has cut its processing off (which nothing repeats: a retry is told
\* "already_received").
NoticesSettle ==
  \A r \in Runs : notice[r].status \in {"received", "queued"} ~>
                  r \in broken \/ notice[r].status \notin {"received", "queued"}
=============================================================================
