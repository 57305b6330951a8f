--------------------------- MODULE ForecastPromise ---------------------------
(***************************************************************************)
(* What the forecast store promises its readers, without sessions, locks   *)
(* or events: a forecast is born live or without an answer, may be         *)
(* withdrawn while it is live, and receives at most one outcome, which     *)
(* makes it resolved for good.  The promise does not protect a withdrawal: *)
(* the code lets a resolution that read the forecast earlier overtake it   *)
(* (see WithdrawnStaysWithdrawn in ForecastLifecycle).                     *)
(***************************************************************************)
CONSTANTS Forecasts, Sessions, NoSession

VARIABLES
  status,     (* status[f] as a reader of the forecasts table sees it     *)
  outcome     (* outcome[f]: who recorded it                              *)

promiseVars == <<status, outcome>>

PromiseInit ==
  /\ status = [f \in Forecasts |-> "absent"]
  /\ outcome = [f \in Forecasts |-> NoSession]

Born(f) ==
  /\ status[f] = "absent"
  /\ \E st \in {"active", "insufficient_data"} : status' = [status EXCEPT ![f] = st]
  /\ UNCHANGED outcome

Withdraw(f) ==
  /\ status[f] \in {"active", "draft"}
  /\ \E st \in {"invalidated", "cancelled"} : status' = [status EXCEPT ![f] = st]
  /\ UNCHANGED outcome

RecordOutcome(f, s) ==
  /\ status[f] \notin {"absent", "insufficient_data", "resolved"}
  /\ outcome[f] = NoSession
  /\ status' = [status EXCEPT ![f] = "resolved"]
  /\ outcome' = [outcome EXCEPT ![f] = s]

PromiseNext ==
  \E f \in Forecasts : Born(f) \/ Withdraw(f) \/ \E s \in Sessions : RecordOutcome(f, s)

PromiseSpec == PromiseInit /\ [][PromiseNext]_promiseVars
=============================================================================
