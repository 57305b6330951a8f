---------------------- MODULE ForecastLifecycleProofs -----------------------
(*****************************************************************************)
(* Theorems about ForecastLifecycle, for every set of forecasts, requests   *)
(* and sessions, with or without the scheduler: its types, and that its     *)
(* committed tables stay consistent, with what follows from that.           *)
(*****************************************************************************)
EXTENDS ForecastLifecycle, TLAPS

-----------------------------------------------------------------------------
(* Type correctness.                                                        *)

\* Writing one row keeps the tables well typed.
LEMMA WriteType ==
  ASSUME StoreTypeOK, NEW s \in Sessions, NEW f \in Forecasts,
         NEW record \in ForecastRecords, Write(s, f, record)
  PROVE  StoreTypeOK'
BY DEF StoreTypeOK, Write

\* Committing and rolling back sessions keeps the tables well typed.
LEMMA CommitType ==
  ASSUME StoreTypeOK, NEW s \in Sessions, Commit(s)
  PROVE  StoreTypeOK'
BY DEF StoreTypeOK, Commit

\* Rolling sessions back keeps the tables well typed.
LEMMA RollbackType ==
  ASSUME StoreTypeOK, NEW S \in SUBSET Sessions, Rollback(S)
  PROVE  StoreTypeOK'
BY DEF StoreTypeOK, Rollback

\* What a session sees of a forecast is a record.
LEMMA SeesType ==
  ASSUME StoreTypeOK, NEW s \in Sessions, NEW f \in Forecasts
  PROVE  Sees(s, f) \in ForecastRecords
BY DEF StoreTypeOK, Sees

\* Events of a session are entries of an event log.
LEMMA EventsType ==
  ASSUME NEW s \in Sessions, NEW kinds \in SUBSET EventKinds
  PROVE  Events(s, kinds) \in SUBSET (EventKinds \X Sessions)
BY DEF Events

\* The ways a repository statement changes a record yield a record.
LEMMA StatusUpdates ==
  ASSUME NEW record \in ForecastRecords, NEW st \in Statuses,
         NEW new \in SUBSET (EventKinds \X Sessions)
  PROVE  /\ [record EXCEPT !.status = st] \in ForecastRecords
         /\ [record EXCEPT !.status = st, !.log = @ \cup new] \in ForecastRecords
         /\ [record EXCEPT !.status = st, !.log = new] \in ForecastRecords
BY DEF ForecastRecords

\* So does recording the outcome and its event.
LEMMA OutcomeUpdate ==
  ASSUME NEW record \in ForecastRecords, NEW s \in Sessions,
         NEW new \in SUBSET (EventKinds \X Sessions)
  PROVE  [record EXCEPT !.outcome = s, !.log = @ \cup new] \in ForecastRecords
BY DEF ForecastRecords

\* The record of a forecast that does not exist is a record.
LEMMA NoRecordType == NoRecord \in ForecastRecords
BY DEF NoRecord, ForecastRecords, Statuses

\* ForecastRepository.create keeps the tables well typed.
LEMMA CreateRowType ==
  ASSUME StoreTypeOK, NEW s \in Sessions, NEW f \in Forecasts, NEW st \in BirthStatuses,
         CreateRow(s, f, st)
  PROVE  StoreTypeOK'
<1>1. Events(s, {"created"}) \in SUBSET (EventKinds \X Sessions)
  BY EventsType DEF EventKinds
<1>2. st \in Statuses
  BY DEF BirthStatuses, Statuses, Live
<1>3. [NoRecord EXCEPT !.status = st, !.log = Events(s, {"created"})] \in ForecastRecords
  BY <1>1, <1>2, NoRecordType, StatusUpdates
<1> QED
  BY <1>3, WriteType DEF CreateRow

\* ForecastRepository.update_status keeps the tables well typed.
LEMMA UpdateStatusType ==
  ASSUME StoreTypeOK, NEW s \in Sessions, NEW f \in Forecasts, NEW st \in Statuses,
         NEW extra \in SUBSET EventKinds, UpdateStatus(s, f, st, extra)
  PROVE  StoreTypeOK'
<1>1. Events(s, {"updated"} \cup extra) \in SUBSET (EventKinds \X Sessions)
  BY EventsType DEF EventKinds
<1>2. [Sees(s, f) EXCEPT !.status = st, !.log = @ \cup Events(s, {"updated"} \cup extra)]
        \in ForecastRecords
  BY <1>1, SeesType, StatusUpdates
<1> QED
  BY <1>2, WriteType DEF UpdateStatus

\* The UPDATE of record_outcome keeps the tables well typed.
LEMMA MarkResolvedType ==
  ASSUME StoreTypeOK, NEW s \in Sessions, NEW f \in Forecasts, MarkResolved(s, f)
  PROVE  StoreTypeOK'
<1>1. [Sees(s, f) EXCEPT !.status = "resolved"] \in ForecastRecords
  BY SeesType, StatusUpdates DEF Statuses
<1> QED
  BY <1>1, WriteType DEF MarkResolved

\* The insertion of the outcome row keeps the tables well typed.
LEMMA InsertOutcomeType ==
  ASSUME StoreTypeOK, NEW s \in Sessions, NEW f \in Forecasts,
         NEW extra \in SUBSET EventKinds, InsertOutcome(s, f, extra)
  PROVE  StoreTypeOK'
<1>1. Events(s, {"outcome_recorded"} \cup extra) \in SUBSET (EventKinds \X Sessions)
  BY EventsType DEF EventKinds
<1>2. [Sees(s, f) EXCEPT !.outcome = s, !.log = @ \cup Events(s, {"outcome_recorded"} \cup extra)]
        \in ForecastRecords
  BY <1>1, SeesType, OutcomeUpdate
<1> QED
  BY <1>2, WriteType DEF InsertOutcome

\* A request that has arrived has a forecast, and moves between phases.
LEMMA ArrivedType ==
  ASSUME TypeOK, NEW r \in Requests, req[r].phase # "idle"
  PROVE  /\ req[r] \in [phase: Phases \ {"idle"}, kind: Kinds, fc: Forecasts, answer: Answers]
         /\ req[r].fc \in Forecasts
         /\ r \in Sessions
BY LifecycleAssumption DEF TypeOK, RequestStates, NoRequest

\* A request that moves on keeps its record well typed.
LEMMA GotoType ==
  ASSUME TypeOK, NEW r \in Requests, req[r].phase # "idle",
         NEW p \in Phases \ {"idle"}, Goto(r, p)
  PROVE  req' \in [Requests -> RequestStates]
BY ArrivedType DEF TypeOK, Goto, RequestStates

\* A request that is answered keeps its record well typed.
LEMMA AnswerType ==
  ASSUME TypeOK, NEW r \in Requests, req[r].phase # "idle",
         NEW a \in Answers, Answer(r, a)
  PROVE  req' \in [Requests -> RequestStates]
BY ArrivedType DEF TypeOK, Answer, RequestStates, Phases

\* The scheduler's own record keeps its shape.
LEMMA SchedulerType ==
  ASSUME TypeOK, NEW p \in {"idle", "resolving", "flush"}, NEW S \in SUBSET Forecasts
  PROVE  /\ [sched EXCEPT !.phase = p] \in SchedulerStates
         /\ [sched EXCEPT !.todo = S] \in SchedulerStates
         /\ [sched EXCEPT !.phase = p, !.todo = S] \in SchedulerStates
         /\ sched.todo \in SUBSET Forecasts
BY DEF TypeOK, SchedulerStates

\* One step keeps every variable well typed.
LEMMA TypeStep == TypeOK /\ [Next]_vars => TypeOK'
<1> SUFFICES ASSUME TypeOK, [Next]_vars
             PROVE  TypeOK'
  OBVIOUS
<1>0. StoreTypeOK /\ Scheduler \in Sessions /\ Requests \subseteq Sessions
  BY LifecycleAssumption DEF TypeOK
<1>1. ASSUME NEW r \in Requests, Arrive(r)
      PROVE  TypeOK'
  <2>1. req' \in [Requests -> RequestStates]
    BY <1>1 DEF Arrive, TypeOK, RequestStates, Phases, Answers, Kinds
  <2> QED
    BY <2>1, <1>1 DEF Arrive, TypeOK, StoreTypeOK, storeVars
<1>2. ASSUME NEW r \in Requests, Create(r)
      PROVE  TypeOK'
  <2>1. PICK k \in Creations, st \in BirthStatuses, f \in Forecasts :
          /\ CreateRow(r, f, st)
          /\ req' = [req EXCEPT ![r] = [phase |-> Written(k), kind |-> k, fc |-> f,
                                         answer |-> "none"]]
    BY <1>2 DEF Create, Births, BirthStatuses
  <2>2. req' \in [Requests -> RequestStates]
    BY <2>1 DEF TypeOK, RequestStates, Phases, Answers, Kinds, Written
  <2>3. StoreTypeOK'
    BY <1>0, <2>1, CreateRowType
  <2> QED
    BY <2>2, <2>3, <1>2 DEF Create, TypeOK
<1>3. ASSUME NEW r \in Requests, ReadForecast(r)
      PROVE  TypeOK'
  <2>1. req' \in [Requests -> RequestStates]
    <3>1. \/ Answer(r, "not_found") \/ Answer(r, "conflict")
          \/ Goto(r, "readOutcome") \/ Goto(r, "write")
      BY <1>3 DEF ReadForecast
    <3> QED
      BY <3>1, <1>3, GotoType, AnswerType DEF ReadForecast, At, Phases, Answers
  <2> QED
    BY <2>1, <1>3 DEF ReadForecast, TypeOK, StoreTypeOK, storeVars
<1>4. ASSUME NEW r \in Requests, ReadOutcome(r)
      PROVE  TypeOK'
  <2>1. req' \in [Requests -> RequestStates]
    BY <1>4, GotoType, AnswerType DEF ReadOutcome, At, Phases, Answers
  <2> QED
    BY <2>1, <1>4 DEF ReadOutcome, TypeOK, StoreTypeOK, storeVars
<1>5. ASSUME NEW r \in Requests, Transition(r)
      PROVE  TypeOK'
  <2>1. req' \in [Requests -> RequestStates]
    BY <1>5, GotoType, AnswerType DEF Transition, At, Phases, Answers, Written
  <2>2. NewStatus(req[r].kind) \in Statuses /\ {NewStatus(req[r].kind)} \in SUBSET EventKinds
    BY DEF NewStatus, Statuses, Withdrawn, EventKinds
  <2>3. req[r].fc \in Forecasts /\ r \in Sessions
    BY <1>5, ArrivedType DEF Transition, At
  <2>4. StoreTypeOK'
    <3>1. CASE UNCHANGED storeVars
      BY <3>1, <1>0 DEF storeVars, StoreTypeOK
    <3>2. CASE UpdateStatus(r, req[r].fc, NewStatus(req[r].kind), {NewStatus(req[r].kind)})
      BY <3>2, <2>2, <2>3, <1>0, UpdateStatusType
    <3> QED
      BY <3>1, <3>2, <1>5 DEF Transition
  <2> QED
    BY <2>1, <2>4, <1>5 DEF Transition, TypeOK
<1>6. ASSUME NEW r \in Requests, ResolveUpdate(r)
      PROVE  TypeOK'
  <2>1. req' \in [Requests -> RequestStates]
    BY <1>6, GotoType DEF ResolveUpdate, At, Phases
  <2>2. StoreTypeOK'
    BY <1>6, <1>0, ArrivedType, MarkResolvedType DEF ResolveUpdate, At
  <2> QED
    BY <2>1, <2>2, <1>6 DEF ResolveUpdate, TypeOK
<1>7. ASSUME NEW r \in Requests, ResolveFlush(r)
      PROVE  TypeOK'
  <2>1. req' \in [Requests -> RequestStates]
    BY <1>7, GotoType, AnswerType DEF ResolveFlush, At, Phases, Answers, Written
  <2>2. req[r].fc \in Forecasts /\ r \in Sessions
    BY <1>7, ArrivedType DEF ResolveFlush, At
  <2>3. StoreTypeOK'
    <3>1. CASE Rollback({r})
      BY <3>1, <2>2, <1>0, RollbackType
    <3>2. CASE InsertOutcome(r, req[r].fc, {"updated"})
      BY <3>2, <2>2, <1>0, InsertOutcomeType DEF EventKinds
    <3> QED
      BY <3>1, <3>2, <1>7 DEF ResolveFlush
  <2> QED
    BY <2>1, <2>3, <1>7 DEF ResolveFlush, TypeOK
<1>8. ASSUME NEW r \in Requests, CommitRequest(r)
      PROVE  TypeOK'
  <2>1. req' \in [Requests -> RequestStates]
    BY <1>8, GotoType DEF CommitRequest, At, Phases, AfterCommit
  <2>2. StoreTypeOK'
    BY <1>8, <1>0, CommitType DEF CommitRequest
  <2> QED
    BY <2>1, <2>2, <1>8 DEF CommitRequest, TypeOK
<1>9. ASSUME NEW r \in Requests, Reply(r)
      PROVE  TypeOK'
  <2>1. req' \in [Requests -> RequestStates]
    BY <1>9, AnswerType DEF Reply, At, Answers
  <2> QED
    BY <2>1, <1>9 DEF Reply, TypeOK, StoreTypeOK, storeVars
<1>10. ASSUME NEW r \in Requests, Fail(r)
       PROVE  TypeOK'
  <2>1. req' \in [Requests -> RequestStates]
    BY <1>10, AnswerType DEF Fail, InFlight, Answers, Unless
  <2>2. StoreTypeOK'
    BY <1>10, <1>0, RollbackType, CommitType DEF Fail
  <2> QED
    BY <2>1, <2>2, <1>10 DEF Fail, TypeOK
<1>11. ASSUME SchedulerStep
       PROVE  TypeOK'
  <2>1. ASSUME CalibrationList
        PROVE  TypeOK'
    <3>1. PICK overdue \in SUBSET Forecasts :
            sched' = [sched EXCEPT !.phase = "resolving", !.todo = overdue]
      BY <2>1 DEF CalibrationList, Unresolved
    <3>2. sched' \in SchedulerStates
      BY <3>1 DEF TypeOK, SchedulerStates
    <3> QED
      BY <2>1, <3>2 DEF CalibrationList, TypeOK, StoreTypeOK, storeVars
  <2>2. ASSUME CalibrationEnd
        PROVE  TypeOK'
    BY <2>2, SchedulerType DEF CalibrationEnd, TypeOK, StoreTypeOK, storeVars
  <2>3. ASSUME NEW f \in Forecasts, CalibrationSkip(f)
        PROVE  TypeOK'
    BY <2>3, SchedulerType DEF CalibrationSkip, TypeOK, StoreTypeOK, storeVars, SchedulerStates
  <2>4. ASSUME NEW f \in Forecasts, CalibrationUpdate(f)
        PROVE  TypeOK'
    BY <2>4, <1>0, SchedulerType, MarkResolvedType DEF CalibrationUpdate, TypeOK
  <2>5. ASSUME NEW f \in Forecasts, CalibrationFlush(f)
        PROVE  TypeOK'
    <3>1. sched' \in SchedulerStates
      <4>1. CASE sched' = [phase |-> "idle", todo |-> {}, broken |-> TRUE]
        BY <4>1 DEF SchedulerStates
      <4>2. CASE sched' = [sched EXCEPT !.phase = "resolving", !.todo = @ \ {f}]
        BY <4>2, SchedulerType
      <4> QED
        BY <4>1, <4>2, <2>5 DEF CalibrationFlush
    <3>2. StoreTypeOK'
      BY <2>5, <1>0, RollbackType, InsertOutcomeType DEF CalibrationFlush
    <3> QED
      BY <3>1, <3>2, <2>5 DEF CalibrationFlush, TypeOK
  <2>6. ASSUME NEW f \in Forecasts, Refresh(f)
        PROVE  TypeOK'
    BY <2>6, <1>0, CreateRowType DEF Refresh, TypeOK, BirthStatuses
  <2>7. ASSUME NEW f \in Forecasts, Backtest(f)
        PROVE  TypeOK'
    <3>1. Events(Scheduler, {"created", "outcome_recorded"}) \in SUBSET (EventKinds \X Sessions)
      BY <1>0, EventsType DEF EventKinds
    <3>2. [status |-> "resolved", outcome |-> Scheduler,
           log |-> Events(Scheduler, {"created", "outcome_recorded"})] \in ForecastRecords
      BY <3>1, <1>0 DEF ForecastRecords, Statuses
    <3> QED
      BY <3>2, <2>7, <1>0, WriteType DEF Backtest, TypeOK
  <2> QED
    BY <1>11, <2>1, <2>2, <2>3, <2>4, <2>5, <2>6, <2>7 DEF SchedulerStep
<1>13. ASSUME Restart
       PROVE  TypeOK'
  <2>1. req' \in [Requests -> RequestStates]
    <3> SUFFICES ASSUME NEW r \in Requests
                 PROVE  req'[r] \in RequestStates
      BY <1>13 DEF Restart
    <3>1. CASE req[r].phase \in InFlight
      <4>1. req'[r] = [req[r] EXCEPT !.phase = "done", !.answer = Unless(r, "lost")]
        BY <3>1, <1>13 DEF Restart
      <4> QED
        BY <4>1, <3>1, ArrivedType DEF InFlight, RequestStates, Phases, Answers, Unless
    <3>2. CASE req[r].phase \notin InFlight
      BY <3>2, <1>13 DEF Restart, TypeOK
    <3> QED
      BY <3>1, <3>2
  <2>2. StoreTypeOK'
    BY <1>13, <1>0, RollbackType DEF Restart
  <2>3. sched' \in SchedulerStates
    BY <1>13 DEF Restart, FreshScheduler, SchedulerStates
  <2> QED
    BY <2>1, <2>2, <2>3, <1>13 DEF Restart, TypeOK
<1>14. ASSUME NEW r \in Requests, Respond(r)
       PROVE  TypeOK'
  <2>1. req' \in [Requests -> RequestStates]
    BY <1>14, ArrivedType DEF Respond, At, TypeOK, RequestStates, Phases, Answers
  <2> QED
    BY <2>1, <1>14 DEF Respond, TypeOK, StoreTypeOK, storeVars
<1>15. CASE UNCHANGED vars
  BY <1>15 DEF vars, TypeOK, StoreTypeOK
<1> QED
  BY <1>1, <1>2, <1>3, <1>4, <1>5, <1>6, <1>7, <1>8, <1>9, <1>10, <1>11, <1>13, <1>14,
     <1>15
  DEF Next, RequestStep

\* Every variable is well typed when the process starts on empty tables.
LEMMA TypeInit == Init => TypeOK
BY NoRecordType
DEF Init, StoreInit, TypeOK, StoreTypeOK, RequestStates, FreshScheduler, SchedulerStates

\* Every variable keeps its type in every behaviour.
THEOREM TypeCorrect == Spec => []TypeOK
BY TypeInit, TypeStep, PTL DEF Spec

-----------------------------------------------------------------------------
(* The store operations and the rows and requests they leave alone.         *)

\* The sessions of requests and of the scheduler are distinct from each other
\* and from the absent session.
LEMMA Names ==
  /\ Requests \subseteq Sessions
  /\ Scheduler \in Sessions
  /\ Scheduler \notin Requests
  /\ NoSession \notin Sessions
  /\ NoSession \notin Requests
  /\ NoSession # Scheduler
BY StoreAssumption, LifecycleAssumption

\* Who may write a row sees in it what work shows.
LEMMA SeesWork ==
  ASSUME NEW s \in Sessions, NEW f \in Forecasts, RowInv(f), RowFree(s, f)
  PROVE  Sees(s, f) = work[f]
BY Names DEF Sees, RowFree, RowInv

\* A request keeps its part of the invariant while others work.
LEMMA FrameRequest ==
  ASSUME TypeOK, NEW q \in Requests, RequestInv(q), req'[q] = req[q],
         \A f \in Forecasts : (holder'[f] = q) <=> (holder[f] = q),
         \A f \in Forecasts : holder[f] = q => work'[f] = work[f] /\ table'[f] = table[f],
         \A f \in Forecasts : Answerable(f) => Answerable(f)',
         \A f \in Forecasts : table[f].log \subseteq table'[f].log,
         \A f \in Forecasts : table[f].outcome # NoSession => table'[f].outcome = table[f].outcome
  PROVE  RequestInv(q)'
<1>1. req[q].phase # "idle" => req[q].fc \in Forecasts
  BY ArrivedType
<1>2. req[q].phase \in Holding => holder[req[q].fc] = q
  BY DEF RequestInv, Holds
<1>3. Holds(q)'
  BY <1>1 DEF RequestInv, Holds, Holding
<1>4. ResolutionInv(q)'
  BY <1>1 DEF RequestInv, ResolutionInv
<1>5. FlushInv(q)'
  BY <1>1, <1>2 DEF RequestInv, FlushInv, Holding
<1>6. CommitInv(q)'
  BY <1>1, <1>2 DEF RequestInv, CommitInv, Answerable, Holding
<1>7. SuccessInv(q)'
  BY <1>1, Names DEF RequestInv, SuccessInv, Recorded, At
<1>8. RespondInv(q)'
  BY DEF RequestInv, RespondInv, At
<1> QED
  BY <1>3, <1>4, <1>5, <1>6, <1>7, <1>8 DEF RequestInv

\* Writing a free row, without dropping what is committed in it.
LEMMA WriteKeeps ==
  ASSUME Consistency, NEW s \in Requests \cup {Scheduler}, NEW f \in Forecasts,
         NEW record, RowFree(s, f), Write(s, f, record),
         table[f].outcome # NoSession => record.outcome = table[f].outcome,
         table[f].log \subseteq record.log
  PROVE  /\ \A g \in Forecasts : RowInv(g)'
         /\ \A q \in Requests \ {s} : req'[q] = req[q] => RequestInv(q)'
<1>0. StoreTypeOK /\ TypeOK
  BY DEF Consistency, TypeOK
<1>1. /\ table' = table
      /\ holder'[f] = s /\ work'[f] = record
      /\ \A g \in Forecasts \ {f} : holder'[g] = holder[g] /\ work'[g] = work[g]
  BY <1>0 DEF Write, StoreTypeOK
<1>2. \A g \in Forecasts : RowInv(g)'
  BY <1>1, Names DEF Consistency, RowInv
<1>3. ASSUME NEW q \in Requests \ {s}, req'[q] = req[q]
      PROVE  RequestInv(q)'
  <2>1. holder[f] # q
    BY Names DEF RowFree
  <2>2. \A g \in Forecasts : (holder'[g] = q) <=> (holder[g] = q)
    BY <1>1, <2>1
  <2>3. \A g \in Forecasts : holder[g] = q => work'[g] = work[g]
    BY <1>1, <2>1
  <2> QED
    BY <1>0, <1>1, <1>3, <2>2, <2>3, FrameRequest DEF Consistency, Answerable
<1> QED
  BY <1>2, <1>3

\* Rolling sessions back gives their rows back as committed.
LEMMA RollbackKeeps ==
  ASSUME Consistency, NEW S \in SUBSET Sessions, Rollback(S)
  PROVE  /\ \A g \in Forecasts : RowInv(g)'
         /\ \A g \in Forecasts : holder'[g] \notin S
         /\ \A q \in Requests \ S : req'[q] = req[q] => RequestInv(q)'
<1>0. StoreTypeOK /\ TypeOK
  BY DEF Consistency, TypeOK
<1>1. /\ table' = table
      /\ \A g \in Forecasts :
           /\ work'[g] = IF holder[g] \in S THEN table[g] ELSE work[g]
           /\ holder'[g] = IF holder[g] \in S THEN NoSession ELSE holder[g]
  BY DEF Rollback
<1>2. \A g \in Forecasts : RowInv(g)' /\ holder'[g] \notin S
  BY <1>1, Names DEF Consistency, RowInv
<1>3. ASSUME NEW q \in Requests \ S, req'[q] = req[q]
      PROVE  RequestInv(q)'
  BY <1>0, <1>1, <1>3, Names, FrameRequest DEF Consistency, Answerable
<1> QED
  BY <1>2, <1>3

\* A step that leaves the store alone keeps every row and every other request's part.
LEMMA StutterKeeps ==
  ASSUME Consistency, UNCHANGED storeVars
  PROVE  /\ \A g \in Forecasts : RowInv(g)'
         /\ \A q \in Requests : req'[q] = req[q] => RequestInv(q)'
<1>1. table' = table /\ work' = work /\ holder' = holder
  BY DEF storeVars
<1>2. \A g \in Forecasts : RowInv(g)'
  BY <1>1 DEF Consistency, RowInv
<1>3. ASSUME NEW q \in Requests, req'[q] = req[q]
      PROVE  RequestInv(q)'
  BY <1>1, <1>3, FrameRequest DEF Consistency, Answerable
<1> QED
  BY <1>2, <1>3

\* The commit of a request publishes the one row it holds.
LEMMA CommitPublishes ==
  ASSUME Consistency, NEW r \in Requests, req[r].phase = "commit", Commit(r)
  PROVE  /\ req[r].fc \in Forecasts
         /\ table'[req[r].fc] = work[req[r].fc]
         /\ \A g \in Forecasts \ {req[r].fc} : table'[g] = table[g]
         /\ \A g \in Forecasts : holder'[g] = IF g = req[r].fc THEN NoSession ELSE holder[g]
         /\ work' = work
<1>1. req[r].fc \in Forecasts
  BY ArrivedType DEF Consistency
<1>2. holder[req[r].fc] = r /\ \A g \in Forecasts : holder[g] = r => g = req[r].fc
  BY <1>1 DEF Consistency, RequestInv, Holds, Holding
<1> QED
  BY <1>1, <1>2 DEF Commit

\* The commit of one request keeps every row and every other request's part.
LEMMA CommitKeeps ==
  ASSUME Consistency, NEW r \in Requests, req[r].phase = "commit", Commit(r)
  PROVE  /\ \A g \in Forecasts : RowInv(g)'
         /\ \A q \in Requests \ {r} : req'[q] = req[q] => RequestInv(q)'
<1>f. PICK f \in Forecasts : f = req[r].fc
  BY CommitPublishes
<1>0. TypeOK /\ CommitInv(r) /\ \A g \in Forecasts : RowInv(g)
  BY DEF Consistency, RequestInv
<1>1. /\ table'[f] = work[f]
      /\ \A g \in Forecasts \ {f} : table'[g] = table[g]
      /\ \A g \in Forecasts : holder'[g] = IF g = f THEN NoSession ELSE holder[g]
      /\ work' = work
  BY <1>f, CommitPublishes
<1>2. holder[f] = r
  BY <1>f DEF Consistency, RequestInv, Holds, Holding
<1>3. req[r].kind \in Kinds
  BY <1>0, ArrivedType
<1>4. /\ (work[f].status = "resolved") <=> (work[f].outcome # NoSession)
      /\ Answerable(f) => work[f].status \notin {"absent", "insufficient_data"}
  <2>1. CASE req[r].kind \in Creations
    BY <2>1, <1>f, <1>0, <1>1 DEF CommitInv, BirthStatuses, Answerable, NoRecord
  <2>2. CASE req[r].kind \in Transitions
    BY <2>2, <1>f, <1>0, <1>1 DEF CommitInv, RowInv, Live, Withdrawn
  <2>3. CASE req[r].kind \in Resolutions
    BY <2>3, <1>f, <1>0, Names DEF CommitInv
  <2> QED
    BY <2>1, <2>2, <2>3, <1>3 DEF Kinds
<1>5. \A g \in Forecasts : RowInv(g)'
  <2>1. RowInv(f)'
    BY <1>0, <1>1, <1>4 DEF RowInv
  <2>2. ASSUME NEW g \in Forecasts \ {f}
        PROVE  RowInv(g)'
    BY <1>0, <1>1 DEF RowInv
  <2> QED
    BY <2>1, <2>2
<1>6. ASSUME NEW q \in Requests \ {r}, req'[q] = req[q]
      PROVE  RequestInv(q)'
  <2>1. \A g \in Forecasts : (holder'[g] = q) <=> (holder[g] = q)
    BY <1>1, <1>2, Names
  <2>2. \A g \in Forecasts : holder[g] = q => work'[g] = work[g] /\ table'[g] = table[g]
    BY <1>1, <1>2
  <2>3. \A g \in Forecasts : Answerable(g) => Answerable(g)'
    BY <1>1, <1>4 DEF Answerable
  <2>4. \A g \in Forecasts :
          /\ table[g].log \subseteq table'[g].log
          /\ table[g].outcome # NoSession => table'[g].outcome = table[g].outcome
    BY <1>0, <1>1 DEF RowInv
  <2> QED
    BY <1>0, <1>6, <2>1, <2>2, <2>3, <2>4, FrameRequest DEF Consistency
<1> QED
  BY <1>5, <1>6
-----------------------------------------------------------------------------
(* The inductive invariant.                                                 *)

\* The invariant holds when the process starts on empty tables.
LEMMA ConsistencyInit == Init => Consistency
<1> SUFFICES ASSUME Init
             PROVE  Consistency
  OBVIOUS
<1>1. TypeOK
  BY TypeInit
<1>2. \A f \in Forecasts : RowInv(f)
  BY DEF Init, StoreInit, RowInv, NoRecord
<1>3. ASSUME NEW r \in Requests
      PROVE  RequestInv(r)
  <2>1. req[r] = NoRequest /\ \A f \in Forecasts : holder[f] # r
    BY Names DEF Init, StoreInit
  <2> QED
    BY <2>1 DEF RequestInv, Holds, Holding, ResolutionInv, FlushInv, CommitInv, SuccessInv,
      RespondInv, At,
               NoRequest
<1> QED
  BY <1>1, <1>2, <1>3 DEF Consistency

\* The invariant holds after a step that keeps the types, every row and every request.
LEMMA Conclude ==
  ASSUME TypeOK', \A f \in Forecasts : RowInv(f)', \A r \in Requests : RequestInv(r)'
  PROVE  Consistency'
BY DEF Consistency

\* The steps of one request leave the other requests' records alone.
LEMMA OthersWait ==
  ASSUME TypeOK, NEW r \in Requests,
         \/ Arrive(r) \/ Create(r) \/ RequestStep(r) \/ Fail(r)
  PROVE  \A q \in Requests \ {r} : req'[q] = req[q]
BY DEF TypeOK, Arrive, Create, RequestStep, Fail, ReadForecast, ReadOutcome, Transition,
       ResolveUpdate, ResolveFlush, Respond, CommitRequest, Reply, Goto, Answer

\* What a request's own record says after it moved or answered.
LEMMA Moved ==
  ASSUME TypeOK, NEW r \in Requests, req[r].phase # "idle"
  PROVE  /\ \A p \in Phases : Goto(r, p) =>
              req'[r].phase = p /\ req'[r].kind = req[r].kind /\ req'[r].fc = req[r].fc
                /\ req'[r].answer = req[r].answer
         /\ \A a \in Answers : Answer(r, a) =>
              req'[r].phase = "done" /\ req'[r].kind = req[r].kind /\ req'[r].fc = req[r].fc
                /\ req'[r].answer = a
BY ArrivedType DEF TypeOK, Goto, Answer

\* A request that holds nothing and was told no success has nothing to answer for.
LEMMA Released ==
  ASSUME NEW r \in Requests, req'[r].phase = "done",
         req'[r].answer # "ok" \/ req'[r].kind \notin CommitFirst,
         \A f \in Forecasts : holder'[f] # r
  PROVE  RequestInv(r)'
BY DEF RequestInv, Holds, Holding, ResolutionInv, FlushInv, CommitInv, SuccessInv, RespondInv, At

\* A request that waits holds nothing.
LEMMA HoldsNothing ==
  ASSUME Consistency, NEW r \in Requests, req[r].phase \notin Holding
  PROVE  \A f \in Forecasts : holder[f] # r
BY DEF Consistency, RequestInv, Holds

\* Every step of a request handler keeps the invariant.
LEMMA RequestStepKeeps ==
  ASSUME Consistency, TypeOK', NEW r \in Requests,
         \/ Arrive(r) \/ Create(r) \/ RequestStep(r) \/ Fail(r)
  PROVE  Consistency'
<1>0. /\ TypeOK /\ StoreTypeOK /\ RequestInv(r)
      /\ \A f \in Forecasts : RowInv(f)
      /\ r \in Sessions /\ r \in Requests \cup {Scheduler}
      /\ r # NoSession
  BY Names DEF Consistency, TypeOK
<1>1. \A q \in Requests \ {r} : req'[q] = req[q]
  BY <1>0, OthersWait
<1>2. SUFFICES /\ \A f \in Forecasts : RowInv(f)'
               /\ \A q \in Requests \ {r} : RequestInv(q)'
               /\ RequestInv(r)'
  BY Conclude
<1>3. ASSUME UNCHANGED storeVars
      PROVE  /\ \A f \in Forecasts : RowInv(f)'
             /\ \A q \in Requests \ {r} : RequestInv(q)'
             /\ table' = table /\ work' = work /\ holder' = holder
             /\ req[r].phase \notin Holding => \A f \in Forecasts : holder'[f] # r
  BY <1>3, <1>1, StutterKeeps, HoldsNothing DEF Holding, storeVars
<1>4. CASE Arrive(r)
  <2>1. req'[r].phase = "read" /\ req'[r].answer = "none"
    BY <1>4, <1>0 DEF Arrive, TypeOK
  <2>2. \A f \in Forecasts : holder'[f] # r
    BY <1>4, <1>3 DEF Arrive, At, Holding
  <2> QED
    BY <1>4, <1>3, <2>1, <2>2
    DEF Arrive, RequestInv, Holds, Holding, ResolutionInv, FlushInv, CommitInv, SuccessInv,
        RespondInv, At
<1>5. CASE Create(r)
  <2>1. PICK k \in Creations, st \in BirthStatuses, f \in Forecasts :
          /\ CreateRow(r, f, st)
          /\ req' = [req EXCEPT ![r] = [phase |-> Written(k), kind |-> k, fc |-> f,
                                         answer |-> "none"]]
    BY <1>5 DEF Create, Births, BirthStatuses
  <2> DEFINE record == [NoRecord EXCEPT !.status = st, !.log = Events(r, {"created"})]
  <2>2. /\ RowFree(r, f) /\ table[f] = NoRecord
        /\ holder' = [holder EXCEPT ![f] = r] /\ work' = [work EXCEPT ![f] = record]
        /\ table' = table
        /\ Write(r, f, record)
    BY <2>1 DEF CreateRow, Unused, RowFree, Write
  <2>3. /\ \A g \in Forecasts : RowInv(g)'
        /\ \A q \in Requests \ {r} : RequestInv(q)'
    BY <2>2, <1>0, <1>1, WriteKeeps DEF NoRecord
  <2>4. \A g \in Forecasts : holder[g] # r
    BY <1>5, HoldsNothing DEF Holding, Create, At
  <2>5. /\ req'[r] = [phase |-> Written(k), kind |-> k, fc |-> f, answer |-> "none"]
        /\ work'[f] = record
        /\ \A g \in Forecasts : holder'[g] = r <=> g = f
    BY <2>1, <2>2, <2>4, <1>0 DEF TypeOK, StoreTypeOK
  <2>6. Holds(r)' /\ ResolutionInv(r)' /\ FlushInv(r)' /\ RespondInv(r)' /\ SuccessInv(r)'
    BY <2>5 DEF Holds, Holding, ResolutionInv, FlushInv, SuccessInv, RespondInv, At, Written
  <2>7. CommitInv(r)'
    <3>1. record.status = st /\ record.outcome = NoSession /\ <<"created", r>> \in record.log
      BY DEF NoRecord, Events
    <3>2. k \notin Transitions /\ k \notin Resolutions
      BY DEF Creations, Transitions, Resolutions
    <3> HIDE DEF record
    <3> QED
      BY <3>1, <3>2, <2>2, <2>5 DEF CommitInv, Effect
  <2> QED
    BY <2>3, <2>6, <2>7 DEF RequestInv
<1>6. CASE ReadForecast(r)
  <2>0. UNCHANGED storeVars
    BY <1>6 DEF ReadForecast
  <2>1. req[r].phase = "read" /\ req[r].answer # "ok" /\ req[r].fc \in Forecasts
    BY <1>6, <1>0, ArrivedType DEF ReadForecast, RequestInv, SuccessInv, RespondInv, At
  <2>2. \A f \in Forecasts : holder[f] # r /\ holder'[f] # r
    BY <2>0, <2>1, <1>3, HoldsNothing DEF Holding
  <2>3. CASE Answer(r, "not_found") \/ Answer(r, "conflict")
    BY <2>3, <2>0, <2>1, <2>2, <1>3, <1>0, Moved, Released DEF Answers
  <2>4. CASE Goto(r, "readOutcome") /\ Answerable(req[r].fc)
    <3>1. req'[r].phase = "readOutcome" /\ req'[r].fc = req[r].fc /\ req'[r].answer # "ok"
      BY <2>4, <2>1, <1>0, Moved DEF Phases, Written
    <3> QED
      BY <3>1, <2>4, <2>0, <2>2, <1>3
      DEF RequestInv, Holds, Holding, ResolutionInv, FlushInv, CommitInv, SuccessInv, RespondInv,
          At, Answerable
  <2>5. CASE Goto(r, "write") /\ req[r].kind \notin Resolutions
    <3>1. /\ req'[r].phase = "write" /\ req'[r].kind \notin Resolutions /\ req'[r].answer # "ok"
      BY <2>5, <2>1, <1>0, Moved DEF Phases, Written
    <3> QED
      BY <3>1, <2>0, <2>2, <1>3
      DEF RequestInv, Holds, Holding, ResolutionInv, FlushInv, CommitInv, SuccessInv, RespondInv, At
  <2> QED
    BY <2>1, <2>2, <2>3, <2>4, <2>5, <1>6 DEF ReadForecast, Sees, Answerable, Live
<1>7. CASE ReadOutcome(r)
  <2>0. UNCHANGED storeVars
    BY <1>7 DEF ReadOutcome
  <2>1. req[r].phase = "readOutcome" /\ req[r].answer # "ok" /\ req[r].fc \in Forecasts
    BY <1>7, <1>0, ArrivedType DEF ReadOutcome, RequestInv, SuccessInv, RespondInv, At
  <2>2. \A f \in Forecasts : holder'[f] # r
    BY <2>0, <2>1, <1>3 DEF Holding
  <2>3. CASE Answer(r, "conflict")
    BY <2>3, <2>0, <2>1, <2>2, <1>3, <1>0, Moved, Released DEF Answers
  <2>4. CASE Goto(r, "write")
    <3>1. /\ req'[r].phase = "write" /\ req'[r].kind = req[r].kind
          /\ req'[r].fc = req[r].fc /\ req'[r].answer # "ok"
      BY <2>4, <2>1, <1>0, Moved DEF Phases, Written
    <3> QED
      BY <3>1, <2>0, <2>1, <2>2, <1>3, <1>0
      DEF RequestInv, Holds, Holding, ResolutionInv, FlushInv, CommitInv, SuccessInv, RespondInv,
          At, Answerable
  <2> QED
    BY <2>3, <2>4, <1>7 DEF ReadOutcome
<1>8. CASE Transition(r)
  <2> DEFINE st == NewStatus(req[r].kind)
  <2>0. req[r].phase = "write" /\ req[r].kind \in Transitions /\ req[r].answer # "ok"
    BY <1>8, <1>0 DEF Transition, RequestInv, SuccessInv, RespondInv, At
  <2>f. PICK f \in Forecasts : f = req[r].fc
    BY <2>0, <1>0, ArrivedType
  <2>1. \A g \in Forecasts : holder[g] # r
    BY <2>0, HoldsNothing DEF Holding
  <2>2. CASE UNCHANGED storeVars /\ Answer(r, "conflict")
    BY <2>0, <2>2, <1>3, <1>0, Moved, Released DEF Answers, Holding
  <2>3. CASE TransitionMatches(r, f) /\ UpdateStatus(r, f, st, {st}) /\ Goto(r,
    Written(req[r].kind))
    <3> DEFINE record == [work[f] EXCEPT !.status = st,
                                         !.log = @ \cup Events(r, {"updated", st})]
    <3>1. RowFree(r, f) /\ Sees(r, f) = work[f] /\ holder[f] = NoSession /\ work[f] = table[f]
      BY <2>3, <2>1, <1>0, SeesWork DEF UpdateStatus, RowFree, RowInv
    <3>2. Write(r, f, record)
      <4>1. {"updated"} \cup {st} = {"updated", st}
        OBVIOUS
      <4> QED
        BY <3>1, <4>1, <2>3 DEF UpdateStatus
    <3>3. work[f] \in ForecastRecords
      BY <1>0 DEF StoreTypeOK
    <3>4. /\ record.status = st /\ record.outcome = work[f].outcome
          /\ record.log = work[f].log \cup Events(r, {"updated", st})
      BY <3>3 DEF ForecastRecords
    <3>5. /\ \A g \in Forecasts : RowInv(g)'
          /\ \A q \in Requests \ {r} : RequestInv(q)'
      BY <3>1, <3>2, <3>4, <1>0, <1>1, WriteKeeps
    <3>6. /\ req'[r].phase = Written(req[r].kind) /\ req'[r].kind = req[r].kind
          /\ req'[r].fc = f /\ req'[r].answer # "ok"
      BY <2>3, <2>f, <2>0, <1>0, Moved DEF Phases, Written
    <3>7. /\ work'[f] = record /\ table'[f] = table[f]
          /\ \A g \in Forecasts : holder'[g] = r <=> g = f
      BY <3>2, <2>1, <1>0 DEF Write, StoreTypeOK
    <3>8. Holds(r)' /\ ResolutionInv(r)' /\ FlushInv(r)' /\ RespondInv(r)' /\ SuccessInv(r)'
      BY <3>6, <3>7 DEF Holds, Holding, ResolutionInv, FlushInv, SuccessInv, RespondInv, At, Written
    <3>9. CommitInv(r)'
      <4>1. table[f].status \in Live
        BY <3>1, <2>3 DEF TransitionMatches
      <4>2. req[r].kind \notin Creations /\ req[r].kind \notin Resolutions
        BY <2>0 DEF Creations, Transitions, Resolutions
      <4>3. st \in Withdrawn /\ <<Effect(req[r].kind), r>> \in record.log
        <5>1. Effect(req[r].kind) = st
          BY <4>2, <2>0 DEF Effect
        <5> QED
          BY <5>1, <3>4 DEF NewStatus, Withdrawn, Events
      <4> QED
        BY <4>1, <4>2, <4>3, <3>1, <3>4, <3>6, <3>7, <2>0 DEF CommitInv
    <3> QED
      BY <3>5, <3>8, <3>9 DEF RequestInv
  <2> QED
    BY <2>2, <2>3, <2>f, <1>8 DEF Transition
<1>9. CASE ResolveUpdate(r)
  <2>0. req[r].phase = "write" /\ req[r].kind \in Resolutions /\ req[r].answer # "ok"
    BY <1>9, <1>0 DEF ResolveUpdate, RequestInv, SuccessInv, RespondInv, At
  <2>f. PICK f \in Forecasts : f = req[r].fc
    BY <2>0, <1>0, ArrivedType
  <2> DEFINE record == [work[f] EXCEPT !.status = "resolved"]
  <2>1. \A g \in Forecasts : holder[g] # r
    BY <2>0, HoldsNothing DEF Holding
  <2>2. RowFree(r, f) /\ Sees(r, f) = work[f] /\ holder[f] = NoSession /\ work[f] = table[f]
    BY <1>9, <2>f, <2>1, <1>0, SeesWork DEF ResolveUpdate, MarkResolved, RowFree, RowInv
  <2>3. Write(r, f, record)
    BY <1>9, <2>f, <2>2 DEF ResolveUpdate, MarkResolved
  <2>4. record.status = "resolved" /\ record.outcome = work[f].outcome /\ record.log = work[f].log
    BY <1>0 DEF StoreTypeOK, ForecastRecords
  <2>5. /\ \A g \in Forecasts : RowInv(g)'
        /\ \A q \in Requests \ {r} : RequestInv(q)'
    BY <2>2, <2>3, <2>4, <1>0, <1>1, WriteKeeps
  <2>6. /\ req'[r].phase = "flush" /\ req'[r].kind \in Resolutions
        /\ req'[r].fc = f /\ req'[r].answer # "ok"
    BY <1>9, <2>f, <2>0, <1>0, Moved DEF ResolveUpdate, Phases
  <2>7. /\ work'[f] = record /\ table'[f] = table[f]
        /\ \A g \in Forecasts : holder'[g] = r <=> g = f
    BY <2>3, <2>1, <1>0 DEF Write, StoreTypeOK
  <2>8. Holds(r)' /\ FlushInv(r)' /\ CommitInv(r)' /\ RespondInv(r)' /\ SuccessInv(r)'
    BY <2>2, <2>4, <2>6, <2>7 DEF Holds, Holding, FlushInv, CommitInv, SuccessInv, RespondInv, At
  <2>9. ResolutionInv(r)'
    BY <2>f, <2>0, <2>6, <2>7, <1>0 DEF RequestInv, ResolutionInv, Answerable
  <2> QED
    BY <2>5, <2>8, <2>9 DEF RequestInv
<1>10. CASE ResolveFlush(r)
  <2>0. /\ req[r].phase = "flush" /\ req[r].kind \in Resolutions /\ req[r].answer # "ok"
    BY <1>10, <1>0 DEF ResolveFlush, RequestInv, SuccessInv, RespondInv, At, FlushInv
  <2>f. PICK f \in Forecasts : f = req[r].fc
    BY <2>0, <1>0, ArrivedType
  <2>1. \A g \in Forecasts : holder[g] = r <=> g = f
    BY <2>0, <2>f, <1>0 DEF RequestInv, Holds, Holding
  <2>2. RowFree(r, f) /\ Sees(r, f) = work[f]
    BY <2>1 DEF RowFree, Sees
  <2>3. CASE Rollback({r}) /\ Answer(r, "conflict")
    BY <2>0, <2>3, <1>0, <1>1, RollbackKeeps, Moved, Released DEF Answers
  <2>4. CASE InsertOutcome(r, f, {"updated"}) /\ Goto(r, Written(req[r].kind))
    <3> DEFINE record == [work[f] EXCEPT !.outcome = r,
                            !.log = @ \cup Events(r, {"outcome_recorded"} \cup {"updated"})]
    <3>1. Write(r, f, record) /\ work[f].outcome = NoSession
      BY <2>2, <2>4 DEF InsertOutcome, OutcomeClashes
    <3>2. /\ record.status = work[f].status /\ record.outcome = r
          /\ record.log = work[f].log \cup Events(r, {"outcome_recorded"} \cup {"updated"})
      BY <1>0 DEF StoreTypeOK, ForecastRecords
    <3>3. table[f].outcome = NoSession /\ table[f].status # "resolved"
      BY <3>1, <1>0 DEF RowInv
    <3>4. /\ \A g \in Forecasts : RowInv(g)'
          /\ \A q \in Requests \ {r} : RequestInv(q)'
      <4>1. table[f].log \subseteq record.log
        BY <3>2, <1>0 DEF RowInv
      <4> QED
        BY <4>1, <3>1, <3>3, <2>2, <1>0, <1>1, WriteKeeps
    <3>5. /\ req'[r].phase = Written(req[r].kind) /\ req'[r].kind = req[r].kind
          /\ req'[r].fc = f /\ req'[r].answer # "ok"
      BY <2>4, <2>f, <2>0, <1>0, Moved DEF Phases, Written
    <3>6. /\ work'[f] = record /\ table'[f] = table[f]
          /\ \A g \in Forecasts : holder'[g] = r <=> g = f
      BY <3>1, <2>1, <1>0 DEF Write, StoreTypeOK
    <3>7. Holds(r)' /\ ResolutionInv(r)' /\ FlushInv(r)' /\ RespondInv(r)' /\ SuccessInv(r)'
      BY <3>5, <3>6 DEF Holds, Holding, ResolutionInv, FlushInv, SuccessInv, RespondInv, At, Written
    <3>8. CommitInv(r)'
      <4>1. /\ <<"outcome_recorded", r>> \in record.log
            /\ record.status = "resolved"
            /\ Answerable(f)
        BY <3>2, <2>0, <2>f, <1>0 DEF Events, RequestInv, FlushInv, ResolutionInv
      <4>2. req[r].kind \notin Creations /\ req[r].kind \notin Transitions
        BY <2>0 DEF Creations, Transitions, Resolutions
      <4>3. Effect(req[r].kind) = "outcome_recorded"
        BY <4>2, <2>0 DEF Effect
      <4> QED
        BY <4>1, <4>2, <4>3, <3>2, <3>3, <3>5, <3>6 DEF CommitInv, Answerable
    <3> QED
      BY <3>4, <3>7, <3>8 DEF RequestInv
  <2> QED
    BY <2>3, <2>4, <2>f, <1>10 DEF ResolveFlush
<1>11. CASE Respond(r)
  <2>0. UNCHANGED storeVars
    BY <1>11 DEF Respond
  <2>1. /\ req[r].phase = "respond" /\ req[r].fc \in Forecasts
        /\ req[r].kind \notin CommitFirst
    BY <1>11, <1>0, ArrivedType DEF Respond, At, RequestInv, RespondInv
  <2>2. /\ req'[r].phase = "commit" /\ req'[r].kind = req[r].kind
        /\ req'[r].fc = req[r].fc
    BY <1>11, <2>1, <1>0, ArrivedType DEF Respond, TypeOK
  <2>3. table' = table /\ work' = work /\ holder' = holder
    BY <2>0, <1>3
  <2>4. Holds(r)'
    BY <2>1, <2>2, <2>3, <1>0 DEF RequestInv, Holds, Holding
  <2>5. CommitInv(r)'
    BY <2>1, <2>2, <2>3, <1>0 DEF RequestInv, CommitInv, Answerable
  <2>6. ResolutionInv(r)' /\ FlushInv(r)' /\ RespondInv(r)' /\ SuccessInv(r)'
    BY <2>1, <2>2 DEF ResolutionInv, FlushInv, RespondInv, SuccessInv, At
  <2> QED
    BY <2>0, <1>3, <2>4, <2>5, <2>6 DEF RequestInv
<1>12. CASE CommitRequest(r)
  <2>0. req[r].phase = "commit"
    BY <1>12 DEF CommitRequest, At
  <2>f. PICK f \in Forecasts : f = req[r].fc
    BY <2>0, <1>0, ArrivedType
  <2>1. /\ \A g \in Forecasts : RowInv(g)'
        /\ \A q \in Requests \ {r} : RequestInv(q)'
    BY <2>0, <1>12, <1>1, CommitKeeps DEF CommitRequest
  <2>2. table'[f] = work[f] /\ \A g \in Forecasts : holder'[g] # r
    BY <2>0, <2>f, <1>0, <1>12, CommitPublishes DEF CommitRequest, RequestInv, Holds
  <2>3. /\ req'[r].phase = AfterCommit(r) /\ req'[r].kind = req[r].kind /\ req'[r].fc = f
        /\ req'[r].answer = req[r].answer
    BY <2>0, <2>f, <1>0, <1>12, Moved DEF CommitRequest, Phases, AfterCommit
  <2>4. SuccessInv(r)'
    <3>1. Recorded(r)'
      BY <2>0, <2>f, <2>2, <2>3, <1>0 DEF RequestInv, CommitInv, Recorded
    <3> QED
      BY <3>1, <2>0, <2>3, <1>0 DEF RequestInv, SuccessInv, RespondInv, At, AfterCommit
  <2> QED
    BY <2>1, <2>2, <2>3, <2>4
    DEF RequestInv, Holds, Holding, ResolutionInv, FlushInv, CommitInv, RespondInv, At,
        AfterCommit
<1>13. CASE Reply(r)
  <2>0. UNCHANGED storeVars
    BY <1>13 DEF Reply
  <2>1. req[r].phase = "reply" /\ req[r].fc \in Forecasts
    BY <1>13, <1>0, ArrivedType DEF Reply, At
  <2>2. /\ req'[r].phase = "done" /\ req'[r].kind = req[r].kind
        /\ req'[r].fc = req[r].fc
    BY <1>13, <2>1, <1>0, Moved DEF Reply, Answers
  <2> QED
    BY <2>0, <2>1, <2>2, <1>3, <1>0
    DEF RequestInv, Holds, Holding, ResolutionInv, FlushInv, CommitInv, SuccessInv, RespondInv,
        At, Recorded
<1>14. CASE Fail(r)
  <2>1. /\ req[r].phase # "idle" /\ Answer(r, Unless(r, "error"))
        /\ Rollback({r}) \/ (req[r].phase = "commit" /\ Commit(r))
    BY <1>14 DEF Fail, InFlight, At
  <2>2. /\ req'[r].phase = "done" /\ req'[r].kind = req[r].kind
        /\ req'[r].answer = Unless(r, "error")
    BY <2>1, <1>0, Moved DEF Answers, Unless
  <2>3. req'[r].answer # "ok" \/ req'[r].kind \notin CommitFirst
    BY <2>2, <1>14, <1>0 DEF Fail, InFlight, Phases, RequestInv, SuccessInv, RespondInv, At, Unless
  <2>4. CASE Rollback({r})
    BY <2>2, <2>3, <2>4, <1>0, <1>1, RollbackKeeps, Released
  <2>5. CASE req[r].phase = "commit" /\ Commit(r)
    <3>1. /\ \A g \in Forecasts : RowInv(g)'
          /\ \A q \in Requests \ {r} : RequestInv(q)'
      BY <2>5, <1>1, CommitKeeps
    <3>2. \A g \in Forecasts : holder'[g] # r
      BY <2>5, <1>0 DEF Commit
    <3>3. RequestInv(r)'
      BY <2>2, <2>3, <3>2, Released
    <3> QED
      BY <3>1, <3>3
  <2> QED
    BY <2>1, <2>4, <2>5
<1> QED
  BY <1>4, <1>5, <1>6, <1>7, <1>8, <1>9, <1>10, <1>11, <1>12, <1>13,
     <1>14 DEF RequestStep

\* Every step of the scheduled jobs keeps the invariant.
LEMMA SchedulerStepKeeps ==
  ASSUME Consistency, TypeOK', SchedulerStep
  PROVE  Consistency'
<1>0. /\ StoreTypeOK /\ Scheduler \in Requests \cup {Scheduler}
      /\ Requests \ {Scheduler} = Requests
      /\ \A f \in Forecasts : RowInv(f)
  BY Names DEF Consistency, TypeOK
<1>1. req' = req
  BY DEF SchedulerStep, CalibrationList, CalibrationEnd, CalibrationSkip, CalibrationUpdate,
         CalibrationFlush, Refresh, Backtest
<1>2. SUFFICES /\ \A f \in Forecasts : RowInv(f)'
               /\ \A q \in Requests : RequestInv(q)'
  BY Conclude
<1>3. CASE UNCHANGED storeVars
  BY <1>1, <1>3, StutterKeeps
<1>4. ASSUME NEW f \in Forecasts, Unused(f),
             \/ CreateRow(Scheduler, f, "active")
             \/ Write(Scheduler, f, [status |-> "resolved", outcome |-> Scheduler,
                  log |-> Events(Scheduler, {"created", "outcome_recorded"})])
      PROVE  /\ \A g \in Forecasts : RowInv(g)'
             /\ \A q \in Requests : RequestInv(q)'
  <2>1. PICK record : Write(Scheduler, f, record)
    BY <1>4 DEF CreateRow
  <2>2. RowFree(Scheduler, f) /\ table[f].outcome = NoSession /\ table[f].log = {}
    BY <1>4 DEF Unused, RowFree, NoRecord
  <2> QED
    BY <2>1, <2>2, <1>0, <1>1, WriteKeeps
<1>5. ASSUME NEW f \in Forecasts, MarkResolved(Scheduler, f)
      PROVE  /\ \A g \in Forecasts : RowInv(g)'
             /\ \A q \in Requests : RequestInv(q)'
  <2> DEFINE record == [work[f] EXCEPT !.status = "resolved"]
  <2>1. RowFree(Scheduler, f) /\ Write(Scheduler, f, record)
    BY <1>5, <1>0, Names, SeesWork DEF MarkResolved
  <2>2. record.outcome = work[f].outcome /\ record.log = work[f].log
    BY <1>0 DEF StoreTypeOK, ForecastRecords
  <2> QED
    BY <2>1, <2>2, <1>0, <1>1, WriteKeeps DEF RowInv
<1>6. ASSUME NEW f \in Forecasts, holder[f] = Scheduler, InsertOutcome(Scheduler, f, {})
      PROVE  /\ \A g \in Forecasts : RowInv(g)'
             /\ \A q \in Requests : RequestInv(q)'
  <2> DEFINE record == [work[f] EXCEPT !.outcome = Scheduler,
                          !.log = @ \cup Events(Scheduler, {"outcome_recorded"} \cup {})]
  <2>1. RowFree(Scheduler, f) /\ Write(Scheduler, f, record) /\ work[f].outcome = NoSession
    BY <1>6 DEF RowFree, Sees, InsertOutcome, OutcomeClashes
  <2>2. work[f].log \subseteq record.log
    BY <1>0 DEF StoreTypeOK, ForecastRecords
  <2> QED
    BY <2>1, <2>2, <1>0, <1>1, WriteKeeps DEF RowInv
<1>7. ASSUME Rollback({Scheduler})
      PROVE  /\ \A g \in Forecasts : RowInv(g)'
             /\ \A q \in Requests : RequestInv(q)'
  BY <1>7, <1>0, <1>1, Names, RollbackKeeps
<1>8. CASE CalibrationList \/ CalibrationEnd \/ \E f \in Forecasts : CalibrationSkip(f)
  BY <1>8, <1>3 DEF CalibrationList, CalibrationEnd, CalibrationSkip
<1>9. CASE \E f \in Forecasts : CalibrationUpdate(f)
  BY <1>9, <1>5 DEF CalibrationUpdate
<1>10. CASE \E f \in Forecasts : CalibrationFlush(f)
  BY <1>10, <1>6, <1>7 DEF CalibrationFlush, Unflushed
<1>11. CASE \E f \in Forecasts : Refresh(f) \/ Backtest(f)
  BY <1>11, <1>4 DEF Refresh, Backtest, CreateRow
<1> QED
  BY <1>8, <1>9, <1>10, <1>11 DEF SchedulerStep

\* The end of the process keeps the invariant.
LEMMA RestartKeeps ==
  ASSUME Consistency, TypeOK', Restart
  PROVE  Consistency'
<1>0. TypeOK /\ Requests \cup {Scheduler} \in SUBSET Sessions
  BY Names DEF Consistency
<1>1. Rollback(Requests \cup {Scheduler})
  BY DEF Restart
<1>2. /\ \A f \in Forecasts : RowInv(f)'
      /\ \A f \in Forecasts : holder'[f] \notin Requests
      /\ table' = table
  BY <1>0, <1>1, RollbackKeeps DEF Rollback
<1>3. ASSUME NEW r \in Requests
      PROVE  RequestInv(r)'
  <2>1. CASE req[r].phase \in InFlight
    <3>1. /\ req'[r].phase = "done" /\ req'[r].kind = req[r].kind
          /\ req'[r].answer = Unless(r, "lost")
      <4>1. req'[r] = [req[r] EXCEPT !.phase = "done", !.answer = Unless(r, "lost")]
        BY <2>1 DEF Restart
      <4> QED
        BY <4>1, <2>1, <1>0, ArrivedType DEF InFlight
    <3>2. req'[r].answer # "ok" \/ req'[r].kind \notin CommitFirst
      BY <3>1, <2>1 DEF Consistency, RequestInv, SuccessInv, RespondInv, At, InFlight, Unless
    <3> QED
      BY <3>1, <3>2, <1>2, Released
  <2>2. CASE req[r].phase \notin InFlight
    <3>1. req'[r] = req[r] /\ req[r].phase \in {"idle", "done"}
      <4>1. req'[r] = req[r]
        BY <2>2 DEF Restart
      <4> QED
        BY <4>1, <2>2, <1>0, ArrivedType DEF InFlight
    <3>2. SuccessInv(r)' /\ RespondInv(r)'
      <4>1. SuccessInv(r) /\ RespondInv(r)
        BY DEF Consistency, RequestInv
      <4> QED
        BY <4>1, <3>1, <1>2 DEF SuccessInv, RespondInv, At, Recorded
    <3> QED
      BY <3>1, <3>2, <1>2 DEF RequestInv, Holds, Holding, ResolutionInv, FlushInv, CommitInv
  <2> QED
    BY <2>1, <2>2
<1> QED
  BY <1>2, <1>3, Conclude

\* The invariant is inductive.
LEMMA ConsistencyStep == Consistency /\ [Next]_vars => Consistency'
<1> SUFFICES ASSUME Consistency, [Next]_vars
             PROVE  Consistency'
  OBVIOUS
<1>1. TypeOK'
  BY TypeStep DEF Consistency
<1>2. CASE \E r \in Requests : Arrive(r) \/ Create(r) \/ RequestStep(r) \/ Fail(r)
  BY <1>1, <1>2, RequestStepKeeps
<1>3. CASE SchedulerStep
  BY <1>1, <1>3, SchedulerStepKeeps
<1>4. CASE UNCHANGED vars
  <2>1. UNCHANGED storeVars /\ req' = req
    BY <1>4 DEF vars, storeVars
  <2> QED
    BY <1>1, <2>1, StutterKeeps, Conclude
<1>5. CASE Restart
  BY <1>1, <1>5, RestartKeeps
<1> QED
  BY <1>2, <1>3, <1>4, <1>5 DEF Next

\* The inductive invariant: committed rows, uncommitted rows and requests fit together.
THEOREM StaysConsistent == Spec => []Consistency
BY ConsistencyInit, ConsistencyStep, PTL DEF Spec

-----------------------------------------------------------------------------
(* What follows from it.                                                    *)

\* A forecast is resolved exactly when it has an outcome row, whatever requests and
\* scheduled jobs race for it.
THEOREM ResolvedExactly == Spec => []ResolvedIffOutcome
<1>1. Consistency => ResolvedIffOutcome
  BY DEF Consistency, RowInv, ResolvedIffOutcome
<1> QED
  BY <1>1, StaysConsistent, PTL

\* A success a client has seen is committed and stays committed.
THEOREM SuccessDurable == Spec => []SuccessIsDurable
<1>1. Consistency => SuccessIsDurable
  BY DEF Consistency, RequestInv, SuccessInv, SuccessIsDurable
<1> QED
  BY <1>1, StaysConsistent, PTL

\* The only step that changes the committed tables is a request's commit.
LEMMA OnlyCommits ==
  ASSUME Consistency, [Next]_vars, table' # table
  PROVE  \E r \in Requests : req[r].phase = "commit" /\ Commit(r)
<1>1. ASSUME NEW r \in Requests, Arrive(r) \/ Create(r) \/ RequestStep(r) \/ Fail(r)
      PROVE  table' = table \/ (req[r].phase = "commit" /\ Commit(r))
  BY <1>1 DEF Arrive, Create, RequestStep, Fail, ReadForecast, ReadOutcome, Transition,
              ResolveUpdate, ResolveFlush, Respond, CommitRequest, Reply, At, CreateRow,
                UpdateStatus,
              MarkResolved, InsertOutcome, Write, Rollback, storeVars
<1>2. SchedulerStep => table' = table
  BY DEF SchedulerStep, CalibrationList, CalibrationEnd, CalibrationSkip, CalibrationUpdate,
         CalibrationFlush, Refresh, Backtest, CreateRow, MarkResolved, InsertOutcome, Write,
         Rollback, storeVars
<1>3. Restart \/ UNCHANGED vars => table' = table
  BY DEF Restart, Rollback, vars, storeVars
<1> QED
  BY <1>1, <1>2, <1>3 DEF Next

\* A committed outcome is never replaced or removed.
THEOREM OutcomesImmutable == Spec => OutcomeWriteOnce
<1>1. ASSUME Consistency, [Next]_vars, NEW f \in Forecasts, table[f].outcome # NoSession
      PROVE  table'[f].outcome = table[f].outcome
  <2>1. CASE table' = table
    BY <2>1
  <2>2. CASE table' # table
    <3>1. PICK r \in Requests : req[r].phase = "commit" /\ Commit(r)
      BY <2>2, <1>1, OnlyCommits
    <3> QED
      BY <3>1, <1>1, CommitPublishes DEF Consistency, RowInv
  <2> QED
    BY <2>1, <2>2
<1>2. Consistency /\ [Next]_vars =>
        [\A f \in Forecasts : table[f].outcome # NoSession =>
           table'[f].outcome = table[f].outcome]_vars
  BY <1>1
<1> QED
  BY <1>2, StaysConsistent, PTL DEF Spec, OutcomeWriteOnce

-----------------------------------------------------------------------------
(* The store implements its abstract specification.                         *)

\* A commit is one birth, one withdrawal or one first outcome.
LEMMA CommitIsPromised ==
  ASSUME Consistency, NEW r \in Requests, req[r].phase = "commit", Commit(r)
  PROVE  Promise!PromiseNext
<1>f. PICK f \in Forecasts : f = req[r].fc
  BY CommitPublishes
<1>0. /\ CommitInv(r) /\ RowInv(f)
      /\ req[r].kind \in Kinds /\ r \in Sessions
      /\ work[f] \in ForecastRecords
  BY <1>f, ArrivedType DEF Consistency, RequestInv, TypeOK, StoreTypeOK
<1> DEFINE status == [g \in Forecasts |-> table[g].status]
           outcome == [g \in Forecasts |-> table[g].outcome]
<1>1. /\ table'[f] = work[f]
      /\ \A g \in Forecasts \ {f} : table'[g] = table[g]
  BY <1>f, CommitPublishes
<1>2. /\ status' = [status EXCEPT ![f] = work[f].status]
      /\ outcome' = [outcome EXCEPT ![f] = work[f].outcome]
  BY <1>1
<1>3. CASE req[r].kind \in Creations
  <2>1. Promise!Born(f)
    <3>1. table[f].status = "absent" /\ work[f].status \in BirthStatuses
          /\ work[f].outcome = table[f].outcome
      BY <1>0, <1>3, <1>f DEF CommitInv, NoRecord
    <3>2. outcome' = outcome
      BY <3>1, <1>1, <1>2
    <3> QED
      BY <3>1, <3>2, <1>2 DEF Promise!Born, BirthStatuses
  <2> QED
    BY <2>1 DEF Promise!PromiseNext
<1>4. CASE req[r].kind \in Transitions
  <2>1. Promise!Withdraw(f)
    <3>1. table[f].status \in Live /\ work[f].status \in Withdrawn
          /\ work[f].outcome = table[f].outcome
      BY <1>0, <1>4, <1>f DEF CommitInv
    <3>2. outcome' = outcome
      BY <3>1, <1>1, <1>2
    <3> QED
      BY <3>1, <3>2, <1>2 DEF Promise!Withdraw, Live, Withdrawn
  <2> QED
    BY <2>1 DEF Promise!PromiseNext
<1>5. CASE req[r].kind \in Resolutions
  <2>1. Promise!RecordOutcome(f, r)
    <3>1. /\ table[f].status \notin {"absent", "insufficient_data", "resolved"}
          /\ table[f].outcome = NoSession
          /\ work[f].status = "resolved" /\ work[f].outcome = r
      BY <1>0, <1>5, <1>f DEF CommitInv, RowInv, Answerable
    <3> QED
      BY <3>1, <1>2 DEF Promise!RecordOutcome
  <2> QED
    BY <2>1, <1>0 DEF Promise!PromiseNext
<1> QED
  BY <1>0, <1>3, <1>4, <1>5 DEF Kinds

\* The committed tables behave as ForecastPromise says.
THEOREM StoreKeepsPromise == Spec => KeepsPromise
<1>1. Init => Promise!PromiseInit
  BY DEF Init, StoreInit, NoRecord, Promise!PromiseInit
<1>2. Consistency /\ [Next]_vars => [Promise!PromiseNext]_Promise!promiseVars
  <2> SUFFICES ASSUME Consistency, [Next]_vars
               PROVE  [Promise!PromiseNext]_Promise!promiseVars
    OBVIOUS
  <2>1. CASE table' = table
    BY <2>1 DEF Promise!promiseVars
  <2>2. CASE table' # table
    BY <2>2, OnlyCommits, CommitIsPromised
  <2> QED
    BY <2>1, <2>2
<1> QED
  BY <1>1, <1>2, StaysConsistent, PTL DEF Spec, KeepsPromise, Promise!PromiseSpec
=============================================================================
