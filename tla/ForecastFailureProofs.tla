------------------------- MODULE ForecastFailureProofs ------------------------
(***************************************************************************)
(* What is left when something is refused or fails, for every set of       *)
(* forecasts, requests and sessions: a request is all or nothing, whatever *)
(* it was told, a conflict is final, and a lifecycle sweep does all of its *)
(* work or none and never replaces an outcome.                             *)
(***************************************************************************)
EXTENDS ForecastLifecycleProofs, ForecastSweep

-----------------------------------------------------------------------------
(* The invariant of refusals.                                               *)

\* A request that has written nothing.
Nothing(r) == \A f \in Forecasts : HasNothing(r, table[f]) /\ HasNothing(r, work[f])

\* A request that has written everything in the one row it holds, and committed nothing.
Pending(r) ==
  /\ \A f \in Forecasts : HasNothing(r, table[f])
  /\ \A f \in Forecasts :
       IF f = req[r].fc THEN HasEverything(r, req[r].kind, work[f]) ELSE HasNothing(r, work[f])

\* A request that has committed everything.
Everything(r) ==
  \A f \in Forecasts :
    IF f = req[r].fc
    THEN HasEverything(r, req[r].kind, table[f]) /\ HasEverything(r, req[r].kind, work[f])
    ELSE HasNothing(r, table[f]) /\ HasNothing(r, work[f])

TraceInv(r) ==
  /\ req[r].answer \in {"not_found", "conflict"} => req[r].phase = "done" /\ Nothing(r)
  /\ req[r].phase \notin {"respond", "commit", "reply", "done"} => Nothing(r)
  /\ req[r].phase \in {"respond", "commit"} => Pending(r)
  /\ req[r].phase = "reply" => Everything(r)
  /\ req[r].phase = "done" => Nothing(r) \/ Everything(r)

\* A forecast that has left the live statuses; what a transition has found of its
\* forecast stays true while it waits for the row.
Left(f) == table[f].status \notin Live \cup {"absent"}

ConflictInv(r) ==
  /\ req[r].answer = "conflict" => Left(req[r].fc)
  /\ req[r].phase \in {"readOutcome", "write"} => table[req[r].fc].status # "absent"

RefusalInv == Consistency /\ \A r \in Requests : TraceInv(r) /\ ConflictInv(r)

-----------------------------------------------------------------------------
(* What a step does to the store.                                           *)

\* What the statements rely on, with or without a sweep beside them: a free row shows
\* what is committed, and a resolution between its statements holds its row.
Sound ==
  /\ TypeOK
  /\ \A f \in Forecasts : holder[f] = NoSession => work[f] = table[f]
  /\ \A r \in Requests :
       req[r].phase = "flush" => req[r].kind \in Resolutions /\ holder[req[r].fc] = r

\* A session writes a row it may write, and adds only its own events and, where there is
\* none, its outcome; a request adds an outcome only if it is a resolution.
OwnWrite(s) ==
  \E f \in Forecasts, record \in ForecastRecords :
    /\ RowFree(s, f) /\ Write(s, f, record)
    /\ \/ record.outcome = work[f].outcome
       \/ /\ record.outcome = s /\ work[f].outcome = NoSession
          /\ s \in Requests => req[s].kind \in Resolutions
    /\ work[f].log \subseteq record.log
    /\ record.log \subseteq work[f].log \cup Events(s, EventKinds)

\* A rollback, after which none of its requests is between two statements.
EndedByRollback(S) == Rollback(S) /\ \A r \in Requests \cap S : req'[r].phase # "flush"

RequestCommits(r) == At(r, "commit") /\ Commit(r)

OwnStep(q) == Arrive(q) \/ Create(q) \/ RequestStep(q) \/ Fail(q)

\* The invariant of the requests says more.
LEMMA ConsistentIsSound == Consistency => Sound
BY DEF Consistency, Sound, RowInv, RequestInv, FlushInv, Holds, Holding

\* Who may write a row sees in it what work shows.
LEMMA SoundSeesWork ==
  ASSUME Sound, NEW s \in Sessions, NEW f \in Forecasts, RowFree(s, f)
  PROVE  Sees(s, f) = work[f]
BY Names DEF Sees, RowFree, Sound

\* A step that changes one field of a row in work writes a record.
LEMMA WriteSteps ==
  ASSUME Sound, NEW s \in Sessions, NEW f \in Forecasts
  PROVE  /\ \A st \in Statuses : CreateRow(s, f, st) => OwnWrite(s)
         /\ \A st \in Statuses, extra \in SUBSET EventKinds :
              UpdateStatus(s, f, st, extra) => OwnWrite(s)
         /\ MarkResolved(s, f) => OwnWrite(s)
         /\ \A extra \in SUBSET EventKinds :
              InsertOutcome(s, f, extra) /\ RowFree(s, f)
                /\ (s \in Requests => req[s].kind \in Resolutions) => OwnWrite(s)
<1>0. work[f] \in ForecastRecords /\ (holder[f] = NoSession => work[f] = table[f])
  BY DEF Sound, TypeOK, StoreTypeOK
<1>1. ASSUME NEW st \in Statuses, CreateRow(s, f, st)
      PROVE  OwnWrite(s)
  <2> DEFINE record == [NoRecord EXCEPT !.status = st, !.log = Events(s, {"created"})]
  <2>1. RowFree(s, f) /\ Write(s, f, record) /\ work[f] = NoRecord
    BY <1>1, <1>0 DEF CreateRow, Unused, RowFree
  <2>2. work[f].outcome = NoSession /\ work[f].log = {}
    BY <2>1 DEF NoRecord
  <2>3. /\ Events(s, {"created"}) \subseteq Events(s, EventKinds)
        /\ Events(s, {"created"}) \in SUBSET (EventKinds \X Sessions)
    BY DEF Events, EventKinds
  <2>4. record \in ForecastRecords
    BY <2>3, NoRecordType, StatusUpdates
  <2>5. record.outcome = NoSession /\ record.log = Events(s, {"created"})
    BY DEF NoRecord
  <2> HIDE DEF record
  <2> QED
    BY <2>1, <2>2, <2>3, <2>4, <2>5 DEF OwnWrite
<1>2. ASSUME NEW st \in Statuses, NEW extra \in SUBSET EventKinds, UpdateStatus(s, f, st, extra)
      PROVE  OwnWrite(s)
  <2> DEFINE record == [work[f] EXCEPT !.status = st,
                                       !.log = @ \cup Events(s, {"updated"} \cup extra)]
  <2>1. RowFree(s, f) /\ Write(s, f, record)
    BY <1>2, <1>0, SoundSeesWork DEF UpdateStatus
  <2>2. Events(s, {"updated"} \cup extra) \subseteq Events(s, EventKinds)
        /\ Events(s, EventKinds) \subseteq EventKinds \X Sessions
    BY <1>0 DEF Events, EventKinds
  <2>3. record \in ForecastRecords /\ record.outcome = work[f].outcome
        /\ work[f].log \subseteq record.log
        /\ record.log \subseteq work[f].log \cup Events(s, EventKinds)
    BY <2>2, <1>0 DEF ForecastRecords
  <2> HIDE DEF record
  <2> QED
    BY <2>1, <2>3 DEF OwnWrite
<1>3. ASSUME MarkResolved(s, f)
      PROVE  OwnWrite(s)
  <2> DEFINE record == [work[f] EXCEPT !.status = "resolved"]
  <2>1. RowFree(s, f) /\ Write(s, f, record)
    BY <1>3, <1>0, SoundSeesWork DEF MarkResolved
  <2>2. record \in ForecastRecords /\ record.outcome = work[f].outcome
        /\ work[f].log \subseteq record.log
        /\ record.log \subseteq work[f].log \cup Events(s, EventKinds)
    BY <1>0 DEF ForecastRecords, Statuses
  <2> HIDE DEF record
  <2> QED
    BY <2>1, <2>2 DEF OwnWrite
<1>4. ASSUME NEW extra \in SUBSET EventKinds, InsertOutcome(s, f, extra), RowFree(s, f),
             s \in Requests => req[s].kind \in Resolutions
      PROVE  OwnWrite(s)
  <2> DEFINE record == [work[f] EXCEPT !.outcome = s,
                          !.log = @ \cup Events(s, {"outcome_recorded"} \cup extra)]
  <2>1. Write(s, f, record) /\ work[f].outcome = NoSession
    BY <1>4, <1>0, SoundSeesWork DEF InsertOutcome, OutcomeClashes
  <2>2. Events(s, {"outcome_recorded"} \cup extra) \subseteq Events(s, EventKinds)
        /\ Events(s, EventKinds) \subseteq EventKinds \X Sessions
    BY <1>0 DEF Events, EventKinds
  <2>3. record \in ForecastRecords /\ record.outcome = s
        /\ work[f].log \subseteq record.log
        /\ record.log \subseteq work[f].log \cup Events(s, EventKinds)
    BY <2>2, <1>0 DEF ForecastRecords
  <2> HIDE DEF record
  <2> QED
    BY <2>1, <2>3, <1>4 DEF OwnWrite
<1> QED
  BY <1>1, <1>2, <1>3, <1>4

\* A step of a request leaves the store alone, writes one row, rolls its session back or
\* commits it.
LEMMA OwnStoreSteps ==
  ASSUME Sound, NEW r \in Requests, OwnStep(r)
  PROVE  UNCHANGED storeVars \/ OwnWrite(r) \/ EndedByRollback({r}) \/ RequestCommits(r)
<1>s. TypeOK /\ Scheduler \in Sessions /\ Requests \subseteq Sessions
  BY Names DEF Sound
<1>0. ASSUME NEW a \in Answers, Answer(r, a), Rollback({r}), req[r].phase # "idle"
      PROVE  EndedByRollback({r})
  BY <1>0, <1>s DEF EndedByRollback, Answer, TypeOK
<1>1. CASE Arrive(r) \/ ReadForecast(r) \/ ReadOutcome(r) \/ Respond(r) \/ Reply(r)
           \/ CommitRequest(r) \/ Fail(r)
  <2>1. Fail(r) => EndedByRollback({r}) \/ RequestCommits(r)
    BY <1>0 DEF Fail, Unless, Answers, InFlight, RequestCommits
  <2> QED
    BY <1>1, <2>1
    DEF Arrive, ReadForecast, ReadOutcome, Respond, Reply, CommitRequest, RequestCommits
<1>2. CASE Create(r)
  <2>1. PICK f \in Forecasts, st \in BirthStatuses : CreateRow(r, f, st)
    BY <1>2 DEF Create, Births, BirthStatuses
  <2>2. st \in Statuses
    BY DEF BirthStatuses, Statuses, Live
  <2> QED
    BY <2>1, <2>2, <1>s, WriteSteps
<1>3. CASE Transition(r)
  <2>1. req[r].fc \in Forecasts
    BY <1>3, <1>s, ArrivedType DEF Transition, At
  <2>2. NewStatus(req[r].kind) \in Statuses /\ {NewStatus(req[r].kind)} \in SUBSET EventKinds
    BY DEF NewStatus, Statuses, Withdrawn, EventKinds
  <2> QED
    BY <1>3, <2>1, <2>2, <1>s, WriteSteps DEF Transition
<1>4. CASE ResolveUpdate(r)
  <2>1. req[r].fc \in Forecasts
    BY <1>4, <1>s, ArrivedType DEF ResolveUpdate, At
  <2> QED
    BY <1>4, <2>1, <1>s, WriteSteps DEF ResolveUpdate
<1>5. CASE ResolveFlush(r)
  <2>1. /\ req[r].fc \in Forecasts /\ RowFree(r, req[r].fc)
        /\ req[r].kind \in Resolutions /\ req[r].phase # "idle"
    BY <1>5, <1>s, ArrivedType DEF ResolveFlush, At, Sound, RowFree
  <2>2. {"updated"} \in SUBSET EventKinds
    BY DEF EventKinds
  <2> QED
    BY <1>0, <1>5, <2>1, <2>2, <1>s, WriteSteps DEF ResolveFlush, Answers
<1> QED
  BY <1>1, <1>2, <1>3, <1>4, <1>5 DEF OwnStep, RequestStep

\* So does a step of the scheduler, but for the commit.
LEMMA SchedulerStoreSteps ==
  ASSUME Sound, SchedulerStep
  PROVE  UNCHANGED storeVars \/ OwnWrite(Scheduler) \/ EndedByRollback({Scheduler})
<1>s. TypeOK /\ Scheduler \in Sessions /\ Requests \subseteq Sessions
  BY Names DEF Sound
<1>1. CASE CalibrationList \/ CalibrationEnd \/ \E f \in Forecasts : CalibrationSkip(f)
  BY <1>1 DEF CalibrationList, CalibrationEnd, CalibrationSkip
<1>2. CASE \E f \in Forecasts : CalibrationUpdate(f)
  BY <1>2, <1>s, Names, WriteSteps DEF CalibrationUpdate
<1>3. ASSUME NEW f \in Forecasts, CalibrationFlush(f)
      PROVE  OwnWrite(Scheduler) \/ EndedByRollback({Scheduler})
  <2>1. RowFree(Scheduler, f) /\ {} \in SUBSET EventKinds
    BY <1>3 DEF CalibrationFlush, Unflushed, RowFree
  <2>2. Rollback({Scheduler}) => EndedByRollback({Scheduler})
    BY Names DEF EndedByRollback
  <2> QED
    BY <1>3, <2>1, <2>2, Names, WriteSteps DEF CalibrationFlush
<1>4. ASSUME NEW f \in Forecasts, Refresh(f)
      PROVE  OwnWrite(Scheduler)
  <2>1. "active" \in Statuses
    BY DEF Statuses, Live
  <2> QED
    BY <1>4, <2>1, <1>s, WriteSteps DEF Refresh
<1>5. ASSUME NEW f \in Forecasts, Backtest(f)
      PROVE  OwnWrite(Scheduler)
  <2> DEFINE record == [status |-> "resolved", outcome |-> Scheduler,
                        log |-> Events(Scheduler, {"created", "outcome_recorded"})]
  <2>1. /\ RowFree(Scheduler, f) /\ Write(Scheduler, f, record)
        /\ work[f].outcome = NoSession /\ work[f].log = {}
    BY <1>5 DEF Backtest, Unused, RowFree, Sound, NoRecord
  <2>2. record \in ForecastRecords /\ record.outcome = Scheduler
        /\ record.log \subseteq Events(Scheduler, EventKinds)
    BY Names DEF ForecastRecords, Statuses, Events, EventKinds
  <2> HIDE DEF record
  <2> QED
    BY <2>1, <2>2, Names DEF OwnWrite
<1> QED
  BY <1>1, <1>2, <1>3, <1>4, <1>5, Names DEF SchedulerStep

\* A restart rolls every session back.
LEMMA RestartStoreSteps ==
  ASSUME Sound, Restart
  PROVE  EndedByRollback(Requests \cup {Scheduler})
<1>1. TypeOK
  BY DEF Sound
<1>2. \A r \in Requests : req'[r].phase # "flush"
  <2> SUFFICES ASSUME NEW r \in Requests
               PROVE  req'[r].phase # "flush"
    OBVIOUS
  <2>1. CASE req[r].phase \in InFlight
    BY <2>1, <1>1, ArrivedType DEF Restart, InFlight
  <2>2. CASE req[r].phase \notin InFlight
    BY <2>2 DEF Restart, InFlight, Phases
  <2> QED
    BY <2>1, <2>2
<1> QED
  BY <1>2 DEF Restart, EndedByRollback

\* Every step leaves the store alone, writes one row, rolls sessions back, or commits a
\* request.
LEMMA StoreSteps ==
  ASSUME Sound, [Next]_vars
  PROVE  \/ UNCHANGED storeVars
         \/ \E s \in Requests \cup {Scheduler} : OwnWrite(s)
         \/ \E S \in SUBSET (Requests \cup {Scheduler}) : EndedByRollback(S)
         \/ \E r \in Requests : RequestCommits(r)
BY OwnStoreSteps, SchedulerStoreSteps, RestartStoreSteps
DEF Next, OwnStep, vars, storeVars

\* What a record says of a request.
SameTraces(r, a, b) ==
  /\ a.log \cap (EventKinds \X {r}) = b.log \cap (EventKinds \X {r})
  /\ (a.outcome = r) <=> (b.outcome = r)

\* Nobody else adds to what a request has written, or takes of it: others may only copy
\* its row between what is committed and what is in work, and a row it holds stays as it
\* is until the process ends.
LEMMA OthersTraces ==
  ASSUME Consistency, [Next]_vars, NEW q \in Requests, ~OwnStep(q), NEW f \in Forecasts
  PROVE  /\ SameTraces(q, table'[f], table[f]) \/
              (holder[f] # q /\ SameTraces(q, table'[f], work[f]))
         /\ \/ SameTraces(q, work'[f], work[f])
            \/ table' = table /\ SameTraces(q, work'[f], table[f]) /\ (holder[f] = q => Restart)
<1>0. StoreTypeOK /\ q # NoSession /\ q # Scheduler /\ q \in Sessions /\ Sound
  BY Names, ConsistentIsSound DEF Consistency, TypeOK
<1>1. CASE UNCHANGED storeVars
  BY <1>1 DEF storeVars, SameTraces
<1>2. ASSUME NEW s \in Requests \cup {Scheduler}, s # q, OwnWrite(s)
      PROVE  table' = table /\ SameTraces(q, work'[f], work[f])
  <2>1. PICK g \in Forecasts, record \in ForecastRecords :
          /\ RowFree(s, g) /\ Write(s, g, record)
          /\ record.outcome = work[g].outcome \/ (record.outcome = s /\ work[g].outcome = NoSession)
          /\ work[g].log \subseteq record.log
          /\ record.log \subseteq work[g].log \cup Events(s, EventKinds)
    BY <1>2 DEF OwnWrite
  <2>2. /\ table' = table /\ work'[g] = record
        /\ \A h \in Forecasts \ {g} : work'[h] = work[h]
    BY <2>1, <1>0 DEF Write, StoreTypeOK
  <2>3. SameTraces(q, record, work[g])
    <3>1. Events(s, EventKinds) \cap (EventKinds \X {q}) = {}
      BY <1>2 DEF Events
    <3>2. record.log \cap (EventKinds \X {q}) = work[g].log \cap (EventKinds \X {q})
      BY <2>1, <3>1
    <3> QED
      BY <1>0, <1>2, <2>1, <3>2 DEF SameTraces
  <2> QED
    BY <2>2, <2>3 DEF SameTraces
<1>3. ASSUME NEW S \in SUBSET (Requests \cup {Scheduler}), EndedByRollback(S), q \in S => Restart
      PROVE  /\ table' = table
             /\ \/ SameTraces(q, work'[f], work[f])
                \/ SameTraces(q, work'[f], table[f]) /\ (holder[f] = q => Restart)
  <2>1. /\ table' = table
        /\ work'[f] = IF holder[f] \in S THEN table[f] ELSE work[f]
    BY <1>3 DEF EndedByRollback, Rollback
  <2> QED
    BY <1>3, <2>1 DEF SameTraces
<1>4. ASSUME NEW r \in Requests, r # q, RequestCommits(r)
      PROVE  /\ SameTraces(q, table'[f], table[f]) \/
                  (holder[f] # q /\ SameTraces(q, table'[f], work[f]))
             /\ SameTraces(q, work'[f], work[f])
  <2>1. /\ work' = work
        /\ table'[f] = IF holder[f] = r THEN work[f] ELSE table[f]
    BY <1>4 DEF RequestCommits, Commit
  <2> QED
    BY <1>4, <2>1 DEF SameTraces
<1>5. ASSUME NEW r \in Requests, OwnStep(r)
      PROVE  r # q /\ (UNCHANGED storeVars \/ OwnWrite(r) \/ EndedByRollback({r}) \/ RequestCommits(r))
  BY <1>5, <1>0, OwnStoreSteps
<1>6. CASE \E r \in Requests : OwnStep(r)
  <2>1. PICK r \in Requests : OwnStep(r)
    BY <1>6
  <2>2. CASE OwnWrite(r)
    BY <1>2, <1>5, <2>1, <2>2 DEF SameTraces
  <2>3. CASE EndedByRollback({r})
    <3>1. {r} \in SUBSET (Requests \cup {Scheduler}) /\ q \notin {r}
      BY <1>5, <2>1
    <3> QED
      BY <1>3, <2>3, <3>1 DEF SameTraces
  <2>4. CASE RequestCommits(r)
    BY <1>4, <1>5, <2>1, <2>4
  <2> QED
    BY <1>1, <1>5, <2>1, <2>2, <2>3, <2>4
<1>7. CASE SchedulerStep
  <2>1. CASE OwnWrite(Scheduler)
    BY <1>0, <1>2, <2>1 DEF SameTraces
  <2>2. CASE EndedByRollback({Scheduler})
    <3>1. {Scheduler} \in SUBSET (Requests \cup {Scheduler}) /\ q \notin {Scheduler}
      BY <1>0
    <3> QED
      BY <1>3, <2>2, <3>1 DEF SameTraces
  <2> QED
    BY <1>0, <1>1, <1>7, <2>1, <2>2, SchedulerStoreSteps
<1>8. CASE Restart
  <2>1. EndedByRollback(Requests \cup {Scheduler})
    BY <1>0, <1>8, RestartStoreSteps
  <2> QED
    BY <1>3, <1>8, <2>1 DEF SameTraces
<1>9. CASE UNCHANGED vars
  BY <1>1, <1>9 DEF vars, storeVars
<1> QED
  BY <1>6, <1>7, <1>8, <1>9 DEF Next, OwnStep

-----------------------------------------------------------------------------
(* What a step does to one request.                                         *)

\* A request moves by a step of its own or is ended by a restart.
LEMMA RequestMoves ==
  ASSUME Consistency, [Next]_vars, NEW q \in Requests
  PROVE  \/ req'[q] = req[q]
         \/ OwnStep(q)
         \/ /\ req[q].phase \in InFlight
            /\ req'[q] = [req[q] EXCEPT !.phase = "done", !.answer = Unless(q, "lost")]
<1>0. TypeOK
  BY DEF Consistency
<1>1. ASSUME NEW r \in Requests, OwnStep(r), r # q
      PROVE  req'[q] = req[q]
  BY <1>1, <1>0, OthersWait DEF OwnStep
<1>2. CASE SchedulerStep
  BY <1>2 DEF SchedulerStep, CalibrationList, CalibrationEnd, CalibrationSkip,
              CalibrationUpdate, CalibrationFlush, Refresh, Backtest
<1>3. CASE Restart
  BY <1>3 DEF Restart
<1>4. CASE UNCHANGED vars
  BY <1>4 DEF vars
<1> QED
  BY <1>1, <1>2, <1>3, <1>4 DEF Next, OwnStep

\* What a request's own step makes of its record.
LEMMA OwnStepShape ==
  ASSUME Consistency, NEW q \in Requests, OwnStep(q)
  PROVE  /\ req[q].phase # "done"
         /\ req[q].phase # "idle" => req'[q].kind = req[q].kind /\ req'[q].fc = req[q].fc
         /\ \/ req'[q].phase = "done"
            \/ req'[q].answer \in {"none", "ok"}
            \/ req'[q].answer = req[q].answer
<1>0. TypeOK
  BY DEF Consistency
<1>1. CASE Arrive(q) \/ Create(q)
  BY <1>1, <1>0 DEF Arrive, Create, At, TypeOK
<1>2. CASE Respond(q)
  <2>1. req'[q] = [req[q] EXCEPT !.phase = "commit", !.answer = "ok"]
    BY <1>2, <1>0 DEF Respond, TypeOK
  <2> QED
    BY <1>2, <2>1, <1>0, ArrivedType DEF Respond, At
<1>3. CASE Fail(q) \/ (RequestStep(q) /\ ~Respond(q))
  <2>1. req[q].phase \notin {"idle", "done"}
    BY <1>3 DEF Fail, RequestStep, ReadForecast, ReadOutcome, Transition, ResolveUpdate,
                ResolveFlush, Respond, CommitRequest, Reply, At, InFlight
  <2>2. \/ \E p \in Phases : Goto(q, p)
        \/ \E a \in Answers : Answer(q, a)
    BY <1>3 DEF Fail, RequestStep, ReadForecast, ReadOutcome, Transition, ResolveUpdate,
                ResolveFlush, CommitRequest, Reply, Phases, Answers, Written, AfterCommit, Unless
  <2> QED
    BY <2>1, <2>2, <1>0, Moved
<1> QED
  BY <1>1, <1>2, <1>3 DEF OwnStep

\* A forecast that exists stays, and one that has left the live statuses does not return.
LEMMA StatusForward ==
  ASSUME Consistency, [Next]_vars, NEW f \in Forecasts
  PROVE  /\ table[f].status # "absent" => table'[f].status # "absent"
         /\ Left(f) => Left(f)'
<1>1. CASE table' = table
  BY <1>1 DEF Left
<1>2. CASE table' # table
  <2>1. PICK r \in Requests : req[r].phase = "commit" /\ Commit(r)
    BY <1>2, OnlyCommits
  <2>2. CommitInv(r) /\ req[r].kind \in Kinds
    BY <2>1, ArrivedType DEF Consistency, RequestInv
  <2>3. req[r].fc = f => /\ table[f].status # "absent" => work[f].status # "absent"
                         /\ Left(f) => work[f].status \notin Live \cup {"absent"}
    BY <2>1, <2>2 DEF CommitInv, Kinds, NoRecord, Left, Live, Withdrawn
  <2> QED
    BY <2>1, <2>3, CommitPublishes DEF Left
<1> QED
  BY <1>1, <1>2

-----------------------------------------------------------------------------
(* The invariant holds.                                                     *)

\* Before the first request there is nothing to find.
LEMMA RefusalInit == Init => RefusalInv
<1> SUFFICES ASSUME Init
             PROVE  RefusalInv
  OBVIOUS
<1>1. ASSUME NEW r \in Requests
      PROVE  TraceInv(r) /\ ConflictInv(r)
  <2>1. req[r] = NoRequest
    BY DEF Init
  <2>2. \A f \in Forecasts : table[f] = NoRecord /\ work[f] = NoRecord
    BY DEF Init, StoreInit
  <2>3. Nothing(r)
    BY <2>2, Names DEF Nothing, HasNothing, NoRecord
  <2> QED
    BY <2>1, <2>3 DEF TraceInv, ConflictInv, NoRequest
<1> QED
  BY <1>1, ConsistencyInit DEF RefusalInv

\* Others leave a request what it has, and a restart gives it all of it or none.
LEMMA OthersKeepTraces ==
  ASSUME Consistency, [Next]_vars, NEW q \in Requests, TraceInv(q), ~OwnStep(q)
  PROVE  TraceInv(q)'
<1>0. TypeOK
  BY DEF Consistency
<1>1. \A f \in Forecasts :
        /\ SameTraces(q, table'[f], table[f]) \/
             (holder[f] # q /\ SameTraces(q, table'[f], work[f]))
        /\ \/ SameTraces(q, work'[f], work[f])
           \/ table' = table /\ SameTraces(q, work'[f], table[f]) /\ (holder[f] = q => Restart)
  BY OthersTraces
<1>2. Nothing(q) => Nothing(q)'
  BY <1>1 DEF Nothing, HasNothing, SameTraces
<1>3. ASSUME Everything(q), req'[q].fc = req[q].fc, req'[q].kind = req[q].kind
      PROVE  Everything(q)'
  <2>1. \A f \in Forecasts : f # req[q].fc =>
          HasNothing(q, table'[f]) /\ HasNothing(q, work'[f])
    BY <1>1, <1>3 DEF Everything, HasNothing, SameTraces
  <2>2. \A f \in Forecasts : f = req[q].fc =>
          /\ SameTraces(q, table'[f], table[f])
          /\ SameTraces(q, work'[f], table[f])
    BY <1>1, <1>3 DEF Everything, HasEverything, SameTraces
  <2>3. \A f \in Forecasts : f = req[q].fc =>
          /\ HasEverything(q, req[q].kind, table'[f])
          /\ HasEverything(q, req[q].kind, work'[f])
    BY <2>2, <1>3 DEF Everything, HasEverything, SameTraces
  <2> QED
    BY <1>3, <2>1, <2>3 DEF Everything, HasNothing
<1>4. ASSUME Pending(q), req[q].phase \in {"respond", "commit"}, req'[q] = req[q], ~Restart
      PROVE  Pending(q)'
  <2>1. holder[req[q].fc] = q
    BY <1>4 DEF Consistency, RequestInv, Holds, Holding
  <2>2. \A f \in Forecasts : HasNothing(q, table'[f])
    BY <1>1, <1>4, <2>1 DEF Pending, HasNothing, SameTraces
  <2>3. \A f \in Forecasts : f # req[q].fc => HasNothing(q, work'[f])
    BY <1>1, <1>4 DEF Pending, HasNothing, SameTraces
  <2>4. \A f \in Forecasts : f = req[q].fc => HasEverything(q, req[q].kind, work'[f])
    BY <1>1, <1>4, <2>1 DEF Pending, HasEverything, SameTraces
  <2> QED
    BY <1>4, <2>2, <2>3, <2>4 DEF Pending, HasNothing
<1>5. CASE Restart /\ req[q].phase \in InFlight
  <2>1. /\ req'[q].phase = "done" /\ req'[q].kind = req[q].kind /\ req'[q].fc = req[q].fc
        /\ req'[q].answer = Unless(q, "lost")
    <3>1. req'[q] = [req[q] EXCEPT !.phase = "done", !.answer = Unless(q, "lost")]
      BY <1>5 DEF Restart
    <3> QED
      BY <3>1, <1>5, <1>0, ArrivedType DEF InFlight
  <2>2. req'[q].answer \notin {"not_found", "conflict"}
    BY <2>1 DEF Unless
  <2>3. Nothing(q)' \/ Everything(q)'
    <3>1. CASE req[q].phase \in {"respond", "commit"}
      <4>1. Pending(q) /\ holder[req[q].fc] = q
        BY <3>1 DEF TraceInv, Consistency, RequestInv, Holds, Holding
      <4>2. /\ table' = table
            /\ \A f \in Forecasts :
                 work'[f] = IF holder[f] \in Requests \cup {Scheduler} THEN table[f] ELSE work[f]
        BY <1>5 DEF Restart, Rollback
      <4>3. Nothing(q)'
        BY <4>1, <4>2 DEF Nothing, Pending, HasNothing
      <4> QED
        BY <4>3
    <3>2. CASE req[q].phase \notin {"respond", "commit"}
      <4>1. Nothing(q) \/ Everything(q)
        BY <3>2 DEF TraceInv
      <4> QED
        BY <4>1, <1>2, <1>3, <2>1
    <3> QED
      BY <3>1, <3>2
  <2> QED
    BY <2>1, <2>2, <2>3 DEF TraceInv
<1>6. CASE req'[q] = req[q] /\ ~(Restart /\ req[q].phase \in InFlight)
  <2>1. req[q].phase \in {"respond", "commit"} => Pending(q)'
    BY <1>4, <1>6 DEF TraceInv, InFlight, Phases
  <2> QED
    BY <1>2, <1>3, <1>6, <2>1 DEF TraceInv
<1>7. req'[q] = req[q] \/ (Restart /\ req[q].phase \in InFlight)
  <2>1. ASSUME NEW r \in Requests, OwnStep(r)
        PROVE  req'[q] = req[q]
    <3>1. r # q
      BY <2>1
    <3> QED
      BY <2>1, <3>1, <1>0, OthersWait DEF OwnStep
  <2>2. CASE SchedulerStep
    BY <2>2 DEF SchedulerStep, CalibrationList, CalibrationEnd, CalibrationSkip,
                CalibrationUpdate, CalibrationFlush, Refresh, Backtest
  <2>3. CASE Restart
    BY <2>3 DEF Restart
  <2>4. CASE UNCHANGED vars
    BY <2>4 DEF vars
  <2> QED
    BY <2>1, <2>2, <2>3, <2>4 DEF Next, OwnStep
<1> QED
  BY <1>5, <1>6, <1>7

\* A write of the one row a request holds makes it whole or leaves it without a trace.
LEMMA WholeWrite ==
  ASSUME StoreTypeOK, NEW q \in Requests, Nothing(q), NEW f \in Forecasts,
         NEW record, Write(q, f, record)
  PROVE  /\ HasNothing(q, record) => Nothing(q)'
         /\ req'[q].fc = f /\ HasEverything(q, req'[q].kind, record) => Pending(q)'
<1>1. /\ table' = table /\ work'[f] = record
      /\ \A g \in Forecasts \ {f} : work'[g] = work[g]
  BY DEF Write, StoreTypeOK
<1>2. HasNothing(q, record) => Nothing(q)'
  BY <1>1 DEF Nothing, HasNothing
<1>3. ASSUME req'[q].fc = f, HasEverything(q, req'[q].kind, record)
      PROVE  Pending(q)'
  BY <1>1, <1>3 DEF Nothing, HasNothing, Pending, HasEverything
<1> QED
  BY <1>2, <1>3

\* The traces of each kind.
LEMMA TracesOf ==
  ASSUME NEW kind \in Kinds
  PROVE  /\ kind \in Creations => Traces(kind) = {"created"} /\ kind \notin Resolutions
         /\ kind \in Transitions =>
              Traces(kind) = {"updated", NewStatus(kind)} /\ kind \notin Resolutions
         /\ kind \in Resolutions => Traces(kind) = {"updated", "outcome_recorded"}
<1>1. /\ kind \in Creations => kind \notin Transitions /\ kind \notin Resolutions
      /\ kind \in Transitions => kind \notin Creations /\ kind \notin Resolutions
      /\ kind \in Resolutions => kind \notin Creations /\ kind \notin Transitions
  BY DEF Creations, Transitions, Resolutions
<1> QED
  BY <1>1 DEF Traces

\* Adding the events of a kind to a record without a trace.
LEMMA AddedTraces ==
  ASSUME NEW q \in Sessions, NEW before, before \cap (EventKinds \X {q}) = {},
         NEW kinds \in SUBSET EventKinds
  PROVE  (before \cup Events(q, kinds)) \cap (EventKinds \X {q}) = Events(q, kinds)
BY DEF Events

\* A request's own step keeps its traces in step with its phase.
LEMMA OwnStepTraces ==
  ASSUME Consistency, NEW q \in Requests, TraceInv(q), OwnStep(q)
  PROVE  TraceInv(q)'
<1>0. /\ TypeOK /\ StoreTypeOK /\ q \in Sessions /\ q # NoSession
      /\ \A f \in Forecasts : RowInv(f)
  BY Names DEF Consistency, TypeOK
<1>1. CASE Arrive(q)
  <2>1. /\ req'[q].phase = "read" /\ req'[q].answer = "none" /\ UNCHANGED storeVars
        /\ req[q].phase = "idle"
    BY <1>1, <1>0 DEF Arrive, At, TypeOK
  <2>2. Nothing(q)'
    BY <2>1 DEF TraceInv, Nothing, HasNothing, storeVars
  <2> QED
    BY <2>1, <2>2 DEF TraceInv
<1>2. CASE Create(q)
  <2>1. PICK k \in Creations, st \in BirthStatuses, f \in Forecasts :
          /\ CreateRow(q, f, st)
          /\ req' = [req EXCEPT ![q] = [phase |-> Written(k), kind |-> k, fc |-> f,
                                         answer |-> "none"]]
    BY <1>2 DEF Create, Births, BirthStatuses
  <2> DEFINE record == [NoRecord EXCEPT !.status = st, !.log = Events(q, {"created"})]
  <2>2. Write(q, f, record) /\ record.outcome = NoSession /\ record.log = Events(q, {"created"})
    BY <2>1 DEF CreateRow, NoRecord
  <2>3. /\ req'[q].phase \in {"respond", "commit"} /\ req'[q].kind = k /\ req'[q].fc = f
        /\ req'[q].answer = "none"
    BY <2>1, <1>0 DEF TypeOK, Written
  <2>4. Nothing(q)
    BY <1>2 DEF TraceInv, Create, At
  <2>5. Traces(k) = {"created"} /\ k \notin Resolutions
    BY TracesOf DEF Kinds
  <2> HIDE DEF record
  <2>6. HasEverything(q, req'[q].kind, record)
    BY <2>2, <2>3, <2>5, <1>0 DEF HasEverything, Events, EventKinds
  <2>7. Pending(q)'
    BY <2>2, <2>3, <2>4, <2>6, <1>0, WholeWrite
  <2> QED
    BY <2>3, <2>7 DEF TraceInv
<1>3. ASSUME RequestStep(q) \/ Fail(q)
      PROVE  TraceInv(q)'
  <2>0. req[q].phase \notin {"idle", "done"}
    BY <1>3 DEF Fail, RequestStep, ReadForecast, ReadOutcome, Transition, ResolveUpdate,
                ResolveFlush, Respond, CommitRequest, Reply, At, InFlight
  <2>a. req[q].answer \notin {"not_found", "conflict"}
    BY <2>0 DEF TraceInv
  <2>f. PICK f \in Forecasts : f = req[q].fc
    BY <2>0, <1>0, ArrivedType
  <2>k. PICK kind \in Kinds : kind = req[q].kind
    BY <2>0, <1>0, ArrivedType
  <2>m. /\ \A p \in Phases : Goto(q, p) =>
             req'[q].phase = p /\ req'[q].kind = kind /\ req'[q].fc = f
               /\ req'[q].answer = req[q].answer
        /\ \A a \in Answers : Answer(q, a) =>
             req'[q].phase = "done" /\ req'[q].kind = kind /\ req'[q].fc = f
               /\ req'[q].answer = a
    BY <2>0, <2>f, <2>k, <1>0, Moved
  <2>w. Written(kind) \in {"respond", "commit"} /\ {"respond", "commit"} \subseteq Phases
    BY DEF Written, Phases
  <2>u. UNCHANGED storeVars /\ Nothing(q) => Nothing(q)'
    BY DEF Nothing, HasNothing, storeVars
  <2>1. CASE ReadForecast(q) \/ ReadOutcome(q)
    <3>1. Nothing(q)'
      BY <2>1, <2>u DEF TraceInv, ReadForecast, ReadOutcome, At
    <3>2. /\ req'[q].phase \in {"readOutcome", "write", "done"}
          /\ req'[q].answer \in {"not_found", "conflict"} => req'[q].phase = "done"
      BY <2>1, <2>a, <2>m DEF ReadForecast, ReadOutcome, Phases, Answers
    <3> QED
      BY <3>1, <3>2 DEF TraceInv
  <2>2. CASE Transition(q)
    <3>1. Nothing(q) /\ kind \in Transitions
      BY <2>2, <2>k DEF TraceInv, Transition, At
    <3>2. CASE UNCHANGED storeVars /\ Answer(q, "conflict")
      BY <3>1, <3>2, <2>m, <2>u DEF TraceInv, Answers
    <3>3. CASE UpdateStatus(q, f, NewStatus(kind), {NewStatus(kind)}) /\ Goto(q, Written(kind))
      <4> DEFINE record == [work[f] EXCEPT !.status = NewStatus(kind),
                              !.log = @ \cup Events(q, {"updated"} \cup {NewStatus(kind)})]
      <4>1. Write(q, f, record)
        BY <3>3, <1>0, SeesWork DEF UpdateStatus
      <4>2. /\ record.outcome = work[f].outcome
            /\ record.log = work[f].log \cup Events(q, {"updated"} \cup {NewStatus(kind)})
        BY <1>0 DEF StoreTypeOK, ForecastRecords
      <4>3. /\ req'[q].phase \in {"respond", "commit"} /\ req'[q].kind = kind
            /\ req'[q].fc = f /\ req'[q].answer = req[q].answer
        BY <3>3, <2>m, <2>w
      <4>4. /\ Traces(kind) = {"updated"} \cup {NewStatus(kind)} /\ kind \notin Resolutions
            /\ Traces(kind) \in SUBSET EventKinds
        BY <3>1, TracesOf DEF NewStatus, EventKinds
      <4> HIDE DEF record
      <4>5. work[f].log \cap (EventKinds \X {q}) = {} /\ work[f].outcome # q
        BY <3>1 DEF Nothing, HasNothing
      <4>6. record.log \cap (EventKinds \X {q}) = Events(q, Traces(kind))
        BY <4>2, <4>4, <4>5, <1>0, AddedTraces
      <4>7. HasEverything(q, req'[q].kind, record)
        BY <4>2, <4>3, <4>4, <4>5, <4>6 DEF HasEverything
      <4>8. Pending(q)'
        BY <4>1, <4>3, <4>7, <3>1, <1>0, WholeWrite
      <4> QED
        BY <4>3, <4>8, <2>a DEF TraceInv
    <3> QED
      BY <2>2, <2>f, <2>k, <3>2, <3>3 DEF Transition
  <2>3. CASE ResolveUpdate(q)
    <3> DEFINE record == [work[f] EXCEPT !.status = "resolved"]
    <3>1. Nothing(q) /\ Write(q, f, record)
      BY <2>3, <2>f, <1>0, SeesWork DEF TraceInv, ResolveUpdate, At, MarkResolved
    <3>2. record.outcome = work[f].outcome /\ record.log = work[f].log
      BY <1>0 DEF StoreTypeOK, ForecastRecords
    <3>3. req'[q].phase = "flush" /\ req'[q].answer = req[q].answer
      BY <2>3, <2>m DEF ResolveUpdate, Phases
    <3> HIDE DEF record
    <3>4. HasNothing(q, record)
      BY <3>1, <3>2 DEF Nothing, HasNothing
    <3>5. Nothing(q)'
      BY <3>1, <3>4, <1>0, WholeWrite
    <3> QED
      BY <3>3, <3>5, <2>a DEF TraceInv
  <2>4. CASE ResolveFlush(q)
    <3>1. /\ Nothing(q) /\ kind \in Resolutions /\ holder[f] = q
      BY <2>4, <2>f, <2>k
      DEF TraceInv, ResolveFlush, At, Consistency, RequestInv, FlushInv, Holds, Holding
    <3>2. CASE Rollback({q}) /\ Answer(q, "conflict")
      <4>1. Nothing(q)'
        BY <3>1, <3>2 DEF Rollback, Nothing, HasNothing
      <4> QED
        BY <3>2, <4>1, <2>m DEF TraceInv, Answers
    <3>3. CASE InsertOutcome(q, f, {"updated"}) /\ Goto(q, Written(kind))
      <4> DEFINE record == [work[f] EXCEPT !.outcome = q,
                              !.log = @ \cup Events(q, {"outcome_recorded"} \cup {"updated"})]
      <4>1. Write(q, f, record)
        BY <3>1, <3>3 DEF InsertOutcome, Sees
      <4>2. /\ record.outcome = q
            /\ record.log = work[f].log \cup Events(q, {"outcome_recorded"} \cup {"updated"})
        BY <1>0 DEF StoreTypeOK, ForecastRecords
      <4>3. /\ req'[q].phase \in {"respond", "commit"} /\ req'[q].kind = kind
            /\ req'[q].fc = f /\ req'[q].answer = req[q].answer
        BY <3>3, <2>m, <2>w
      <4>4. /\ Traces(kind) = {"outcome_recorded"} \cup {"updated"}
            /\ Traces(kind) \in SUBSET EventKinds
        BY <3>1, TracesOf DEF EventKinds
      <4> HIDE DEF record
      <4>5. work[f].log \cap (EventKinds \X {q}) = {}
        BY <3>1 DEF Nothing, HasNothing
      <4>6. record.log \cap (EventKinds \X {q}) = Events(q, Traces(kind))
        <5>1. record.log = work[f].log \cup Events(q, Traces(kind))
          BY <4>2, <4>4, Zenon
        <5>2. (work[f].log \cup Events(q, Traces(kind))) \cap (EventKinds \X {q})
                = Events(q, Traces(kind))
          BY <4>4, <4>5, <1>0, AddedTraces
        <5> QED
          BY <5>1, <5>2
      <4>7. HasEverything(q, req'[q].kind, record)
        BY <4>2, <4>3, <4>6, <3>1 DEF HasEverything
      <4>8. Pending(q)'
        BY <4>1, <4>3, <4>7, <3>1, <1>0, WholeWrite
      <4> QED
        BY <4>3, <4>8, <2>a DEF TraceInv
    <3> QED
      BY <2>4, <2>f, <2>k, <3>2, <3>3 DEF ResolveFlush
  <2>5. CASE Respond(q)
    <3>1. req'[q] = [req[q] EXCEPT !.phase = "commit", !.answer = "ok"]
      BY <2>5, <1>0 DEF Respond, TypeOK
    <3>2. /\ req'[q].phase = "commit" /\ req'[q].kind = req[q].kind
          /\ req'[q].fc = req[q].fc /\ req'[q].answer = "ok"
      BY <3>1, <2>0, <1>0, ArrivedType
    <3>3. Pending(q) /\ UNCHANGED storeVars
      BY <2>5 DEF TraceInv, Respond, At
    <3>4. Pending(q)'
      BY <3>2, <3>3 DEF Pending, HasNothing, HasEverything, storeVars
    <3> QED
      BY <3>2, <3>4 DEF TraceInv
  <2>6. ASSUME req[q].phase = "commit", Commit(q), req'[q].fc = f, req'[q].kind = kind
        PROVE  Everything(q)'
    <3>1. Pending(q)
      BY <2>6 DEF TraceInv
    <3>2. /\ table'[f] = work[f] /\ work' = work
          /\ \A g \in Forecasts \ {f} : table'[g] = table[g]
      BY <2>6, <2>f, CommitPublishes
    <3> QED
      BY <2>6, <2>f, <2>k, <3>1, <3>2 DEF Pending, Everything, HasNothing, HasEverything
  <2>7. CASE CommitRequest(q)
    <3>1. /\ req[q].phase = "commit" /\ Commit(q)
          /\ req'[q].phase \in {"reply", "done"} /\ req'[q].kind = kind
          /\ req'[q].fc = f /\ req'[q].answer = req[q].answer
      BY <2>7, <2>m DEF CommitRequest, At, Phases, AfterCommit
    <3> QED
      BY <3>1, <2>6, <2>a DEF TraceInv
  <2>8. CASE Reply(q)
    <3>1. /\ req'[q].phase = "done" /\ req'[q].kind = kind
          /\ req'[q].fc = f /\ req'[q].answer = "ok"
      BY <2>8, <2>m DEF Reply, Answers
    <3>2. Everything(q) /\ UNCHANGED storeVars
      BY <2>8 DEF TraceInv, Reply, At
    <3>3. Everything(q)'
      BY <3>1, <3>2, <2>f, <2>k DEF Everything, HasNothing, HasEverything, storeVars
    <3> QED
      BY <3>1, <3>3 DEF TraceInv
  <2>9. CASE Fail(q)
    <3>1. /\ req'[q].phase = "done" /\ req'[q].kind = kind
          /\ req'[q].fc = f /\ req'[q].answer \in {"ok", "error"}
      BY <2>9, <2>m DEF Fail, Answers, Unless
    <3>2. CASE Rollback({q})
      <4>1. /\ table' = table
            /\ \A g \in Forecasts : work'[g] = IF holder[g] = q THEN table[g] ELSE work[g]
        BY <3>2 DEF Rollback
      <4>2. Nothing(q) => Nothing(q)'
        BY <4>1 DEF Nothing, HasNothing
      <4>3. Pending(q) /\ holder[f] = q => Nothing(q)'
        BY <4>1, <2>f DEF Nothing, Pending, HasNothing
      <4>4. Everything(q) => Everything(q)'
        BY <4>1, <3>1, <2>f, <2>k DEF Everything, HasNothing, HasEverything
      <4>5. req[q].phase \in {"respond", "commit"} => holder[f] = q
        BY <2>f DEF Consistency, RequestInv, Holds, Holding
      <4>6. Nothing(q)' \/ Everything(q)'
        BY <4>2, <4>3, <4>4, <4>5 DEF TraceInv
      <4> QED
        BY <3>1, <4>6 DEF TraceInv
    <3>3. CASE At(q, "commit") /\ Commit(q)
      <4>1. Everything(q)'
        BY <3>1, <3>3, <2>6 DEF At
      <4> QED
        BY <3>1, <4>1 DEF TraceInv
    <3> QED
      BY <2>9, <3>2, <3>3 DEF Fail
  <2> QED
    BY <1>3, <2>1, <2>2, <2>3, <2>4, <2>5, <2>7, <2>8, <2>9 DEF RequestStep
<1> QED
  BY <1>1, <1>2, <1>3 DEF OwnStep

\* Whatever step is taken, a request's traces fit its phase.
LEMMA TraceStep ==
  ASSUME Consistency, [Next]_vars, NEW q \in Requests, TraceInv(q)
  PROVE  TraceInv(q)'
BY OwnStepTraces, OthersKeepTraces

\* A conflict is told only when it is final, whatever the request saw before.
LEMMA ConflictStep ==
  ASSUME Consistency, [Next]_vars, NEW q \in Requests, TraceInv(q), ConflictInv(q)
  PROVE  ConflictInv(q)'
<1>0. TypeOK /\ RequestInv(q) /\ \A f \in Forecasts : RowInv(f)
  BY DEF Consistency
<1>1. \A f \in Forecasts : /\ table[f].status # "absent" => table'[f].status # "absent"
                           /\ Left(f) => Left(f)'
  BY StatusForward
<1>2. CASE req'[q] = req[q]
  <2>1. CASE req[q].phase = "idle"
    BY <2>1, <1>2, <1>0 DEF ConflictInv, TypeOK, RequestStates, NoRequest
  <2>2. CASE req[q].phase # "idle"
    BY <2>2, <1>0, <1>1, <1>2, ArrivedType DEF ConflictInv, Left
  <2> QED
    BY <2>1, <2>2
<1>3. CASE /\ req[q].phase \in InFlight
           /\ req'[q] = [req[q] EXCEPT !.phase = "done", !.answer = Unless(q, "lost")]
  <2>1. req'[q].phase = "done" /\ req'[q].answer \in {"ok", "lost"}
    BY <1>3, <1>0, ArrivedType DEF InFlight, Unless
  <2> QED
    BY <2>1 DEF ConflictInv
<1>4. CASE Arrive(q) \/ Create(q)
  <2>1. req'[q].phase \in {"read", "commit", "respond"} /\ req'[q].answer = "none"
    BY <1>4, <1>0 DEF Arrive, Create, TypeOK, Written
  <2> QED
    BY <2>1 DEF ConflictInv
<1>5. CASE RequestStep(q) \/ Fail(q)
  <2>1. req[q].phase \notin {"idle", "done"} /\ req[q].answer # "conflict"
    <3>1. req[q].phase \notin {"idle", "done"}
      BY <1>5 DEF Fail, RequestStep, ReadForecast, ReadOutcome, Transition, ResolveUpdate,
                  ResolveFlush, Respond, CommitRequest, Reply, At, InFlight
    <3> QED
      BY <3>1 DEF TraceInv
  <2>f. PICK f \in Forecasts : f = req[q].fc
    BY <2>1, <1>0, ArrivedType
  <2>2. CASE ReadForecast(q)
    <3>1. Sees(q, f) = table[f] /\ table' = table /\ req[q].phase = "read"
      BY <2>2, <2>f, HoldsNothing DEF ReadForecast, At, Holding, Sees, storeVars
    <3>2. /\ req'[q].fc = f
          /\ req'[q].answer = "conflict" => Left(f)
          /\ req'[q].phase \in {"readOutcome", "write"} => table[f].status # "absent"
      BY <2>2, <2>f, <2>1, <3>1, <1>0, Moved DEF ReadForecast, Answers, Phases, Left
    <3> QED
      BY <3>1, <3>2 DEF ConflictInv, Left
  <2>3. CASE ReadOutcome(q)
    <3>1. Sees(q, f) = table[f] /\ table' = table /\ req[q].phase = "readOutcome"
      BY <2>3, <2>f, HoldsNothing DEF ReadOutcome, At, Holding, Sees, storeVars
    <3>2. table[f].outcome # NoSession => Left(f)
      BY <1>0 DEF RowInv, Left, Live
    <3>3. req'[q].fc = f /\ (req'[q].answer = "conflict" => table[f].outcome # NoSession)
      BY <2>3, <2>f, <2>1, <3>1, <1>0, Moved DEF ReadOutcome, Answers, Phases
    <3> QED
      BY <3>1, <3>2, <3>3, <2>f DEF ConflictInv, Left
  <2>4. CASE Transition(q)
    <3>1. Sees(q, f) = table[f] /\ req[q].phase = "write" /\ table[f].status # "absent"
      BY <2>4, <2>f, HoldsNothing DEF Transition, At, Holding, Sees, ConflictInv
    <3>2. /\ req'[q].fc = f /\ req'[q].phase \in {"done", "respond", "commit"}
          /\ req'[q].answer = "conflict" => Left(f)
      BY <2>4, <2>f, <2>1, <3>1, <1>0, Moved
      DEF Transition, Answers, Phases, Written, Left, TransitionMatches
    <3> QED
      BY <3>2, <1>1 DEF ConflictInv
  <2>5. CASE ResolveFlush(q)
    <3>1. /\ Sees(q, f) = work[f] /\ work[f].outcome = table[f].outcome
          /\ req[q].phase = "flush"
      BY <2>5, <2>f, <1>0 DEF ResolveFlush, At, RequestInv, Holds, Holding, FlushInv, Sees
    <3>2. table[f].outcome # NoSession => Left(f)
      BY <1>0 DEF RowInv, Left, Live
    <3>3. /\ req'[q].fc = f /\ req'[q].phase \in {"done", "respond", "commit"}
          /\ req'[q].answer = "conflict" => table[f].outcome # NoSession
      BY <2>5, <2>f, <2>1, <3>1, <1>0, Moved
      DEF ResolveFlush, Answers, Phases, Written, OutcomeClashes
    <3> QED
      BY <3>2, <3>3, <1>1 DEF ConflictInv
  <2>6. CASE ResolveUpdate(q) \/ CommitRequest(q)
    <3>1. /\ req'[q].phase \in {"flush", "reply", "done"}
          /\ req'[q].answer = req[q].answer
      BY <2>6, <2>1, <1>0, Moved DEF ResolveUpdate, CommitRequest, Phases, AfterCommit
    <3> QED
      BY <3>1, <2>1 DEF ConflictInv
  <2>7. CASE Respond(q)
    <3>1. req'[q].phase = "commit" /\ req'[q].answer = "ok"
      BY <2>7, <2>1, <1>0, ArrivedType DEF Respond, TypeOK
    <3> QED
      BY <3>1 DEF ConflictInv
  <2>8. CASE Reply(q) \/ Fail(q)
    <3>1. req'[q].phase = "done" /\ req'[q].answer \in {"ok", "error"}
      BY <2>8, <2>1, <1>0, Moved DEF Reply, Fail, Answers, Unless
    <3> QED
      BY <3>1 DEF ConflictInv
  <2> QED
    BY <1>5, <2>2, <2>3, <2>4, <2>5, <2>6, <2>7, <2>8 DEF RequestStep
<1> QED
  BY <1>2, <1>3, <1>4, <1>5, RequestMoves DEF OwnStep

\* The invariant is inductive.
LEMMA RefusalStep == RefusalInv /\ [Next]_vars => RefusalInv'
<1> SUFFICES ASSUME RefusalInv, [Next]_vars
             PROVE  RefusalInv'
  OBVIOUS
<1>1. Consistency'
  BY ConsistencyStep DEF RefusalInv
<1>2. ASSUME NEW q \in Requests
      PROVE  TraceInv(q)' /\ ConflictInv(q)'
  BY TraceStep, ConflictStep DEF RefusalInv
<1> QED
  BY <1>1, <1>2 DEF RefusalInv

\* A request that is over holds no row and has written all of its kind to its forecast or
\* nothing anywhere, and nothing if it was refused, whatever ran beside it.
THEOREM RequestsAtomic == Spec => []RequestsAreAtomic
<1>1. RefusalInv => RequestsAreAtomic
  <2> SUFFICES ASSUME RefusalInv, NEW r \in Requests, req[r].phase = "done",
                      NEW f \in Forecasts
               PROVE  /\ holder[f] # r
                      /\ \/ HasNothing(r, table[f])
                         \/ f = req[r].fc /\ HasEverything(r, req[r].kind, table[f])
                      /\ req[r].answer \in {"not_found", "conflict"} => HasNothing(r, table[f])
    BY DEF RequestsAreAtomic
  <2>1. holder[f] # r
    BY HoldsNothing DEF RefusalInv, Holding
  <2>2. TraceInv(r)
    BY DEF RefusalInv
  <2> QED
    BY <2>1, <2>2 DEF TraceInv, Nothing, Everything
<1> QED
  BY <1>1, RefusalInit, RefusalStep, PTL DEF Spec

\* A request is told "conflict" only about a forecast that has left the live statuses
\* for good, whichever of its reads or writes found out.
THEOREM ConflictsFinal == Spec => []ConflictIsFinal
<1>1. RefusalInv => ConflictIsFinal
  BY DEF RefusalInv, ConflictInv, Left, ConflictIsFinal
<1> QED
  BY <1>1, RefusalInit, RefusalStep, PTL DEF Spec

-----------------------------------------------------------------------------
(* The lifecycle sweep beside the requests.                                 *)

\* The events of the sweep in a record.
Marks(record) == record.log \cap (EventKinds \X {Sweeper})

\* No row in work replaces a committed outcome.
KeptInv == \A f \in Forecasts : table[f].outcome # NoSession => work[f].outcome = table[f].outcome

\* A pass holds every row it is done with, and marked it; before and after it holds none.
PassInv ==
  /\ sweep \in SweepStates /\ sweep.todo \subseteq sweep.listed
  /\ IF sweep.phase \in {"sweeping", "flush"}
     THEN \A f \in sweep.listed \ sweep.todo : holder[f] = Sweeper /\ Marks(work[f]) # {}
     ELSE \A f \in Forecasts : holder[f] # Sweeper

\* Until it commits nobody else sees a mark; once it has, everything it listed is marked.
Unmarked ==
  \A f \in Forecasts : Marks(table[f]) = {} /\ (holder[f] # Sweeper => Marks(work[f]) = {})
AllMarked ==
  sweep.phase = "finished" /\ \A f \in sweep.listed : Marks(table[f]) # {} /\ Marks(work[f]) # {}

SweepInv == Sound /\ KeptInv /\ PassInv /\ (Unmarked \/ AllMarked)

\* The session of the sweep is nobody else's.
LEMMA SweeperNames ==
  /\ Sweeper \in Sessions /\ Sweeper \notin Requests /\ Sweeper # Scheduler /\ Sweeper # NoSession
  /\ Earlier \in Sessions /\ Earlier # Sweeper
BY Names, SweepAssumption

\* What every kind of step does to the rows.
LEMMA RowsAfter ==
  ASSUME StoreTypeOK
  PROVE  /\ \A s \in Sessions, f \in Forecasts, record \in ForecastRecords :
              Write(s, f, record) =>
                /\ table' = table /\ holder'[f] = s /\ work'[f] = record
                /\ \A g \in Forecasts \ {f} : holder'[g] = holder[g] /\ work'[g] = work[g]
         /\ \A S \in SUBSET Sessions : Rollback(S) =>
              /\ table' = table
              /\ \A g \in Forecasts :
                   /\ work'[g] = IF holder[g] \in S THEN table[g] ELSE work[g]
                   /\ holder'[g] = IF holder[g] \in S THEN NoSession ELSE holder[g]
         /\ \A s \in Sessions : Commit(s) =>
              /\ work' = work
              /\ \A g \in Forecasts :
                   /\ table'[g] = IF holder[g] = s THEN work[g] ELSE table[g]
                   /\ holder'[g] = IF holder[g] = s THEN NoSession ELSE holder[g]
<1>1. ASSUME NEW s \in Sessions, NEW f \in Forecasts, NEW record \in ForecastRecords,
             Write(s, f, record)
      PROVE  /\ table' = table /\ holder'[f] = s /\ work'[f] = record
             /\ \A g \in Forecasts \ {f} : holder'[g] = holder[g] /\ work'[g] = work[g]
  BY <1>1 DEF Write, StoreTypeOK
<1> QED
  BY <1>1 DEF Rollback, Commit

\* What a step on the store keeps of the rows, whose ever session takes it.
LEMMA StoreKeepsRows ==
  ASSUME Sound, KeptInv,
         \/ UNCHANGED storeVars
         \/ \E s \in Sessions : OwnWrite(s) \/ Commit(s)
         \/ \E S \in SUBSET Sessions : Rollback(S)
  PROVE  /\ \A f \in Forecasts : holder'[f] = NoSession => work'[f] = table'[f]
         /\ KeptInv'
         /\ \A f \in Forecasts : table[f].outcome # NoSession => table'[f].outcome = table[f].outcome
<1>0. /\ StoreTypeOK /\ NoSession \notin Sessions
      /\ \A f \in Forecasts : holder[f] = NoSession => work[f] = table[f]
  BY Names DEF Sound, TypeOK
<1>1. CASE UNCHANGED storeVars
  BY <1>0, <1>1 DEF storeVars, KeptInv
<1>2. ASSUME NEW s \in Sessions, OwnWrite(s)
      PROVE  /\ \A f \in Forecasts : holder'[f] = NoSession => work'[f] = table'[f]
             /\ KeptInv' /\ table' = table
  <2>1. PICK f \in Forecasts, record \in ForecastRecords :
          /\ Write(s, f, record)
          /\ record.outcome = work[f].outcome \/ work[f].outcome = NoSession
    BY <1>2 DEF OwnWrite
  <2>2. /\ table' = table /\ holder'[f] = s /\ work'[f] = record
        /\ \A g \in Forecasts \ {f} : holder'[g] = holder[g] /\ work'[g] = work[g]
    BY <1>0, <2>1, RowsAfter
  <2>3. KeptInv'
    BY <2>1, <2>2 DEF KeptInv
  <2> QED
    BY <1>0, <2>2, <2>3
<1>3. ASSUME NEW s \in Sessions, Commit(s)
      PROVE  /\ \A f \in Forecasts : holder'[f] = NoSession => work'[f] = table'[f]
             /\ KeptInv'
             /\ \A f \in Forecasts :
                  table[f].outcome # NoSession => table'[f].outcome = table[f].outcome
  BY <1>0, <1>3, RowsAfter DEF KeptInv
<1>4. ASSUME NEW S \in SUBSET Sessions, Rollback(S)
      PROVE  /\ \A f \in Forecasts : holder'[f] = NoSession => work'[f] = table'[f]
             /\ KeptInv' /\ table' = table
  BY <1>0, <1>4, RowsAfter DEF KeptInv
<1> QED
  BY <1>1, <1>2, <1>3, <1>4 DEF storeVars

\* A resolution between its statements keeps its row while others work.
LEMMA FlushKeepsRow ==
  ASSUME Sound, NEW r \in Requests, req[r].phase = "flush",
         \/ UNCHANGED storeVars
         \/ \E s \in Sessions : OwnWrite(s) \/ (s # r /\ Commit(s))
         \/ \E S \in SUBSET Sessions : r \notin S /\ Rollback(S)
  PROVE  holder'[req[r].fc] = r
<1>0. /\ StoreTypeOK /\ req[r].fc \in Forecasts /\ holder[req[r].fc] = r /\ r # NoSession
  BY Names, ArrivedType DEF Sound, TypeOK
<1>1. CASE UNCHANGED storeVars
  BY <1>0, <1>1 DEF storeVars
<1>2. ASSUME NEW s \in Sessions, OwnWrite(s)
      PROVE  holder'[req[r].fc] = r
  <2>1. PICK f \in Forecasts, record \in ForecastRecords : RowFree(s, f) /\ Write(s, f, record)
    BY <1>2 DEF OwnWrite
  <2>2. f = req[r].fc => s = r
    BY <1>0, <2>1 DEF RowFree
  <2> QED
    BY <1>0, <2>1, <2>2, RowsAfter
<1>3. ASSUME NEW s \in Sessions \ {r}, Commit(s)
      PROVE  holder'[req[r].fc] = r
  BY <1>0, <1>3, RowsAfter
<1>4. ASSUME NEW S \in SUBSET Sessions, r \notin S, Rollback(S)
      PROVE  holder'[req[r].fc] = r
  BY <1>0, <1>4, RowsAfter
<1> QED
  BY <1>1, <1>2, <1>3, <1>4

\* What the requests and the scheduler rely on survives every step of theirs.
LEMMA SoundStep ==
  ASSUME Sound, KeptInv, [Next]_vars
  PROVE  Sound' /\ KeptInv'
<1>0. TypeOK /\ TypeOK'
  BY TypeStep DEF Sound
<1>1. /\ \A f \in Forecasts : holder'[f] = NoSession => work'[f] = table'[f]
      /\ KeptInv'
  BY StoreSteps, StoreKeepsRows, Names DEF EndedByRollback, RequestCommits
<1>2. ASSUME NEW r \in Requests, req'[r].phase = "flush"
      PROVE  req'[r].kind \in Resolutions /\ holder'[req'[r].fc] = r
  <2>1. CASE ResolveUpdate(r)
    <3>1. req[r].fc \in Forecasts /\ r \in Sessions /\ StoreTypeOK
      BY <2>1, <1>0, ArrivedType DEF ResolveUpdate, At, TypeOK
    <3>2. holder' = [holder EXCEPT ![req[r].fc] = r]
      BY <2>1 DEF ResolveUpdate, MarkResolved, Write
    <3>3. req'[r].fc = req[r].fc /\ req'[r].kind = req[r].kind
      BY <2>1, <1>0 DEF ResolveUpdate, Goto, TypeOK
    <3> QED
      BY <2>1, <3>1, <3>2, <3>3 DEF ResolveUpdate, StoreTypeOK
  <2>2. CASE req'[r] = req[r]
    <3>1. \/ UNCHANGED storeVars
          \/ \E s \in Sessions : OwnWrite(s) \/ (s # r /\ Commit(s))
          \/ \E S \in SUBSET Sessions : r \notin S /\ Rollback(S)
      <4>1. ASSUME NEW q \in Requests, RequestCommits(q)
            PROVE  q # r /\ Commit(q)
        BY <4>1, <2>2, <1>2 DEF RequestCommits, At
      <4>2. ASSUME NEW S \in SUBSET (Requests \cup {Scheduler}), EndedByRollback(S)
            PROVE  r \notin S /\ Rollback(S)
        BY <4>2, <1>2 DEF EndedByRollback
      <4> QED
        BY <4>1, <4>2, StoreSteps, Names
    <3> QED
      BY <2>2, <3>1, <1>2, FlushKeepsRow DEF Sound
  <2>3. ResolveUpdate(r) \/ req'[r] = req[r]
    <3>1. ASSUME NEW q \in Requests, q # r, OwnStep(q)
          PROVE  req'[r] = req[r]
      BY <3>1, <1>0, OthersWait DEF OwnStep
    <3>2. CASE Arrive(r) \/ Create(r)
      BY <3>2, <1>2, <1>0 DEF Arrive, Create, TypeOK, Written
    <3>3. CASE Respond(r)
      BY <3>3, <1>2, <1>0 DEF Respond, TypeOK
    <3>4. CASE Fail(r) \/ (RequestStep(r) /\ ~Respond(r) /\ ~ResolveUpdate(r))
      <4>1. req[r].phase # "idle"
        BY <3>4 DEF Fail, RequestStep, ReadForecast, ReadOutcome, Transition,
                    ResolveFlush, CommitRequest, Reply, At, InFlight
      <4>2. \/ \E p \in Phases \ {"flush", "idle"} : Goto(r, p)
            \/ \E a \in Answers : Answer(r, a)
        BY <3>4 DEF Fail, RequestStep, ReadForecast, ReadOutcome, Transition,
                    ResolveFlush, CommitRequest, Reply, Phases, Answers, Written, AfterCommit, Unless
      <4> QED
        BY <4>1, <4>2, <1>2, <1>0, Moved
    <3>5. CASE SchedulerStep
      BY <3>5 DEF SchedulerStep, CalibrationList, CalibrationEnd, CalibrationSkip,
                  CalibrationUpdate, CalibrationFlush, Refresh, Backtest
    <3>6. CASE Restart
      BY <3>6, <1>2, <1>0, ArrivedType DEF Restart, InFlight
    <3>7. CASE UNCHANGED vars
      BY <3>7 DEF vars
    <3> QED
      BY <3>1, <3>2, <3>3, <3>4, <3>5, <3>6, <3>7 DEF Next, OwnStep
  <2> QED
    BY <2>1, <2>2, <2>3
<1> QED
  BY <1>0, <1>1, <1>2 DEF Sound

\* Requests and the scheduler touch neither the rows nor the marks of the sweep.
LEMMA OthersKeepSweep ==
  ASSUME SweepInv, [Next]_vars, UNCHANGED sweep
  PROVE  SweepInv'
<1>0. StoreTypeOK /\ Sound /\ KeptInv /\ PassInv
  BY DEF SweepInv, Sound, TypeOK
<1>1. Sound' /\ KeptInv'
  BY <1>0, SoundStep
<1>s. /\ Sweeper \in Sessions \ (Requests \cup {Scheduler, NoSession})
      /\ Requests \cup {Scheduler} \subseteq Sessions
  BY SweeperNames, Names
<1>2. ASSUME NEW f \in Forecasts
      PROVE  /\ (holder'[f] = Sweeper) <=> (holder[f] = Sweeper)
             /\ holder[f] = Sweeper => work'[f] = work[f]
             /\ Unmarked => /\ Marks(table'[f]) = {}
                            /\ holder'[f] # Sweeper => Marks(work'[f]) = {}
             /\ Marks(table[f]) # {} /\ Marks(work[f]) # {} =>
                  Marks(table'[f]) # {} /\ Marks(work'[f]) # {}
  <2>1. CASE UNCHANGED storeVars
    BY <2>1 DEF storeVars, Unmarked
  <2>2. ASSUME NEW s \in Requests \cup {Scheduler}, OwnWrite(s)
        PROVE  /\ table' = table
               /\ \/ holder'[f] = holder[f] /\ work'[f] = work[f]
                  \/ /\ holder[f] # Sweeper /\ holder'[f] # Sweeper
                     /\ Marks(work'[f]) = Marks(work[f])
    <3>1. PICK g \in Forecasts, record \in ForecastRecords :
            /\ RowFree(s, g) /\ Write(s, g, record)
            /\ work[g].log \subseteq record.log
            /\ record.log \subseteq work[g].log \cup Events(s, EventKinds)
      BY <2>2 DEF OwnWrite
    <3>2. /\ table' = table /\ holder'[g] = s /\ work'[g] = record
          /\ \A h \in Forecasts \ {g} : holder'[h] = holder[h] /\ work'[h] = work[h]
      BY <3>1, <1>0, <1>s, RowsAfter
    <3>3. holder[g] # Sweeper /\ s # Sweeper
      BY <3>1, <1>s DEF RowFree
    <3>4. Marks(record) = Marks(work[g])
      BY <3>1, <3>3 DEF Marks, Events
    <3> QED
      BY <3>2, <3>3, <3>4
  <2>3. ASSUME NEW S \in SUBSET (Requests \cup {Scheduler}), EndedByRollback(S)
        PROVE  /\ table' = table
               /\ work'[f] = IF holder[f] \in S THEN table[f] ELSE work[f]
               /\ holder'[f] = IF holder[f] \in S THEN NoSession ELSE holder[f]
               /\ Sweeper \notin S
    BY <2>3, <1>0, <1>s, RowsAfter DEF EndedByRollback
  <2>4. ASSUME NEW r \in Requests, RequestCommits(r)
        PROVE  /\ work' = work /\ r # Sweeper
               /\ table'[f] = IF holder[f] = r THEN work[f] ELSE table[f]
               /\ holder'[f] = IF holder[f] = r THEN NoSession ELSE holder[f]
    BY <2>4, <1>0, <1>s, RowsAfter DEF RequestCommits
  <2>5. \/ UNCHANGED storeVars
        \/ \E s \in Requests \cup {Scheduler} : OwnWrite(s)
        \/ \E S \in SUBSET (Requests \cup {Scheduler}) : EndedByRollback(S)
        \/ \E r \in Requests : RequestCommits(r)
    BY <1>0, StoreSteps
  <2>6. CASE \E s \in Requests \cup {Scheduler} : OwnWrite(s)
    BY <2>2, <2>6 DEF Unmarked
  <2>7. CASE \E S \in SUBSET (Requests \cup {Scheduler}) : EndedByRollback(S)
    BY <2>3, <2>7, <1>s DEF Unmarked
  <2>8. CASE \E r \in Requests : RequestCommits(r)
    BY <2>4, <2>8, <1>s DEF Unmarked
  <2> QED
    BY <2>1, <2>5, <2>6, <2>7, <2>8
<1>3. PassInv'
  <2>1. sweep.listed \subseteq Forecasts
    BY <1>0 DEF PassInv, SweepStates
  <2> QED
    BY <1>0, <1>2, <2>1 DEF PassInv
<1>4. Unmarked => Unmarked'
  BY <1>2 DEF Unmarked
<1>5. AllMarked => AllMarked'
  <2>1. sweep.listed \subseteq Forecasts
    BY <1>0 DEF PassInv, SweepStates
  <2> QED
    BY <1>2, <2>1 DEF AllMarked
<1> QED
  BY <1>1, <1>3, <1>4, <1>5 DEF SweepInv

\* A row the sweep writes is its own until it ends, and done with only when marked.
LEMMA SweeperWrites ==
  ASSUME SweepInv, sweep.phase \in {"sweeping", "flush"}, NEW f \in Forecasts,
         NEW record \in ForecastRecords, Write(Sweeper, f, record),
         sweep' \in SweepStates, sweep'.phase \in {"sweeping", "flush"},
         sweep'.listed = sweep.listed,
         \/ f \in sweep.todo /\ sweep'.todo = sweep.todo
         \/ sweep'.todo = sweep.todo \ {f} /\ Marks(record) # {}
  PROVE  PassInv' /\ Unmarked'
<1>1. /\ table' = table /\ holder'[f] = Sweeper /\ work'[f] = record
      /\ \A g \in Forecasts \ {f} : holder'[g] = holder[g] /\ work'[g] = work[g]
  BY SweeperNames, RowsAfter DEF SweepInv, Sound, TypeOK
<1>2. /\ Unmarked /\ sweep.todo \subseteq sweep.listed /\ sweep.listed \subseteq Forecasts
      /\ \A g \in sweep.listed \ sweep.todo : holder[g] = Sweeper /\ Marks(work[g]) # {}
  BY DEF SweepInv, PassInv, AllMarked, SweepStates
<1>3. PassInv'
  BY <1>1, <1>2 DEF PassInv
<1>4. Unmarked'
  BY <1>1, <1>2 DEF Unmarked
<1> QED
  BY <1>3, <1>4

\* A sweep that ends without its commit leaves no mark.
LEMMA SweeperUndone ==
  ASSUME SweepInv, sweep.phase \in {"sweeping", "flush"}, Rollback({Sweeper}),
         NEW p \in {"finished", "aborted"}, sweep' = [sweep EXCEPT !.phase = p]
  PROVE  PassInv' /\ Unmarked'
<1>1. /\ table' = table
      /\ \A g \in Forecasts :
           /\ work'[g] = IF holder[g] = Sweeper THEN table[g] ELSE work[g]
           /\ holder'[g] = IF holder[g] = Sweeper THEN NoSession ELSE holder[g]
  BY DEF Rollback
<1>2. Unmarked
  BY DEF SweepInv, AllMarked
<1>3. /\ sweep' \in SweepStates /\ sweep'.phase = p
      /\ sweep'.todo = sweep.todo /\ sweep'.listed = sweep.listed
  BY DEF SweepInv, PassInv, SweepStates
<1>4. PassInv'
  BY <1>1, <1>3, SweeperNames DEF SweepInv, PassInv
<1>5. Unmarked'
  BY <1>1, <1>2 DEF Unmarked
<1> QED
  BY <1>4, <1>5

\* What each step of the sweep does to the rows, to its list and to its marks.
LEMMA SweepMoves ==
  ASSUME SweepInv, SweepStep
  PROVE  /\ PassInv' /\ (Unmarked' \/ AllMarked')
         /\ \/ UNCHANGED storeVars
            \/ OwnWrite(Sweeper) \/ Commit(Sweeper) \/ Rollback({Sweeper})
<1>0. /\ Sound /\ PassInv /\ sweep \in SweepStates /\ StoreTypeOK
      /\ Sweeper \in Sessions /\ Sweeper \notin Requests
  BY SweeperNames DEF SweepInv, PassInv, Sound, TypeOK
<1>1. CASE SweepList
  <2>1. PICK listed \in SUBSET Forecasts :
          sweep' = [phase |-> "sweeping", listed |-> listed, todo |-> listed]
    BY <1>1 DEF SweepList, Unresolved
  <2>2. sweep.phase = "idle" /\ UNCHANGED storeVars
    BY <1>1 DEF SweepList
  <2>3. PassInv'
    BY <2>1 DEF PassInv, SweepStates
  <2>4. Unmarked'
    BY <2>2 DEF SweepInv, Unmarked, AllMarked, storeVars
  <2> QED
    BY <2>2, <2>3, <2>4
<1>2. ASSUME NEW f \in Forecasts, NEW st \in Statuses, NEW extra \in SUBSET EventKinds,
             Sweeping(f), UpdateStatus(Sweeper, f, st, extra), SweepDone(f)
      PROVE  PassInv' /\ Unmarked' /\ OwnWrite(Sweeper)
  <2> DEFINE record == [Sees(Sweeper, f) EXCEPT !.status = st,
                          !.log = @ \cup Events(Sweeper, {"updated"} \cup extra)]
  <2>1. OwnWrite(Sweeper)
    BY <1>2, <1>0, WriteSteps
  <2>2. Write(Sweeper, f, record)
    BY <1>2 DEF UpdateStatus
  <2>3. Sees(Sweeper, f) \in ForecastRecords
    BY <1>0, SeesType
  <2>4. Events(Sweeper, {"updated"} \cup extra) \in SUBSET (EventKinds \X Sessions)
    BY <1>0, EventsType DEF EventKinds
  <2>5. record \in ForecastRecords
    BY <2>3, <2>4, StatusUpdates
  <2>6. <<"updated", Sweeper>> \in record.log
    BY <2>3 DEF Events, ForecastRecords
  <2>7. Marks(record) # {}
    BY <2>6 DEF Marks, EventKinds
  <2>8. /\ sweep.phase = "sweeping" /\ f \in sweep.todo
        /\ sweep' \in SweepStates /\ sweep'.phase = "sweeping"
        /\ sweep'.listed = sweep.listed /\ sweep'.todo = sweep.todo \ {f}
    BY <1>2, <1>0 DEF Sweeping, SweepDone, SweepStates
  <2> HIDE DEF record
  <2> QED
    BY <2>1, <2>2, <2>5, <2>7, <2>8, SweeperWrites
<1>3. ASSUME NEW f \in Forecasts, SweepResolve(f)
      PROVE  PassInv' /\ Unmarked' /\ OwnWrite(Sweeper)
  <2> DEFINE record == [Sees(Sweeper, f) EXCEPT !.status = "resolved"]
  <2>1. OwnWrite(Sweeper)
    BY <1>3, <1>0, WriteSteps DEF SweepResolve
  <2>2. Write(Sweeper, f, record)
    BY <1>3 DEF SweepResolve, MarkResolved
  <2>3. record \in ForecastRecords
    BY <1>0, SeesType, StatusUpdates DEF Statuses
  <2>4. /\ sweep.phase = "sweeping" /\ f \in sweep.todo
        /\ sweep' \in SweepStates /\ sweep'.phase = "flush"
        /\ sweep'.listed = sweep.listed /\ sweep'.todo = sweep.todo
    BY <1>3, <1>0 DEF SweepResolve, Sweeping, SweepStates
  <2> HIDE DEF record
  <2> QED
    BY <2>1, <2>2, <2>3, <2>4, SweeperWrites
<1>4. ASSUME NEW f \in Forecasts, SweepFlush(f), ~OutcomeClashes(Sweeper, f)
      PROVE  PassInv' /\ Unmarked' /\ OwnWrite(Sweeper)
  <2> DEFINE record == [Sees(Sweeper, f) EXCEPT !.outcome = Sweeper,
                          !.log = @ \cup Events(Sweeper, {"outcome_recorded"} \cup {})]
  <2>1. OwnWrite(Sweeper)
    <3>1. RowFree(Sweeper, f) /\ InsertOutcome(Sweeper, f, {}) /\ {} \in SUBSET EventKinds
      BY <1>4 DEF SweepFlush, RowFree
    <3> QED
      BY <3>1, <1>0, WriteSteps
  <2>2. Write(Sweeper, f, record)
    BY <1>4 DEF SweepFlush, InsertOutcome
  <2>3. Sees(Sweeper, f) \in ForecastRecords
    BY <1>0, SeesType
  <2>4. Events(Sweeper, {"outcome_recorded"} \cup {}) \in SUBSET (EventKinds \X Sessions)
    BY <1>0, EventsType DEF EventKinds
  <2>5. record \in ForecastRecords
    BY <2>3, <2>4, <1>0, OutcomeUpdate
  <2>6. <<"outcome_recorded", Sweeper>> \in record.log
    BY <2>3 DEF Events, ForecastRecords
  <2>7. Marks(record) # {}
    BY <2>6 DEF Marks, EventKinds
  <2>8. /\ sweep.phase = "flush" /\ f \in sweep.todo
        /\ sweep' \in SweepStates /\ sweep'.phase = "sweeping"
        /\ sweep'.listed = sweep.listed /\ sweep'.todo = sweep.todo \ {f}
    BY <1>4, <1>0 DEF SweepFlush, SweepStates
  <2> HIDE DEF record
  <2> QED
    BY <2>1, <2>2, <2>5, <2>7, <2>8, SweeperWrites
<1>5. ASSUME sweep.phase \in {"sweeping", "flush"}, Rollback({Sweeper}),
             NEW p \in {"finished", "aborted"}, sweep' = [sweep EXCEPT !.phase = p]
      PROVE  PassInv' /\ Unmarked'
  BY <1>5, SweeperUndone
<1>6. CASE SweepFinish /\ SweepCommits
  <2>1. /\ sweep.phase = "sweeping" /\ sweep.todo = {} /\ Commit(Sweeper)
        /\ sweep' = [sweep EXCEPT !.phase = "finished"]
    BY <1>6 DEF SweepFinish
  <2>2. /\ work' = work
        /\ \A g \in Forecasts :
             /\ table'[g] = IF holder[g] = Sweeper THEN work[g] ELSE table[g]
             /\ holder'[g] = IF holder[g] = Sweeper THEN NoSession ELSE holder[g]
    BY <2>1 DEF Commit
  <2>3. /\ sweep' \in SweepStates /\ sweep'.phase = "finished"
        /\ sweep'.todo = sweep.todo /\ sweep'.listed = sweep.listed
        /\ sweep.listed \subseteq Forecasts
    BY <2>1, <1>0 DEF SweepStates
  <2>4. \A g \in sweep.listed : holder[g] = Sweeper /\ Marks(work[g]) # {}
    BY <2>1, <1>0 DEF PassInv
  <2>5. PassInv'
    BY <2>2, <2>3, <1>0, SweeperNames DEF PassInv
  <2>6. AllMarked'
    BY <2>2, <2>3, <2>4 DEF AllMarked
  <2> QED
    BY <2>1, <2>5, <2>6
<1>7. CASE SweepFinish /\ ~SweepCommits
  BY <1>5, <1>7 DEF SweepFinish
<1>8. CASE SweepAbort
  BY <1>5, <1>8 DEF SweepAbort
<1>9. ASSUME NEW f \in Forecasts, SweepFlush(f), OutcomeClashes(Sweeper, f)
      PROVE  PassInv' /\ Unmarked' /\ Rollback({Sweeper})
  BY <1>5, <1>9 DEF SweepFlush
<1>10. ASSUME NEW f \in Forecasts, SweepInvalidate(f) \/ SweepExpire(f)
       PROVE  PassInv' /\ Unmarked' /\ OwnWrite(Sweeper)
  <2>1. /\ {"invalidated", "expired"} \subseteq Statuses
        /\ {{"invalidated"}, {"resolution_failed"}} \subseteq SUBSET EventKinds
    BY DEF Statuses, Withdrawn, EventKinds
  <2> QED
    BY <1>2, <1>10, <2>1 DEF SweepInvalidate, SweepExpire
<1>11. SweepFinish => Commit(Sweeper) \/ Rollback({Sweeper})
  BY DEF SweepFinish
<1>12. SweepAbort => Rollback({Sweeper})
  BY DEF SweepAbort
<1> QED
  BY <1>1, <1>3, <1>4, <1>6, <1>7, <1>8, <1>9, <1>10, <1>11, <1>12 DEF SweepStep, SweepWork

\* The pass starts over forecasts that others have created, and holds nothing.
LEMMA SweepInvInit == SweepInit => SweepInv
<1> SUFFICES ASSUME SweepInit
             PROVE  SweepInv
  OBVIOUS
<1>1. Events(Earlier, {"created"}) \in SUBSET (EventKinds \X Sessions)
  BY SweeperNames, EventsType DEF EventKinds
<1>2. SeededRecord \in ForecastRecords /\ NoRecord \in ForecastRecords
  BY <1>1, NoRecordType, StatusUpdates DEF SeededRecord, Statuses, Live
<1>3. Marks(SeededRecord) = {} /\ Marks(NoRecord) = {}
  BY SweeperNames DEF SeededRecord, NoRecord, Marks, Events
<1>4. SeededRecord.outcome = NoSession /\ NoRecord.outcome = NoSession
  BY DEF SeededRecord, NoRecord
<1>5. /\ work = table
      /\ \A f \in Forecasts : table[f] \in {SeededRecord, NoRecord} /\ holder[f] = NoSession
  BY DEF SweepInit
<1>6. StoreTypeOK
  BY <1>2 DEF SweepInit, StoreTypeOK
<1>7. TypeOK
  BY <1>6 DEF SweepInit, TypeOK, RequestStates, SchedulerStates, FreshScheduler
<1>8. Sound
  BY <1>5, <1>7 DEF SweepInit, Sound, NoRequest
<1>9. KeptInv /\ Unmarked
  BY <1>3, <1>5 DEF KeptInv, Unmarked
<1>10. PassInv
  BY <1>5, SweeperNames DEF SweepInit, NoSweep, PassInv, SweepStates
<1> QED
  BY <1>8, <1>9, <1>10 DEF SweepInv

\* Every step keeps the invariant, and every committed outcome.
LEMMA SweepInvStep ==
  ASSUME SweepInv, [SweepNext]_sweepVars
  PROVE  /\ SweepInv'
         /\ \A f \in Forecasts : table[f].outcome # NoSession => table'[f].outcome = table[f].outcome
<1>0. Sound /\ KeptInv
  BY DEF SweepInv
<1>1. CASE [Next]_vars /\ UNCHANGED sweep
  <2>1. SweepInv'
    BY <1>1, OthersKeepSweep
  <2>2. \A f \in Forecasts : table[f].outcome # NoSession => table'[f].outcome = table[f].outcome
    BY <1>0, <1>1, StoreSteps, StoreKeepsRows, Names DEF EndedByRollback, RequestCommits
  <2> QED
    BY <2>1, <2>2
<1>2. CASE SweepStep
  <2>1. /\ PassInv' /\ (Unmarked' \/ AllMarked')
        /\ \/ UNCHANGED storeVars
           \/ OwnWrite(Sweeper) \/ Commit(Sweeper) \/ Rollback({Sweeper})
    BY <1>2, SweepMoves
  <2>2. /\ \A f \in Forecasts : holder'[f] = NoSession => work'[f] = table'[f]
        /\ KeptInv'
        /\ \A f \in Forecasts : table[f].outcome # NoSession => table'[f].outcome = table[f].outcome
    BY <1>0, <2>1, SweeperNames, StoreKeepsRows
  <2>3. StoreTypeOK /\ UNCHANGED <<req, sched>>
    BY <1>0, <1>2 DEF Sound, TypeOK, SweepStep
  <2>4. StoreTypeOK'
    <3>1. OwnWrite(Sweeper) => StoreTypeOK'
      BY <2>3, SweeperNames, WriteType DEF OwnWrite
    <3>2. Commit(Sweeper) => StoreTypeOK'
      BY <2>3, SweeperNames, CommitType
    <3>3. Rollback({Sweeper}) => StoreTypeOK'
      BY <2>3, SweeperNames, RollbackType
    <3> QED
      BY <2>1, <2>3, <3>1, <3>2, <3>3 DEF storeVars, StoreTypeOK
  <2>5. \A r \in Requests : req[r].phase = "flush" => holder'[req[r].fc] = r
    <3> SUFFICES ASSUME NEW r \in Requests, req[r].phase = "flush"
                 PROVE  holder'[req[r].fc] = r
      OBVIOUS
    <3>1. Sweeper # r /\ r \notin {Sweeper}
      BY SweeperNames
    <3> QED
      BY <1>0, <2>1, <3>1, SweeperNames, FlushKeepsRow
  <2>6. Sound'
    BY <1>0, <2>2, <2>3, <2>4, <2>5 DEF Sound, TypeOK
  <2> QED
    BY <2>1, <2>2, <2>6 DEF SweepInv
<1> QED
  BY <1>1, <1>2 DEF SweepNext, sweepVars, vars

\* A sweep that fails, crashes or is overtaken commits nothing, one that ends well
\* commits its part for everything it listed, and none replaces a committed outcome.
THEOREM SweepHarmless == SweepSpec => SweepIsHarmless
<1>1. SweepInv => SweepAllOrNothing
  BY DEF SweepInv, Unmarked, AllMarked, Marks, SweepAllOrNothing
<1>2. SweepInv /\ [SweepNext]_sweepVars => SweepInv'
  BY SweepInvStep
<1>3. SweepInv /\ SweepInv' /\ [SweepNext]_sweepVars =>
        [/\ SweepAllOrNothing'
         /\ \A f \in Forecasts :
              table[f].outcome # NoSession => table'[f].outcome = table[f].outcome]_sweepVars
  <2>1. SweepInv' => SweepAllOrNothing'
    BY <1>1, PTL
  <2> QED
    BY <2>1, SweepInvStep
<1> QED
  BY <1>2, <1>3, SweepInvInit, PTL DEF SweepSpec, SweepIsHarmless
=============================================================================
