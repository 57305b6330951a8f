------------------------------- MODULE CpuPool -------------------------------
(***************************************************************************)
(* Admission of CPU-bound jobs and the process pool (futuris/infra/cpu.py), *)
(* as core/engine.py and core/pipeline.py use them.                        *)
(*                                                                         *)
(* A job is a coroutine that waits for a gate, starts its work elsewhere   *)
(* and awaits it.  The work of a "thread" job runs in the default executor *)
(* (run_cpu), of a "pool" job in the shared process pool (run_cpu_process), *)
(* of an "isolated" job in a child of its own (run_cpu_process_cancellable). *)
(* Cancelling the coroutine and ending its work are different events.      *)
(***************************************************************************)
EXTENDS Integers, FiniteSets

CONSTANTS
  Jobs,         (* one run of a forecast each                              *)
  MaxPools,     (* how many pools may be constructed: one per job will do  *)
  Slots,        (* CPU_SLOTS                                               *)
  Workers       (* CPU_PROCESS_WORKERS                                     *)

ASSUME CpuAssumption ==
  /\ IsFiniteSet(Jobs)
  /\ MaxPools \in Nat /\ MaxPools >= Cardinality(Jobs)
  /\ Slots \in Nat \ {0}
  /\ Workers \in 1 .. Slots

VARIABLES
  kind, jobPhase, exclusive,     (* the coroutine of each job              *)
  work, home,                    (* its work, and the pool it was sent to  *)
  pool,                          (* the state of each pool                 *)
  current,                       (* _process_pool                          *)
  threadPending, processPending  (* _pending, _process_pending             *)

coroutine == <<kind, jobPhase, exclusive>>
counters == <<threadPending, processPending>>
cpuVars == <<coroutine, work, home, pool, current, counters>>

Kinds == {"thread", "pool", "isolated"}

\* The pools are numbered in the order of their construction.
Pools == 1 .. MaxPools
NoPool == 0

CpuInit ==
  /\ kind = [j \in Jobs |-> "thread"]
  /\ jobPhase = [j \in Jobs |-> "idle"]
  /\ exclusive = [j \in Jobs |-> FALSE]
  /\ work = [j \in Jobs |-> "none"]
  /\ home = [j \in Jobs |-> NoPool]
  /\ pool = [p \in Pools |-> "unused"]
  /\ current = NoPool
  /\ threadPending = 0
  /\ processPending = 0

Become(j, p) == jobPhase' = [jobPhase EXCEPT ![j] = p]
WorkBecomes(j, w) == work' = [work EXCEPT ![j] = w]

-----------------------------------------------------------------------------
(* Admission.                                                               *)

\* cpu_saturated: one slot is kept for degraded work.
Saturated ==
  LET capacity == IF Slots - 1 > 1 THEN Slots - 1 ELSE 1
  IN  threadPending + processPending >= capacity

\* A job is counted and joins its gate.  When the service is saturated a fit is
\* degraded and passes the gate, but under a coordinator (isolated) it never does.
Submit(j, k) ==
  /\ jobPhase[j] = "idle"
  /\ kind' = [kind EXCEPT ![j] = k]
  /\ exclusive' = [exclusive EXCEPT ![j] = k = "isolated" \/ ~Saturated]
  /\ Become(j, "queued")
  /\ IF k = "thread"
     THEN threadPending' = threadPending + 1 /\ UNCHANGED processPending
     ELSE processPending' = processPending + 1 /\ UNCHANGED threadPending
  /\ UNCHANGED <<work, home, pool, current>>

\* cpu_gate and _process_gate: a permit is held to the end of the coroutine.
Holders(gate) ==
  {j \in Jobs : exclusive[j] /\ kind[j] \in gate /\ jobPhase[j] \in {"waiting", "reaping"}}

MutantPermits(j) == IF kind[j] = "thread" THEN Slots ELSE Workers - 1

Permits(j) == IF kind[j] = "thread" THEN Slots ELSE Workers

MayStart(j) ==
  /\ jobPhase[j] = "queued"
  /\ LET gate == IF kind[j] = "thread" THEN {"thread"} ELSE Kinds \ {"thread"}
     IN  exclusive[j] => Cardinality(Holders(gate)) < Permits(j)

StartThread(j) ==
  /\ kind[j] = "thread" /\ MayStart(j)
  /\ Become(j, "waiting") /\ WorkBecomes(j, "pending")
  /\ UNCHANGED <<kind, exclusive, home, pool, current, counters>>

StartChild(j) ==
  /\ kind[j] = "isolated" /\ MayStart(j)
  /\ Become(j, "waiting") /\ WorkBecomes(j, "running")
  /\ UNCHANGED <<kind, exclusive, home, pool, current, counters>>

\* Counters never fall below zero.
Less(n) == IF n = 0 THEN 0 ELSE n - 1

\* _get_cpu_process_pool: the current pool, or a new one.
AtHand(p) ==
  IF current = NoPool
  THEN pool[p] = "unused" /\ \A q \in Pools : q < p => pool[q] # "unused"
  ELSE p = current

\* submit_and_wait.  A pool that broke meanwhile refuses the job: submit raises
\* before the try block, so that nothing is discarded.
StartInPool(j) ==
  /\ kind[j] = "pool" /\ MayStart(j)
  /\ \E p \in Pools :
       /\ AtHand(p)
       /\ home' = [home EXCEPT ![j] = p]
       /\ IF pool[p] = "broken"
          THEN /\ Become(j, "refused")
               /\ processPending' = Less(processPending)
               /\ UNCHANGED <<work, pool, current>>
          ELSE /\ Become(j, "waiting") /\ WorkBecomes(j, "pending")
               /\ pool' = [pool EXCEPT ![p] = "ok"] /\ current' = p
               /\ UNCHANGED processPending
  /\ UNCHANGED <<kind, exclusive, threadPending>>

-----------------------------------------------------------------------------
(* The work, outside the event loop.                                        *)

InPool(j) == kind[j] = "pool"
Unfinished(j) == work[j] \in {"pending", "running"}

\* The work of a pool job ends: _process_job_finished.
Ends(j, w) ==
  /\ WorkBecomes(j, w)
  /\ processPending' = IF InPool(j) THEN Less(processPending) ELSE processPending
  /\ UNCHANGED <<coroutine, home, pool, current, threadPending>>

\* A pool marks as running what its workers run and one call more.
Prefetched == 1

Begin(j) ==
  /\ work[j] = "pending"
  /\ InPool(j) =>
       /\ pool[home[j]] # "broken"
       /\ Cardinality({i \in Jobs : InPool(i) /\ home[i] = home[j] /\ work[i] = "running"})
            < Workers + Prefetched
  /\ WorkBecomes(j, "running")
  /\ UNCHANGED <<coroutine, home, pool, current, counters>>

\* A result or an exception of the function.
Finish(j) ==
  /\ work[j] = "running"
  /\ InPool(j) => pool[home[j]] # "broken"
  /\ Ends(j, "ended")

\* A child dies without a result.
ChildDies(j) == kind[j] = "isolated" /\ work[j] = "running" /\ Ends(j, "broken")

\* A worker of a pool dies, busy or idle; then its futures fail, one by one.
PoolBreaks(p) ==
  /\ pool[p] \in {"ok", "closed"}
  /\ pool' = [pool EXCEPT ![p] = "broken"]
  /\ UNCHANGED <<coroutine, work, home, current, counters>>

FutureFails(j) == InPool(j) /\ Unfinished(j) /\ pool[home[j]] = "broken" /\ Ends(j, "broken")

\* shutdown_cpu_process_pool, and the futures it cancels.
Shutdown ==
  /\ current # NoPool
  /\ pool' = [pool EXCEPT ![current] = IF @ = "ok" THEN "closed" ELSE @]
  /\ current' = NoPool
  /\ UNCHANGED <<coroutine, work, home, counters>>

FutureCancelled(j) ==
  InPool(j) /\ work[j] = "pending" /\ pool[home[j]] = "closed" /\ Ends(j, "cancelled")

-----------------------------------------------------------------------------
(* The coroutine goes on.                                                   *)

\* The finally block of a job that is counted until its coroutine ends.
Uncount(j) ==
  IF kind[j] = "thread"
  THEN threadPending' = threadPending - 1 /\ UNCHANGED processPending
  ELSE processPending' = Less(processPending) /\ UNCHANGED threadPending

\* _discard_broken_pool: only the pool that broke, not its successor.
DiscardBrokenPool(p) == current' = IF current = p THEN NoPool ELSE current

\* The work has ended and the coroutine takes its result.
Deliver(j) ==
  /\ jobPhase[j] = "waiting" /\ work[j] \in {"ended", "broken", "cancelled"}
  /\ Become(j, "done")
  /\ IF InPool(j)
     THEN /\ UNCHANGED counters
          /\ IF work[j] = "broken" THEN DiscardBrokenPool(home[j]) ELSE UNCHANGED current
     ELSE Uncount(j) /\ UNCHANGED current
  /\ UNCHANGED <<kind, exclusive, work, home, pool>>

CancelQueued(j) ==
  /\ jobPhase[j] = "queued"
  /\ Become(j, "done") /\ Uncount(j)
  /\ UNCHANGED <<kind, exclusive, work, home, pool, current>>

MutantCancelUncounts(j) ==
  /\ kind[j] # "isolated" /\ jobPhase[j] = "waiting"
  /\ Become(j, "done") /\ Uncount(j)
  /\ WorkBecomes(j, IF work[j] = "pending" THEN "cancelled" ELSE work[j])
  /\ UNCHANGED <<kind, exclusive, home, pool, current>>

\* Work that has not begun is cancelled with its coroutine; running work goes on,
\* and a pool job stays counted with it.
CancelWaiting(j) ==
  /\ kind[j] # "isolated" /\ jobPhase[j] = "waiting"
  /\ Become(j, "done")
  /\ WorkBecomes(j, IF work[j] = "pending" THEN "cancelled" ELSE work[j])
  /\ IF ~InPool(j) THEN Uncount(j)
     ELSE /\ processPending' = IF work[j] = "pending" THEN Less(processPending) ELSE processPending
          /\ UNCHANGED threadPending
  /\ UNCHANGED <<kind, exclusive, home, pool, current>>

\* A cancelled isolated job first terminates and joins its child.
CancelIsolated(j) ==
  /\ kind[j] = "isolated" /\ jobPhase[j] = "waiting"
  /\ Become(j, "reaping")
  /\ UNCHANGED <<kind, exclusive, work, home, pool, current, counters>>

Reap(j) ==
  /\ jobPhase[j] = "reaping"
  /\ Become(j, "done") /\ Uncount(j)
  /\ WorkBecomes(j, IF work[j] = "running" THEN "stopped" ELSE work[j])
  /\ UNCHANGED <<kind, exclusive, home, pool, current>>

Cancel(j) == CancelQueued(j) \/ CancelWaiting(j) \/ CancelIsolated(j)

\* What happens to a submitted job by itself.
Progress(j) ==
  \/ StartThread(j) \/ StartChild(j) \/ StartInPool(j)
  \/ Begin(j) \/ Finish(j) \/ FutureFails(j) \/ FutureCancelled(j)
  \/ Deliver(j) \/ Reap(j)

CpuNext ==
  \/ \E j \in Jobs : (\E k \in Kinds : Submit(j, k)) \/ Progress(j) \/ Cancel(j) \/ ChildDies(j)
  \/ \E p \in Pools : PoolBreaks(p)
  \/ Shutdown

CpuSpec == CpuInit /\ [][CpuNext]_cpuVars

\* Fits end, executors run what they are given, and the event loop resumes what
\* is ready; nobody has to submit or to cancel, and no process has to die.
CpuFairness == \A j \in Jobs : WF_cpuVars(Progress(j))

FairCpuSpec == CpuSpec /\ CpuFairness

-----------------------------------------------------------------------------
(* Properties.                                                              *)

JobPhases == {"idle", "queued", "waiting", "reaping", "done", "refused"}
WorkStates == {"none", "pending", "running", "ended", "broken", "cancelled", "stopped"}

CpuTypeOK ==
  /\ kind \in [Jobs -> Kinds]
  /\ jobPhase \in [Jobs -> JobPhases]
  /\ exclusive \in [Jobs -> BOOLEAN]
  /\ work \in [Jobs -> WorkStates]
  /\ home \in [Jobs -> Pools \cup {NoPool}]
  /\ pool \in [Pools -> {"unused", "ok", "closed", "broken"}]
  /\ current \in Pools \cup {NoPool}
  /\ threadPending \in 0 .. Cardinality(Jobs)
  /\ processPending \in 0 .. Cardinality(Jobs)

\* What keeps the processors busy or is about to.
PendingThreads ==
  {j \in Jobs : kind[j] = "thread" /\ jobPhase[j] \in {"queued", "waiting"}}
PendingProcesses ==
  {j \in Jobs : \/ kind[j] # "thread" /\ jobPhase[j] = "queued"
                \/ kind[j] = "isolated" /\ jobPhase[j] \in {"waiting", "reaping"}
                \/ InPool(j) /\ Unfinished(j)}

\* The counters that decide on degradation are exact, through cancellations, broken
\* pools and shutdowns: a cancelled request "does not falsely make still-running
\* CPU work look idle" (cpu.py:392), and nothing is counted for ever.
PendingExact ==
  /\ threadPending = Cardinality(PendingThreads)
  /\ processPending = Cardinality(PendingProcesses)

\* Cancellation "waits for the child to terminate and be reaped" (cpu.py:285): the
\* children of isolated jobs are never more than the gate admits, and none
\* survives the job that a lease protects.
ChildrenBounded ==
  LET children == {j \in Jobs : kind[j] = "isolated" /\ work[j] = "running"}
  IN  /\ Cardinality(children) <= Workers
      /\ \A j \in children : jobPhase[j] \in {"waiting", "reaping"}

\* A pool is let go because it is broken or because it is closed: an old job's news
\* of a broken pool never discards the healthy one that followed.
DiscardsOnlyBroken ==
  [][current # NoPool /\ current' # current => pool'[current] \in {"broken", "closed"}]_cpuVars

\* Nobody waits for ever, whatever breaks and whoever cancels.
JobEnds(j) == jobPhase[j] = "queued" ~> jobPhase[j] \in {"done", "refused"}

\* "Allow a later request to construct a fresh pool after a worker crash"
\* (cpu.py:185): when a broken pool refuses a request, somebody still awaits work
\* of that pool and will discard it.
FreshPoolAfterCrash ==
  \A j \in Jobs : jobPhase[j] = "refused" /\ current = home[j] =>
    \E i \in Jobs : jobPhase[i] = "waiting" /\ home[i] = current

\* Together: what admission counts is what is there, and no child is left behind.
CpuIsExact == PendingExact /\ ChildrenBounded
=============================================================================
