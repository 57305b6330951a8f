---------------------------- MODULE CpuPoolProofs ----------------------------
(***************************************************************************)
(* The admission counters and gates of CpuPool, for any number of jobs,    *)
(* slots and workers.                                                      *)
(***************************************************************************)
EXTENDS CpuPool, FiniteSetTheorems, TLAPS

-----------------------------------------------------------------------------
(* The inductive invariant.                                                 *)

\* CpuTypeOK without the counters, which are bounded because they are exact.
CpuTypes ==
  /\ kind \in [Jobs -> Kinds]
  /\ jobPhase \in [Jobs -> JobPhases]
  /\ exclusive \in [Jobs -> BOOLEAN]
  /\ work \in [Jobs -> WorkStates]
  /\ home \in [Jobs -> Pools \cup {NoPool}]
  /\ pool \in [Pools -> {"unused", "ok", "closed", "broken"}]
  /\ current \in Pools \cup {NoPool}

\* The coroutine of a job and its work agree.
JobInv(j) ==
  /\ jobPhase[j] \in {"idle", "queued", "refused"} => work[j] = "none"
  /\ jobPhase[j] \in {"waiting", "reaping"} => work[j] # "none"
  /\ jobPhase[j] = "reaping" => kind[j] = "isolated"
  /\ kind[j] = "isolated" => work[j] # "pending"
  /\ kind[j] = "isolated" /\ Unfinished(j) => jobPhase[j] \in {"waiting", "reaping"}
  /\ kind[j] = "isolated" /\ jobPhase[j] # "idle" => exclusive[j]

\* Work sent to a pool is in a pool, and broken work in a broken one.
HomeInv(j) ==
  InPool(j) /\ work[j] # "none" =>
    /\ home[j] \in Pools
    /\ work[j] = "broken" => pool[home[j]] = "broken"

ProcessHolders == Holders(Kinds \ {"thread"})

GateInv == Cardinality(ProcessHolders) <= Workers

CurrentInv == current # NoPool => pool[current] \in {"ok", "broken"}

CpuInv ==
  /\ CpuTypes
  /\ \A j \in Jobs : JobInv(j) /\ HomeInv(j)
  /\ CurrentInv
  /\ GateInv
  /\ PendingExact

-----------------------------------------------------------------------------
(* Counting.                                                                *)

\* Two sets of jobs that differ in one job at most.
LEMMA Counted ==
  ASSUME NEW S \in SUBSET Jobs, NEW T \in SUBSET Jobs, NEW j \in Jobs,
         \A i \in Jobs : i # j => (i \in T <=> i \in S)
  PROVE  /\ Cardinality(S) \in Nat /\ Cardinality(T) \in Nat
         /\ j \in S /\ j \notin T => Cardinality(S) > 0 /\ Cardinality(T) = Cardinality(S) - 1
         /\ j \notin S /\ j \in T => Cardinality(T) = Cardinality(S) + 1
         /\ (j \in S <=> j \in T) => Cardinality(T) = Cardinality(S)
<1>1. IsFiniteSet(S) /\ IsFiniteSet(T)
  BY FS_Subset, CpuAssumption
<1>2. Cardinality(S) \in Nat /\ Cardinality(T) \in Nat
  BY <1>1, FS_CardinalityType
<1>3. ASSUME j \in S, j \notin T
      PROVE  Cardinality(S) > 0 /\ Cardinality(T) = Cardinality(S) - 1
  <2>1. T = S \ {j}
    BY <1>3
  <2>2. Cardinality(T) = Cardinality(S) - 1
    BY <2>1, <1>1, <1>3, FS_RemoveElement
  <2> QED
    BY <2>2, <1>2
<1>4. ASSUME j \notin S, j \in T
      PROVE  Cardinality(T) = Cardinality(S) + 1
  <2>1. T = S \cup {j}
    BY <1>4
  <2> QED
    BY <2>1, <1>1, <1>4, FS_AddElement
<1>5. ASSUME j \in S <=> j \in T
      PROVE  Cardinality(T) = Cardinality(S)
  <2>1. T = S
    BY <1>5
  <2> QED
    BY <2>1
<1> QED
  BY <1>2, <1>3, <1>4, <1>5

\* A subset of the jobs counts at most all of them.
LEMMA CountBounded ==
  ASSUME NEW S \in SUBSET Jobs
  PROVE  Cardinality(S) \in 0 .. Cardinality(Jobs)
<1>1. IsFiniteSet(S) /\ Cardinality(S) <= Cardinality(Jobs)
  BY FS_Subset, CpuAssumption
<1>2. Cardinality(S) \in Nat /\ Cardinality(Jobs) \in Nat
  BY <1>1, FS_CardinalityType, CpuAssumption
<1> QED
  BY <1>1, <1>2

\* A step that changes one job only.
OneJob(j) ==
  \A i \in Jobs : i # j =>
    /\ kind'[i] = kind[i] /\ jobPhase'[i] = jobPhase[i]
    /\ exclusive'[i] = exclusive[i] /\ work'[i] = work[i]

\* Such a step keeps the counts exact, if the counters follow the job.
LEMMA CountersFollow ==
  ASSUME PendingExact, NEW j \in Jobs, OneJob(j),
         IF j \in PendingThreads
         THEN threadPending' = IF j \in PendingThreads' THEN threadPending ELSE threadPending - 1
         ELSE threadPending' = IF j \in PendingThreads' THEN threadPending + 1 ELSE threadPending,
         IF j \in PendingProcesses
         THEN processPending' =
                IF j \in PendingProcesses' THEN processPending ELSE Less(processPending)
         ELSE processPending' =
                IF j \in PendingProcesses' THEN processPending + 1 ELSE processPending
  PROVE  PendingExact'
<1>1. threadPending' = Cardinality(PendingThreads')
  <2>1. /\ PendingThreads \in SUBSET Jobs /\ PendingThreads' \in SUBSET Jobs
        /\ \A i \in Jobs : i # j => (i \in PendingThreads' <=> i \in PendingThreads)
    BY DEF PendingThreads, OneJob
  <2>2. /\ Cardinality(PendingThreads) \in Nat
        /\ j \in PendingThreads /\ j \notin PendingThreads' =>
             Cardinality(PendingThreads') = Cardinality(PendingThreads) - 1
        /\ j \notin PendingThreads /\ j \in PendingThreads' =>
             Cardinality(PendingThreads') = Cardinality(PendingThreads) + 1
        /\ (j \in PendingThreads <=> j \in PendingThreads') =>
             Cardinality(PendingThreads') = Cardinality(PendingThreads)
    BY <2>1, Counted
  <2>3. threadPending = Cardinality(PendingThreads)
    BY DEF PendingExact
  <2> QED
    BY <2>2, <2>3
<1>2. processPending' = Cardinality(PendingProcesses')
  <2>1. /\ PendingProcesses \in SUBSET Jobs /\ PendingProcesses' \in SUBSET Jobs
        /\ \A i \in Jobs : i # j => (i \in PendingProcesses' <=> i \in PendingProcesses)
    BY DEF PendingProcesses, OneJob, InPool, Unfinished
  <2>2. /\ Cardinality(PendingProcesses) \in Nat
        /\ j \in PendingProcesses /\ j \notin PendingProcesses' =>
             /\ Cardinality(PendingProcesses) > 0
             /\ Cardinality(PendingProcesses') = Cardinality(PendingProcesses) - 1
        /\ j \notin PendingProcesses /\ j \in PendingProcesses' =>
             Cardinality(PendingProcesses') = Cardinality(PendingProcesses) + 1
        /\ (j \in PendingProcesses <=> j \in PendingProcesses') =>
             Cardinality(PendingProcesses') = Cardinality(PendingProcesses)
    BY <2>1, Counted
  <2>3. processPending = Cardinality(PendingProcesses)
    BY DEF PendingExact
  <2> QED
    BY <2>2, <2>3 DEF Less
<1> QED
  BY <1>1, <1>2 DEF PendingExact

\* Such a step keeps the gate, unless the job takes a permit that is not free.
LEMMA GateFollows ==
  ASSUME GateInv, NEW j \in Jobs, OneJob(j),
         j \in ProcessHolders' =>
           j \in ProcessHolders \/ Cardinality(ProcessHolders) < Workers
  PROVE  GateInv'
<1>1. /\ ProcessHolders \in SUBSET Jobs /\ ProcessHolders' \in SUBSET Jobs
      /\ \A i \in Jobs : i # j => (i \in ProcessHolders' <=> i \in ProcessHolders)
  BY DEF ProcessHolders, Holders, OneJob
<1>2. /\ Cardinality(ProcessHolders) \in Nat /\ Cardinality(ProcessHolders') \in Nat
      /\ j \in ProcessHolders /\ j \notin ProcessHolders' =>
           Cardinality(ProcessHolders') = Cardinality(ProcessHolders) - 1
      /\ j \notin ProcessHolders /\ j \in ProcessHolders' =>
           Cardinality(ProcessHolders') = Cardinality(ProcessHolders) + 1
      /\ (j \in ProcessHolders <=> j \in ProcessHolders') =>
           Cardinality(ProcessHolders') = Cardinality(ProcessHolders)
  BY <1>1, Counted
<1>3. Workers \in Nat
  BY CpuAssumption
<1> QED
  BY <1>2, <1>3 DEF GateInv

-----------------------------------------------------------------------------
(* The actions of one job.                                                  *)

\* A submitted job is counted and holds no permit yet.
LEMMA SubmitSound ==
  ASSUME CpuInv, NEW j \in Jobs, NEW k \in Kinds, Submit(j, k)
  PROVE  CpuInv'
<1> USE DEF Submit, Become, WorkBecomes, MayStart, Uncount,
            DiscardBrokenPool, AtHand, coroutine, counters, InPool, Unfinished
<1>1. CpuTypes'
  BY DEF CpuInv, CpuTypes, JobPhases, WorkStates
<1>2. OneJob(j)
  BY DEF CpuInv, CpuTypes, OneJob
<1>3. \A i \in Jobs : JobInv(i)' /\ HomeInv(i)'
  BY DEF CpuInv, CpuTypes, JobInv, HomeInv
<1>4. CurrentInv'
  BY DEF CpuInv, CpuTypes, CurrentInv, HomeInv
<1>5. GateInv'
  <2>1. j \in ProcessHolders' => j \in ProcessHolders
    BY DEF CpuInv, CpuTypes, ProcessHolders, Holders
  <2> QED
    BY <2>1, <1>2, GateFollows DEF CpuInv
<1>6. PendingExact'
  BY <1>2, CountersFollow DEF CpuInv, CpuTypes, JobInv, PendingThreads, PendingProcesses
<1> QED
  BY <1>1, <1>3, <1>4, <1>5, <1>6 DEF CpuInv

\* A started thread stays counted and takes no permit of the process gate.
LEMMA StartThreadSound ==
  ASSUME CpuInv, NEW j \in Jobs, StartThread(j)
  PROVE  CpuInv'
<1> USE DEF StartThread, Become, WorkBecomes, MayStart, Uncount,
            DiscardBrokenPool, AtHand, coroutine, counters, InPool, Unfinished
<1>1. CpuTypes'
  BY DEF CpuInv, CpuTypes, JobPhases, WorkStates
<1>2. OneJob(j)
  BY DEF CpuInv, CpuTypes, OneJob
<1>3. \A i \in Jobs : JobInv(i)' /\ HomeInv(i)'
  BY DEF CpuInv, CpuTypes, JobInv, HomeInv
<1>4. CurrentInv'
  BY DEF CpuInv, CpuTypes, CurrentInv, HomeInv
<1>5. GateInv'
  <2>1. j \in ProcessHolders' => j \in ProcessHolders
    BY DEF CpuInv, CpuTypes, ProcessHolders, Holders
  <2> QED
    BY <2>1, <1>2, GateFollows DEF CpuInv
<1>6. PendingExact'
  BY <1>2, CountersFollow DEF CpuInv, CpuTypes, JobInv, PendingThreads, PendingProcesses
<1> QED
  BY <1>1, <1>3, <1>4, <1>5, <1>6 DEF CpuInv

\* A started child stays counted and takes a free permit.
LEMMA StartChildSound ==
  ASSUME CpuInv, NEW j \in Jobs, StartChild(j)
  PROVE  CpuInv'
<1> USE DEF StartChild, Become, WorkBecomes, MayStart, Uncount,
            DiscardBrokenPool, AtHand, coroutine, counters, InPool, Unfinished
<1>1. CpuTypes'
  BY DEF CpuInv, CpuTypes, JobPhases, WorkStates
<1>2. OneJob(j)
  BY DEF CpuInv, CpuTypes, OneJob
<1>3. \A i \in Jobs : JobInv(i)' /\ HomeInv(i)'
  BY DEF CpuInv, CpuTypes, JobInv, HomeInv
<1>4. CurrentInv'
  BY DEF CpuInv, CpuTypes, CurrentInv, HomeInv
<1>5. GateInv'
  <2>1. kind[j] # "thread" /\ exclusive[j] => Cardinality(ProcessHolders) < Workers
    BY DEF ProcessHolders, Permits
  <2>2. j \in ProcessHolders' => kind[j] # "thread" /\ exclusive[j]
    BY DEF CpuInv, CpuTypes, ProcessHolders, Holders
  <2> QED
    BY <2>1, <2>2, <1>2, GateFollows DEF CpuInv
<1>6. PendingExact'
  BY <1>2, CountersFollow DEF CpuInv, CpuTypes, JobInv, PendingThreads, PendingProcesses
<1> QED
  BY <1>1, <1>3, <1>4, <1>5, <1>6 DEF CpuInv

\* A job sent to a pool stays counted, one that is refused does not.
LEMMA StartInPoolSound ==
  ASSUME CpuInv, NEW j \in Jobs, StartInPool(j)
  PROVE  CpuInv'
<1> USE DEF StartInPool, Become, WorkBecomes, MayStart, Uncount,
            DiscardBrokenPool, AtHand, coroutine, counters, InPool, Unfinished
<1>1. CpuTypes'
  BY DEF CpuInv, CpuTypes, JobPhases, WorkStates
<1>2. OneJob(j)
  BY DEF CpuInv, CpuTypes, OneJob
<1>3. \A i \in Jobs : JobInv(i)' /\ HomeInv(i)'
  BY DEF CpuInv, CpuTypes, JobInv, HomeInv
<1>4. CurrentInv'
  BY DEF CpuInv, CpuTypes, CurrentInv, HomeInv
<1>5. GateInv'
  <2>1. kind[j] # "thread" /\ exclusive[j] => Cardinality(ProcessHolders) < Workers
    BY DEF ProcessHolders, Permits
  <2>2. j \in ProcessHolders' => kind[j] # "thread" /\ exclusive[j]
    BY DEF CpuInv, CpuTypes, ProcessHolders, Holders
  <2> QED
    BY <2>1, <2>2, <1>2, GateFollows DEF CpuInv
<1>6. PendingExact'
  BY <1>2, CountersFollow DEF CpuInv, CpuTypes, JobInv, PendingThreads, PendingProcesses
<1> QED
  BY <1>1, <1>3, <1>4, <1>5, <1>6 DEF CpuInv

\* Work that begins stays counted.
LEMMA BeginSound ==
  ASSUME CpuInv, NEW j \in Jobs, Begin(j)
  PROVE  CpuInv'
<1> USE DEF Begin, Become, WorkBecomes, MayStart, Uncount,
            DiscardBrokenPool, AtHand, coroutine, counters, InPool, Unfinished
<1>1. CpuTypes'
  BY DEF CpuInv, CpuTypes, JobPhases, WorkStates
<1>2. OneJob(j)
  BY DEF CpuInv, CpuTypes, OneJob
<1>3. \A i \in Jobs : JobInv(i)' /\ HomeInv(i)'
  BY DEF CpuInv, CpuTypes, JobInv, HomeInv
<1>4. CurrentInv'
  BY DEF CpuInv, CpuTypes, CurrentInv, HomeInv
<1>5. GateInv'
  <2>1. j \in ProcessHolders' => j \in ProcessHolders
    BY DEF CpuInv, CpuTypes, ProcessHolders, Holders
  <2> QED
    BY <2>1, <1>2, GateFollows DEF CpuInv
<1>6. PendingExact'
  BY <1>2, CountersFollow DEF CpuInv, CpuTypes, JobInv, PendingThreads, PendingProcesses
<1> QED
  BY <1>1, <1>3, <1>4, <1>5, <1>6 DEF CpuInv

\* A result ends the job, and a thread's or a child's count.
LEMMA DeliverSound ==
  ASSUME CpuInv, NEW j \in Jobs, Deliver(j)
  PROVE  CpuInv'
<1> USE DEF Deliver, Become, WorkBecomes, MayStart, Uncount,
            DiscardBrokenPool, AtHand, coroutine, counters, InPool, Unfinished
<1>1. CpuTypes'
  BY DEF CpuInv, CpuTypes, JobPhases, WorkStates
<1>2. OneJob(j)
  BY DEF CpuInv, CpuTypes, OneJob
<1>3. \A i \in Jobs : JobInv(i)' /\ HomeInv(i)'
  BY DEF CpuInv, CpuTypes, JobInv, HomeInv
<1>4. CurrentInv'
  BY DEF CpuInv, CpuTypes, CurrentInv, HomeInv
<1>5. GateInv'
  <2>1. j \in ProcessHolders' => j \in ProcessHolders
    BY DEF CpuInv, CpuTypes, ProcessHolders, Holders
  <2> QED
    BY <2>1, <1>2, GateFollows DEF CpuInv
<1>6. PendingExact'
  <2>1. /\ j \in PendingThreads <=> kind[j] = "thread"
        /\ j \notin PendingThreads'
    BY DEF CpuInv, CpuTypes, PendingThreads
  <2>2. kind[j] = "thread" => j \notin PendingProcesses /\ j \notin PendingProcesses'
    BY DEF CpuInv, CpuTypes, PendingProcesses
  <2>3. kind[j] = "isolated" => j \in PendingProcesses /\ j \notin PendingProcesses'
    BY DEF CpuInv, CpuTypes, PendingProcesses
  <2>4. InPool(j) => (j \in PendingProcesses <=> FALSE)
    BY DEF CpuInv, CpuTypes, PendingProcesses, JobInv
  <2>5. InPool(j) => (j \in PendingProcesses' <=> FALSE)
    BY DEF CpuInv, CpuTypes, PendingProcesses, JobInv
  <2>6. kind[j] \in Kinds
    BY DEF CpuInv, CpuTypes
  <2> QED
    BY <2>1, <2>2, <2>3, <2>4, <2>5, <2>6, <1>2, CountersFollow DEF CpuInv, Kinds
<1> QED
  BY <1>1, <1>3, <1>4, <1>5, <1>6 DEF CpuInv

\* A job cancelled in the queue is counted no more.
LEMMA CancelQueuedSound ==
  ASSUME CpuInv, NEW j \in Jobs, CancelQueued(j)
  PROVE  CpuInv'
<1> USE DEF CancelQueued, Become, WorkBecomes, MayStart, Uncount,
            DiscardBrokenPool, AtHand, coroutine, counters, InPool, Unfinished
<1>1. CpuTypes'
  BY DEF CpuInv, CpuTypes, JobPhases, WorkStates
<1>2. OneJob(j)
  BY DEF CpuInv, CpuTypes, OneJob
<1>3. \A i \in Jobs : JobInv(i)' /\ HomeInv(i)'
  BY DEF CpuInv, CpuTypes, JobInv, HomeInv
<1>4. CurrentInv'
  BY DEF CpuInv, CpuTypes, CurrentInv, HomeInv
<1>5. GateInv'
  <2>1. j \in ProcessHolders' => j \in ProcessHolders
    BY DEF CpuInv, CpuTypes, ProcessHolders, Holders
  <2> QED
    BY <2>1, <1>2, GateFollows DEF CpuInv
<1>6. PendingExact'
  BY <1>2, CountersFollow DEF CpuInv, CpuTypes, JobInv, PendingThreads, PendingProcesses
<1> QED
  BY <1>1, <1>3, <1>4, <1>5, <1>6 DEF CpuInv

\* A cancelled job leaves the count with its work.
LEMMA CancelWaitingSound ==
  ASSUME CpuInv, NEW j \in Jobs, CancelWaiting(j)
  PROVE  CpuInv'
<1> USE DEF CancelWaiting, Become, WorkBecomes, MayStart, Uncount,
            DiscardBrokenPool, AtHand, coroutine, counters, InPool, Unfinished
<1>1. CpuTypes'
  BY DEF CpuInv, CpuTypes, JobPhases, WorkStates
<1>2. OneJob(j)
  BY DEF CpuInv, CpuTypes, OneJob
<1>3. \A i \in Jobs : JobInv(i)' /\ HomeInv(i)'
  BY DEF CpuInv, CpuTypes, JobInv, HomeInv
<1>4. CurrentInv'
  BY DEF CpuInv, CpuTypes, CurrentInv, HomeInv
<1>5. GateInv'
  <2>1. j \in ProcessHolders' => j \in ProcessHolders
    BY DEF CpuInv, CpuTypes, ProcessHolders, Holders
  <2> QED
    BY <2>1, <1>2, GateFollows DEF CpuInv
<1>6. PendingExact'
  <2>1. /\ j \in PendingThreads <=> kind[j] = "thread"
        /\ j \notin PendingThreads'
    BY DEF CpuInv, CpuTypes, PendingThreads
  <2>2. kind[j] = "thread" => j \notin PendingProcesses /\ j \notin PendingProcesses'
    BY DEF CpuInv, CpuTypes, PendingProcesses
  <2>3. kind[j] = "isolated" => j \in PendingProcesses /\ j \notin PendingProcesses'
    BY DEF CpuInv, CpuTypes, PendingProcesses
  <2>4. InPool(j) => (j \in PendingProcesses <=> work[j] \in {"pending", "running"})
    BY DEF CpuInv, CpuTypes, PendingProcesses, JobInv
  <2>5. InPool(j) => (j \in PendingProcesses' <=> work[j] = "running")
    BY DEF CpuInv, CpuTypes, PendingProcesses, JobInv
  <2>6. kind[j] \in Kinds
    BY DEF CpuInv, CpuTypes
  <2> QED
    BY <2>1, <2>2, <2>3, <2>4, <2>5, <2>6, <1>2, CountersFollow DEF CpuInv, Kinds
<1> QED
  BY <1>1, <1>3, <1>4, <1>5, <1>6 DEF CpuInv

\* A cancelled child stays counted while it is reaped.
LEMMA CancelIsolatedSound ==
  ASSUME CpuInv, NEW j \in Jobs, CancelIsolated(j)
  PROVE  CpuInv'
<1> USE DEF CancelIsolated, Become, WorkBecomes, MayStart, Uncount,
            DiscardBrokenPool, AtHand, coroutine, counters, InPool, Unfinished
<1>1. CpuTypes'
  BY DEF CpuInv, CpuTypes, JobPhases, WorkStates
<1>2. OneJob(j)
  BY DEF CpuInv, CpuTypes, OneJob
<1>3. \A i \in Jobs : JobInv(i)' /\ HomeInv(i)'
  BY DEF CpuInv, CpuTypes, JobInv, HomeInv
<1>4. CurrentInv'
  BY DEF CpuInv, CpuTypes, CurrentInv, HomeInv
<1>5. GateInv'
  <2>1. j \in ProcessHolders' => j \in ProcessHolders
    BY DEF CpuInv, CpuTypes, ProcessHolders, Holders
  <2> QED
    BY <2>1, <1>2, GateFollows DEF CpuInv
<1>6. PendingExact'
  BY <1>2, CountersFollow DEF CpuInv, CpuTypes, JobInv, PendingThreads, PendingProcesses
<1> QED
  BY <1>1, <1>3, <1>4, <1>5, <1>6 DEF CpuInv

\* A reaped child is counted no more.
LEMMA ReapSound ==
  ASSUME CpuInv, NEW j \in Jobs, Reap(j)
  PROVE  CpuInv'
<1> USE DEF Reap, Become, WorkBecomes, MayStart, Uncount,
            DiscardBrokenPool, AtHand, coroutine, counters, InPool, Unfinished
<1>1. CpuTypes'
  BY DEF CpuInv, CpuTypes, JobPhases, WorkStates
<1>2. OneJob(j)
  BY DEF CpuInv, CpuTypes, OneJob
<1>3. \A i \in Jobs : JobInv(i)' /\ HomeInv(i)'
  BY DEF CpuInv, CpuTypes, JobInv, HomeInv
<1>4. CurrentInv'
  BY DEF CpuInv, CpuTypes, CurrentInv, HomeInv
<1>5. GateInv'
  <2>1. j \in ProcessHolders' => j \in ProcessHolders
    BY DEF CpuInv, CpuTypes, ProcessHolders, Holders
  <2> QED
    BY <2>1, <1>2, GateFollows DEF CpuInv
<1>6. PendingExact'
  BY <1>2, CountersFollow DEF CpuInv, CpuTypes, JobInv, PendingThreads, PendingProcesses
<1> QED
  BY <1>1, <1>3, <1>4, <1>5, <1>6 DEF CpuInv

-----------------------------------------------------------------------------
(* The work, the pools, and the whole step.                                 *)

\* Unfinished work that ends takes a pool job out of the count.
LEMMA EndsSound ==
  ASSUME CpuInv, NEW j \in Jobs, NEW w \in {"ended", "broken", "cancelled"},
         Unfinished(j), Ends(j, w),
         InPool(j) /\ w = "broken" => pool[home[j]] = "broken"
  PROVE  CpuInv'
<1> USE DEF Ends, WorkBecomes, coroutine, InPool, Unfinished
<1>1. CpuTypes'
  BY DEF CpuInv, CpuTypes, WorkStates
<1>2. OneJob(j)
  BY DEF CpuInv, CpuTypes, OneJob
<1>3. \A i \in Jobs : JobInv(i)' /\ HomeInv(i)'
  BY DEF CpuInv, CpuTypes, JobInv, HomeInv
<1>4. CurrentInv'
  BY DEF CpuInv, CurrentInv
<1>5. GateInv'
  <2>1. j \in ProcessHolders' => j \in ProcessHolders
    BY DEF ProcessHolders, Holders
  <2> QED
    BY <2>1, <1>2, GateFollows DEF CpuInv
<1>6. PendingExact'
  <2>1. j \in PendingThreads' <=> j \in PendingThreads
    BY DEF PendingThreads
  <2>2. ~InPool(j) => (j \in PendingProcesses' <=> j \in PendingProcesses)
    BY DEF PendingProcesses
  <2>3. InPool(j) => j \in PendingProcesses /\ j \notin PendingProcesses'
    BY DEF CpuInv, CpuTypes, JobInv, PendingProcesses
  <2> QED
    BY <2>1, <2>2, <2>3, <1>2, CountersFollow DEF CpuInv
<1> QED
  BY <1>1, <1>3, <1>4, <1>5, <1>6 DEF CpuInv

\* The ways work ends.
LEMMA WorkSound ==
  ASSUME CpuInv, NEW j \in Jobs,
         Finish(j) \/ ChildDies(j) \/ FutureFails(j) \/ FutureCancelled(j)
  PROVE  CpuInv'
<1>1. CASE Finish(j)
  BY <1>1, EndsSound DEF Finish, Unfinished
<1>2. CASE ChildDies(j)
  BY <1>2, EndsSound DEF ChildDies, Unfinished, InPool
<1>3. CASE FutureFails(j)
  BY <1>3, EndsSound DEF FutureFails
<1>4. CASE FutureCancelled(j)
  BY <1>4, EndsSound DEF FutureCancelled, Unfinished
<1> QED
  BY <1>1, <1>2, <1>3, <1>4

\* What happens to a pool changes no job.
LEMMA PoolsSound ==
  ASSUME CpuInv, (\E p \in Pools : PoolBreaks(p)) \/ Shutdown
  PROVE  CpuInv'
<1> USE DEF PoolBreaks, Shutdown, coroutine, counters
<1>1. UNCHANGED <<kind, jobPhase, exclusive, work, home, threadPending, processPending>>
  OBVIOUS
<1>2. CpuTypes'
  BY DEF CpuInv, CpuTypes
<1>3. \A i \in Jobs : JobInv(i)' /\ HomeInv(i)'
  BY DEF CpuInv, CpuTypes, JobInv, HomeInv, InPool, Unfinished
<1>4. CurrentInv'
  BY DEF CpuInv, CpuTypes, CurrentInv
<1>5. GateInv' /\ PendingExact'
  BY <1>1 DEF CpuInv, GateInv, ProcessHolders, Holders, PendingExact, PendingThreads,
              PendingProcesses, InPool, Unfinished
<1> QED
  BY <1>2, <1>3, <1>4, <1>5 DEF CpuInv

LEMMA CpuInitSound ==
  ASSUME CpuInit
  PROVE  CpuInv
<1>1. CpuTypes
  BY DEF CpuInit, CpuTypes, Kinds, JobPhases, WorkStates
<1>2. \A j \in Jobs : JobInv(j) /\ HomeInv(j)
  BY DEF CpuInit, JobInv, HomeInv, InPool, Unfinished
<1>3. CurrentInv
  BY DEF CpuInit, CurrentInv
<1>4. ProcessHolders = {} /\ PendingThreads = {} /\ PendingProcesses = {}
  BY DEF CpuInit, ProcessHolders, Holders, PendingThreads, PendingProcesses, InPool, Unfinished
<1>5. GateInv /\ PendingExact
  BY <1>4, FS_EmptySet, CpuAssumption DEF GateInv, PendingExact, CpuInit
<1> QED
  BY <1>1, <1>2, <1>3, <1>5 DEF CpuInv

LEMMA CpuNextSound ==
  ASSUME CpuInv, [CpuNext]_cpuVars
  PROVE  CpuInv'
<1>1. CASE UNCHANGED cpuVars
  BY <1>1 DEF CpuInv, CpuTypes, JobInv, HomeInv, CurrentInv, GateInv, ProcessHolders, Holders,
              PendingExact, PendingThreads, PendingProcesses, InPool, Unfinished,
              cpuVars, coroutine, counters
<1>2. ASSUME NEW j \in Jobs, NEW k \in Kinds, Submit(j, k)
      PROVE  CpuInv'
  BY <1>2, SubmitSound
<1>3. ASSUME NEW j \in Jobs, Progress(j)
      PROVE  CpuInv'
  BY <1>3, StartThreadSound, StartChildSound, StartInPoolSound, BeginSound, WorkSound,
     DeliverSound, ReapSound DEF Progress
<1>4. ASSUME NEW j \in Jobs, Cancel(j) \/ ChildDies(j)
      PROVE  CpuInv'
  BY <1>4, CancelQueuedSound, CancelWaitingSound, CancelIsolatedSound, WorkSound DEF Cancel
<1>5. CASE (\E p \in Pools : PoolBreaks(p)) \/ Shutdown
  BY <1>5, PoolsSound
<1> QED
  BY <1>1, <1>2, <1>3, <1>4, <1>5 DEF CpuNext

-----------------------------------------------------------------------------
(* The theorems.                                                            *)

\* Jobs, pools and counters stay as CpuInv describes them.
THEOREM CpuStaysSound == CpuSpec => []CpuInv
<1>1. CpuInit => CpuInv
  BY CpuInitSound
<1>2. CpuInv /\ [CpuNext]_cpuVars => CpuInv'
  BY CpuNextSound
<1> QED
  BY <1>1, <1>2, PTL DEF CpuSpec

\* The counters that decide on degradation are exact.
THEOREM CountersExact == CpuSpec => []PendingExact
<1>1. CpuInv => PendingExact
  BY DEF CpuInv
<1> QED
  BY <1>1, CpuStaysSound, PTL

\* Everything keeps its type; no counter passes the number of jobs.
THEOREM CpuTypeCorrect == CpuSpec => []CpuTypeOK
<1>1. ASSUME CpuInv
      PROVE  CpuTypeOK
  <2>1. PendingThreads \in SUBSET Jobs /\ PendingProcesses \in SUBSET Jobs
    BY DEF PendingThreads, PendingProcesses
  <2>2. /\ threadPending \in 0 .. Cardinality(Jobs)
        /\ processPending \in 0 .. Cardinality(Jobs)
    BY <1>1, <2>1, CountBounded DEF CpuInv, PendingExact
  <2> QED
    BY <1>1, <2>2 DEF CpuInv, CpuTypes, CpuTypeOK
<1>2. CpuInv => CpuTypeOK
  BY <1>1
<1> QED
  BY <1>2, CpuStaysSound, PTL

\* The children of isolated jobs stay within the gate, and die before their job ends.
THEOREM ChildrenReaped == CpuSpec => []ChildrenBounded
<1>1. ASSUME CpuInv
      PROVE  ChildrenBounded
  <2> DEFINE children == {j \in Jobs : kind[j] = "isolated" /\ work[j] = "running"}
  <2>1. \A j \in children : jobPhase[j] \in {"waiting", "reaping"} /\ exclusive[j]
    BY <1>1 DEF CpuInv, JobInv, Unfinished
  <2>2. children \subseteq ProcessHolders
    BY <2>1 DEF ProcessHolders, Holders, Kinds
  <2>3. /\ ProcessHolders \in SUBSET Jobs /\ IsFiniteSet(ProcessHolders)
    BY FS_Subset, CpuAssumption DEF ProcessHolders, Holders
  <2>4. /\ Cardinality(children) <= Cardinality(ProcessHolders)
        /\ IsFiniteSet(children)
    BY <2>2, <2>3, FS_Subset
  <2>5. Cardinality(children) \in Nat /\ Cardinality(ProcessHolders) \in Nat
    BY <2>3, <2>4, FS_CardinalityType
  <2>6. Cardinality(ProcessHolders) <= Workers /\ Workers \in Nat
    BY <1>1, CpuAssumption DEF CpuInv, GateInv
  <2>7. Cardinality(children) <= Workers
    BY <2>4, <2>5, <2>6
  <2> QED
    BY <2>1, <2>7 DEF ChildrenBounded
<1>2. CpuInv => ChildrenBounded
  BY <1>1
<1> QED
  BY <1>2, CpuStaysSound, PTL

\* A pool is let go because it is broken or closed.
THEOREM OnlyBrokenDiscarded == CpuSpec => DiscardsOnlyBroken
<1>1. ASSUME CpuInv, [CpuNext]_cpuVars, current # NoPool, current' # current
      PROVE  pool'[current] \in {"broken", "closed"}
  <2>1. current \in Pools /\ pool[current] \in {"ok", "broken"} /\ DOMAIN pool = Pools
    BY <1>1 DEF CpuInv, CpuTypes, CurrentInv
  <2>2. CASE Shutdown
    BY <2>1, <2>2, <1>1 DEF Shutdown, CpuInv, CpuTypes
  <2>3. ASSUME NEW j \in Jobs, Deliver(j)
        PROVE  pool'[current] \in {"broken", "closed"}
    <3>1. InPool(j) /\ work[j] = "broken" /\ current = home[j]
      BY <2>3, <1>1 DEF Deliver, DiscardBrokenPool
    <3> QED
      BY <3>1, <2>3, <1>1 DEF Deliver, CpuInv, HomeInv
  <2>4. ASSUME NEW j \in Jobs, StartInPool(j)
        PROVE  FALSE
    BY <2>4, <1>1 DEF StartInPool, AtHand
  <2>5. Shutdown \/ \E j \in Jobs : Deliver(j) \/ StartInPool(j)
    BY <1>1 DEF CpuNext, Submit, Progress, StartThread, StartChild, Begin, Finish, FutureFails,
                FutureCancelled, Ends, Reap, Cancel, CancelQueued, CancelWaiting,
                CancelIsolated, ChildDies, PoolBreaks, cpuVars
  <2> QED
    BY <2>2, <2>3, <2>4, <2>5
<1>2. CpuInv /\ [CpuNext]_cpuVars =>
        [current # NoPool /\ current' # current => pool'[current] \in {"broken", "closed"}]_cpuVars
  BY <1>1
<1> QED
  BY <1>2, CpuStaysSound, PTL DEF CpuSpec, DiscardsOnlyBroken

\* Counters and children, for any number of jobs, slots and workers.
THEOREM CpuCountsExact == CpuSpec => []CpuIsExact
<1>1. PendingExact /\ ChildrenBounded => CpuIsExact
  BY DEF CpuIsExact
<1> QED
  BY <1>1, CountersExact, ChildrenReaped, PTL
=============================================================================
