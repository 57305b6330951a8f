------------------------------ MODULE DurableJobs ------------------------------
(***************************************************************************)
(* The job machinery of futuris/upgrade: SafeScheduler runs a job function *)
(* under a lease, the function changes the job's row, state, checkpoints   *)
(* and outbox in the DurableStateStore, and an OutboxDispatcher sends the  *)
(* events.  Leases and states live in memory, the rest in SQLite; each     *)
(* write to SQLite is a transaction of its own.  Nothing in src/ runs any  *)
(* of it: the callers are external.                                        *)
(***************************************************************************)
EXTENDS Naturals, Sequences, FiniteSets, SequencesExt, FiniteSetsExt

CONSTANTS
  JobCalls,     (* calls of run_once for one job                           *)
  Owner,        (* the owner each call names                               *)
  DrainLimit,   (* limit of drain                                          *)
  MaxCrashes,   (* bound: crashes, and marks that fail                     *)
  Nobody

ASSUME JobsAssumption ==
  /\ DrainLimit \in Nat \ {0} /\ MaxCrashes \in Nat
  /\ IsFiniteSet(JobCalls) /\ Nobody \notin JobCalls

VARIABLES
  lease,        (* the entry of DistributedLeaseTable and who made it      *)
  jobCall,      (* per call: where it is and the version it read           *)
  machine,      (* the StateMachine of the job                             *)
  job,          (* the version of the jobs row, 0 when absent              *)
  author,       (* the call that wrote each version of the row             *)
  checkpoints,  (* versions with a checkpoint                              *)
  outbox,       (* the outbox rows in rowid order                          *)
  sent,         (* how often the sender has accepted each event: returned  *)
  unmarked,     (* how often it has, and the row was not marked            *)
  drain,        (* the drain under way: the rows it read, the first is sent*)
  crashes       (* so far                                                  *)

jobsVars == <<lease, jobCall, machine, job, author, checkpoints, outbox, sent, unmarked,
             drain, crashes>>

Versions == 1 .. Cardinality(JobCalls)
Free == [by |-> Nobody, valid |-> FALSE]
Idle == [rows |-> {}, phase |-> "idle"]

\* _ALLOWED of upgrade/state.py.
Allowed == [created |-> {"queued", "cancelled"},
            queued |-> {"running", "cancelled"},
            running |-> {"paused", "succeeded", "failed", "cancelled"},
            paused |-> {"queued", "cancelled", "failed"},
            failed |-> {"queued"}, succeeded |-> {}, cancelled |-> {}]

JobsInit ==
  /\ lease = Free
  /\ jobCall = [c \in JobCalls |-> [phase |-> "off", read |-> 0, stamp |-> 0]]
  /\ machine = [state |-> "created", version |-> 0]
  /\ job = 0 /\ author = [v \in Versions |-> Nobody]
  /\ checkpoints = {} /\ outbox = <<>>
  /\ sent = [v \in Versions |-> 0] /\ unmarked = [v \in Versions |-> 0] /\ drain = Idle /\ crashes = 0

Store == <<job, author, checkpoints, outbox, sent, unmarked>>
At(c, p) == jobCall' = [jobCall EXCEPT ![c].phase = p]
Running == {c \in JobCalls : jobCall[c].phase \notin {"off", "skipped", "release", "over"}}

-----------------------------------------------------------------------------
(* Leases and run_once.                                                     *)

\* acquire: a lease that is valid turns the call away, an expired one is replaced.
RunOnce(c) ==
  /\ jobCall[c].phase = "off"
  /\ IF lease.valid THEN At(c, "skipped") /\ UNCHANGED lease
                    ELSE At(c, "load") /\ lease' = [by |-> c, valid |-> TRUE]
  /\ UNCHANGED <<machine, Store, drain, crashes>>

\* 120 seconds pass; nothing renews a lease or stops the function it was taken for.
LeaseExpires ==
  /\ lease.valid
  /\ lease' = [lease EXCEPT !.valid = FALSE]
  /\ UNCHANGED <<jobCall, machine, Store, drain, crashes>>

\* The finally clause: release compares the owner, not the acquisition.
Release(c) ==
  /\ jobCall[c].phase = "release" /\ At(c, "over")
  /\ lease' = IF lease # Free /\ Owner[lease.by] = Owner[c] THEN Free ELSE lease
  /\ UNCHANGED <<machine, Store, drain, crashes>>

\* The function raises, or shutdown cancels it.
Interrupt(c) ==
  /\ c \in Running /\ At(c, "release")
  /\ UNCHANGED <<lease, machine, Store, drain, crashes>>

-----------------------------------------------------------------------------
(* What a job function does with the store.                                 *)

\* get_job and snapshot.
Load(c) ==
  /\ jobCall[c].phase = "load"
  /\ jobCall' = [jobCall EXCEPT ![c] = [phase |-> "move", read |-> job, stamp |-> machine.version]]
  /\ UNCHANGED <<lease, machine, Store, drain, crashes>>

\* transition with the version of the snapshot.
Transition(c) ==
  /\ jobCall[c].phase = "move"
  /\ \/ /\ jobCall[c].stamp = machine.version
        /\ \E s \in Allowed[machine.state] : machine' = [state |-> s, version |-> machine.version + 1]
        /\ At(c, "save")
     \/ /\ jobCall[c].stamp # machine.version \/ Allowed[machine.state] = {}
        /\ At(c, "release") /\ UNCHANGED machine
  /\ UNCHANGED <<lease, Store, drain, crashes>>

\* upsert_job inserts, or updates the version before the one it is given.
UpsertJob(c) ==
  /\ jobCall[c].phase = "save"
  /\ IF job \in {0, jobCall[c].read}
     THEN /\ job' = jobCall[c].read + 1 /\ author' = [author EXCEPT ![job'] = c]
          /\ At(c, "checkpoint")
     ELSE At(c, "release") /\ UNCHANGED <<job, author>>
  /\ UNCHANGED <<lease, machine, checkpoints, outbox, sent, unmarked, drain, crashes>>

\* save; the primary key refuses a second checkpoint of a version.
SaveCheckpoint(c) ==
  /\ jobCall[c].phase = "checkpoint"
  /\ LET v == jobCall[c].read + 1 IN
     /\ checkpoints' = checkpoints \cup {v}
     /\ At(c, IF v \in checkpoints THEN "release" ELSE "publish")
  /\ UNCHANGED <<lease, machine, job, author, outbox, sent, unmarked, drain, crashes>>

\* publish: INSERT OR IGNORE.
Published == {outbox[i].event : i \in DOMAIN outbox}

Publish(c) ==
  /\ jobCall[c].phase = "publish" /\ At(c, "release")
  /\ outbox' = IF jobCall[c].read + 1 \in Published THEN outbox
               ELSE Append(outbox, [event |-> jobCall[c].read + 1, delivered |-> FALSE])
  /\ UNCHANGED <<lease, machine, job, author, checkpoints, sent, unmarked, drain, crashes>>

-----------------------------------------------------------------------------
(* The outbox.                                                              *)

Pending == {i \in DOMAIN outbox : ~outbox[i].delivered}

\* drain reads the oldest pending rows; its lock keeps a second drain waiting.
BeginDrain ==
  /\ drain = Idle /\ Pending # {}
  /\ drain' = [phase |-> "send",
               rows |-> {i \in Pending : Cardinality({k \in Pending : k < i}) < DrainLimit}]
  /\ UNCHANGED <<lease, jobCall, machine, Store, crashes>>

Sending == Min(drain.rows)
Event == outbox[Sending].event
Drained == LET left == drain.rows \ {Sending} IN
           IF left = {} THEN Idle ELSE [phase |-> "send", rows |-> left]

MutantSendMarksAll ==
  /\ drain.phase = "send" /\ drain' = [drain EXCEPT !.phase = "mark"]
  /\ sent' \in {sent, [sent EXCEPT ![Event] = @ + 1]}
  /\ UNCHANGED <<lease, jobCall, machine, job, author, checkpoints, outbox, unmarked, crashes>>

\* The sender accepts; or it raises, and the row is left for a later drain.
SendEvent ==
  /\ drain.phase = "send"
  /\ \/ drain' = [drain EXCEPT !.phase = "mark"] /\ sent' = [sent EXCEPT ![Event] = @ + 1]
     \/ drain' = Drained /\ UNCHANGED sent
  /\ UNCHANGED <<lease, jobCall, machine, job, author, checkpoints, outbox, unmarked, crashes>>

\* mark_outbox_delivered.
Mark ==
  /\ drain.phase = "mark" /\ drain' = Drained
  /\ outbox' = [outbox EXCEPT ![Sending].delivered = TRUE]
  /\ UNCHANGED <<lease, jobCall, machine, job, author, checkpoints, sent, unmarked, crashes>>

\* What the sender has accepted stays unmarked when the drain ends here.
LeaveUnmarked ==
  unmarked' = IF drain.phase = "mark" THEN [unmarked EXCEPT ![Event] = @ + 1] ELSE unmarked

\* The drain is cancelled while it awaits the sender, or the mark fails: no other row is sent.
CutDrain ==
  /\ drain # Idle /\ drain' = Idle /\ LeaveUnmarked
  /\ IF drain.phase = "mark" THEN crashes < MaxCrashes /\ crashes' = crashes + 1
                             ELSE UNCHANGED crashes
  /\ UNCHANGED <<lease, jobCall, machine, job, author, checkpoints, outbox, sent>>

\* The process dies: leases, states, calls and drains are gone, the database is not.
JobsCrash ==
  /\ crashes < MaxCrashes /\ crashes' = crashes + 1
  /\ lease' = Free /\ drain' = Idle /\ LeaveUnmarked /\ machine' = [state |-> "created", version |-> 0]
  /\ jobCall' = [c \in JobCalls |-> IF jobCall[c].phase = "off" THEN jobCall[c]
                                   ELSE [jobCall[c] EXCEPT !.phase = "over"]]
  /\ UNCHANGED <<job, author, checkpoints, outbox, sent>>

JobStep(c) ==
  \/ Release(c) \/ Load(c) \/ Transition(c)
  \/ UpsertJob(c) \/ SaveCheckpoint(c) \/ Publish(c)
DrainStep == BeginDrain \/ SendEvent \/ Mark \/ CutDrain

JobsNext ==
  \/ \E c \in JobCalls : RunOnce(c) \/ JobStep(c) \/ Interrupt(c)
  \/ LeaseExpires \/ DrainStep \/ JobsCrash

JobsSpec == JobsInit /\ [][JobsNext]_jobsVars

-----------------------------------------------------------------------------
(* Properties.                                                              *)

\* No version of the row, and no checkpoint or event of it, is overwritten by a call that had
\* not read its predecessor (upsert_job), even when two calls overlap.
NothingOverwritten == \A v \in Versions : author[v] # Nobody => author'[v] = author[v]

\* An event is marked only after the sender has accepted it, and it is sent again only
\* as often as a crash or a failed mark came between the two: no refusal, cancellation,
\* limit or later drain sends an event twice that was marked, or one not published (drain).
OutboxIsExact ==
  /\ \A i \in DOMAIN outbox : outbox[i].delivered => sent[outbox[i].event] > 0
  /\ \A v \in Versions : sent[v] <= unmarked[v] + 1 /\ (sent[v] > 0 => v \in Published)

\* What a job has done is not undone, and what it has published is sent no more than it must.
JobsAreDurable == [][NothingOverwritten /\ OutboxIsExact']_jobsVars
=============================================================================
