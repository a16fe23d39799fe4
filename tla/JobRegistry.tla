---------------------------- MODULE JobRegistry ----------------------------
(***************************************************************************)
(* The detached jobs of the MCP server: job_start, job_status and          *)
(* job_cancel of crates/ah-mcp/src/server.rs over the JobRegistry of       *)
(* crates/ah-mcp/src/jobs.rs, composed with the executor's lifecycle.      *)
(*                                                                         *)
(* A job_start call e submits the execution e and reserves the job e; its  *)
(* job id carries a fresh sequence number, so ids are never reused.        *)
(***************************************************************************)
EXTENDS ExecutionLifecycle

CONSTANTS
  MaxRecords,   \* DEFAULT_JOB_CAPACITY
  Ttl,          \* DEFAULT_JOB_TTL, in ticks
  Cancellable,  \* jobs that clients cancel (bound)
  MaxNow        \* bound on the clock

ASSUME JobAssumption ==
  /\ MaxRecords \in Nat \ {0} /\ Ttl \in Nat \ {0} /\ MaxNow \in Nat
  /\ Cancellable \subseteq Exec

VARIABLES
  records,    \* JobRegistry.records: a partial map from jobs to records
  now,        \* Instant::now()
  nextSeq,    \* next_sequence
  start,      \* progress of the job_start call
  task,       \* progress of the task that attach spawns
  observed,   \* the status and draining flag the task has computed
  canceller   \* progress of one job_cancel call per job

jobVars == <<records, now, nextSeq, start, task, observed, canceller>>
vars == <<lifecycleVars, jobVars>>

Jobs == DOMAIN records
Statuses == {"running", "succeeded", "failed", "cancelled", "timed_out"}
Terminal == Statuses \ {"running"}

\* The status that attach derives from an answer of the executor.
StatusOf(a) ==
  CASE a = "success" -> "succeeded"
    [] a = "failure" -> "failed"
    [] a = "cancelled" -> "cancelled"
    [] a = "timed_out" -> "timed_out"

\* physical_completed_at is None until complete_physical.
NotCompleted == MaxNow + 1
Completed(R) == {j \in DOMAIN R : R[j].completedAt # NotCompleted}

\* Every variable keeps its type, and the executor side stays one that
\* ExecutionLifecycle allows.
JobTypeOK ==
  /\ LifecycleTypeOK
  /\ Jobs \subseteq Exec
  /\ \A j \in Jobs :
       /\ records[j].seq \in 1..Cardinality(Exec)
       /\ records[j].status \in Statuses
       /\ records[j].draining \in BOOLEAN
       /\ records[j].attached \in BOOLEAN
       /\ records[j].completedAt \in 0..NotCompleted
  /\ now \in 0..MaxNow
  /\ nextSeq \in 1..(Cardinality(Exec) + 1)
  /\ start \in [Exec -> {"idle", "reserved", "rolling_back", "accepted",
                         "attached", "started", "refused", "panicked"}]
  /\ task \in [Exec -> {"none", "observing", "logical", "waiting", "done"}]
  /\ observed \in [Exec -> [status : Statuses, draining : BOOLEAN]]
  /\ canceller \in [Exec -> {"none", "unattached", "attached", "won_unattached",
                             "won_attached", "snapshot"}]

JobInit ==
  /\ LifecycleInit
  /\ records = <<>>
  /\ now = 0
  /\ nextSeq = 1
  /\ start = [e \in Exec |-> "idle"]
  /\ task = [e \in Exec |-> "none"]
  /\ observed = [e \in Exec |-> [status |-> "running", draining |-> FALSE]]
  /\ canceller = [e \in Exec |-> "none"]

-----------------------------------------------------------------------------
(* The records map *)

Keep(R, S) == [j \in S |-> R[j]]

\* cleanup_locked: records that completed at least Ttl ago go.
Cleanup(R) ==
  Keep(R, {j \in DOMAIN R :
             R[j].completedAt = NotCompleted \/ now - R[j].completedAt < Ttl})

\* oldest_completed: the minimum of (completed_at, sequence).
Oldest(R) ==
  CHOOSE j \in Completed(R) : \A k \in Completed(R) :
    \/ R[j].completedAt < R[k].completedAt
    \/ R[j].completedAt = R[k].completedAt /\ R[j].seq <= R[k].seq

\* Mutant of MakeRoom: any record may be evicted.
MakeRoomFromAll(R) ==
  IF Cardinality(DOMAIN R) < MaxRecords THEN R
  ELSE Keep(R, DOMAIN R \ {CHOOSE j \in DOMAIN R : TRUE})

\* The eviction loop of reserve; CapacityBound makes one round enough.
MakeRoom(R) ==
  IF Cardinality(DOMAIN R) < MaxRecords \/ Completed(R) = {} THEN R
  ELSE Keep(R, DOMAIN R \ {Oldest(R)})

Put(R, e, r) ==
  [j \in DOMAIN R \cup {e} |-> IF j = e THEN r ELSE R[j]]

Without(R, e) == Keep(R, DOMAIN R \ {e})

Fresh(seq) == [seq |-> seq, status |-> "running", draining |-> FALSE,
               attached |-> FALSE, completedAt |-> NotCompleted]

-----------------------------------------------------------------------------
(* job_start *)

\* The second capacity check of reserve.
HasRoom(R) == Cardinality(DOMAIN R) < MaxRecords

\* Mutant of Reserve: the record keeps the incremented sequence number.
ReserveTwiceCounted(e) ==
  /\ start[e] = "idle"
  /\ nextSeq' = nextSeq + 1
  /\ LET R == MakeRoom(Cleanup(records)) IN
       /\ HasRoom(R)
       /\ records' = Put(R, e, Fresh(nextSeq + 1))
       /\ start' = [start EXCEPT ![e] = "reserved"]
  /\ UNCHANGED <<lifecycleVars, now, task, observed, canceller>>

\* reserve; the argument checks before it refuse without touching any state.
Reserve(e) ==
  /\ start[e] = "idle"
  /\ nextSeq' = nextSeq + 1
  /\ LET R == MakeRoom(Cleanup(records)) IN
       IF HasRoom(R)
       THEN /\ records' = Put(R, e, Fresh(nextSeq))
            /\ start' = [start EXCEPT ![e] = "reserved"]
       ELSE /\ records' = R
            /\ start' = [start EXCEPT ![e] = "refused"]
  /\ UNCHANGED <<lifecycleVars, now, task, observed, canceller>>

\* executor.try_submit.
Submit(e) ==
  /\ start[e] = "reserved"
  /\ \/ Accept(e) /\ start' = [start EXCEPT ![e] = "accepted"]
     \/ Refuse(e) /\ start' = [start EXCEPT ![e] = "rolling_back"]
  /\ UNCHANGED <<records, now, nextSeq, task, observed, canceller>>

\* Mutant of Rollback: the reservation stays.
RollbackForgotten(e) ==
  /\ start[e] = "rolling_back"
  /\ start' = [start EXCEPT ![e] = "refused"]
  /\ UNCHANGED <<lifecycleVars, records, now, nextSeq, task, observed,
                 canceller>>

\* rollback after a refused submission.
Rollback(e) ==
  /\ start[e] = "rolling_back"
  /\ records' = Without(records, e)
  /\ start' = [start EXCEPT ![e] = "refused"]
  /\ UNCHANGED <<lifecycleVars, now, nextSeq, task, observed, canceller>>

\* attach, first critical section: the record learns its lifecycle.
AttachLifecycle(e) ==
  /\ start[e] = "accepted"
  /\ records' = IF e \in Jobs THEN [records EXCEPT ![e].attached = TRUE]
                ELSE records
  /\ start' = [start EXCEPT ![e] = "attached"]
  /\ UNCHANGED <<lifecycleVars, now, nextSeq, task, observed, canceller>>

\* attach, snapshot(..).expect("reserved job must exist before attachment"),
\* and the spawn of the completion task.
AttachSnapshot(e) ==
  /\ start[e] = "attached"
  /\ records' = Cleanup(records)
  /\ IF e \in DOMAIN records'
     THEN /\ start' = [start EXCEPT ![e] = "started"]
          /\ task' = [task EXCEPT ![e] = "observing"]
     ELSE /\ start' = [start EXCEPT ![e] = "panicked"]
          /\ UNCHANGED task
  /\ UNCHANGED <<lifecycleVars, now, nextSeq, observed, canceller>>

-----------------------------------------------------------------------------
(* The completion task *)

\* ExecutionLifecycle::is_draining, read once the answer has been delivered.
IsDraining(e) == answer[e] # "none" /\ phase[e] # "signalled"

\* Mutant of Observe: an error from the executor ends the task.
ObserveSuccessOnly(e) ==
  /\ task[e] = "observing"
  /\ answer[e] = "success"
  /\ observed' = [observed EXCEPT ![e].status = "succeeded"]
  /\ task' = [task EXCEPT ![e] = "logical"]
  /\ UNCHANGED <<lifecycleVars, records, now, nextSeq, start, canceller>>

\* handle.observe() resolves; status and draining are computed.
Observe(e) ==
  /\ task[e] = "observing"
  /\ answer[e] # "none"
  /\ observed' = [observed EXCEPT ![e] =
       [status |-> StatusOf(answer[e]),
        draining |-> answer[e] \in {"cancelled", "timed_out"} /\ IsDraining(e)]]
  /\ task' = [task EXCEPT ![e] = "logical"]
  /\ UNCHANGED <<lifecycleVars, records, now, nextSeq, start, canceller>>

\* Mutant of CompleteLogical: a record that job_cancel finished is rewritten.
CompleteLogicalAlways(e) ==
  /\ task[e] = "logical"
  /\ task' = [task EXCEPT ![e] = "waiting"]
  /\ records' =
       IF e \in Jobs
       THEN [records EXCEPT ![e].status = observed[e].status,
                            ![e].draining = observed[e].draining]
       ELSE records
  /\ UNCHANGED <<lifecycleVars, now, nextSeq, start, observed, canceller>>

\* complete_logical; the catalog hook and the event dispatch that follow are
\* modelled in McpServer and McpShutdown.
CompleteLogical(e) ==
  /\ task[e] = "logical"
  /\ task' = [task EXCEPT ![e] = "waiting"]
  /\ records' =
       IF e \in Jobs /\ records[e].status = "running"
       THEN [records EXCEPT ![e].status = observed[e].status,
                            ![e].draining = observed[e].draining]
       ELSE records
  /\ UNCHANGED <<lifecycleVars, now, nextSeq, start, observed, canceller>>

\* wait_physical, then complete_physical.
CompletePhysical(e) ==
  /\ task[e] = "waiting"
  /\ phase[e] = "signalled"
  /\ task' = [task EXCEPT ![e] = "done"]
  /\ records' = Cleanup(
       IF e \in Jobs
       THEN [records EXCEPT ![e].draining = FALSE, ![e].completedAt = now]
       ELSE records)
  /\ UNCHANGED <<lifecycleVars, now, nextSeq, start, observed, canceller>>

-----------------------------------------------------------------------------
(* job_cancel and job_status *)

SetCanceller(e, s) == canceller' = [canceller EXCEPT ![e] = s]

\* job_cancel reads the record; an unknown job is answered with NotFound.
CancelRead(e) ==
  /\ e \in Cancellable
  /\ canceller[e] = "none"
  /\ records' = Cleanup(records)
  /\ e \in DOMAIN records'
  /\ SetCanceller(e, CASE records[e].status # "running" -> "snapshot"
                       [] records[e].status = "running" /\ records[e].attached -> "attached"
                       [] OTHER -> "unattached")
  /\ UNCHANGED <<lifecycleVars, now, nextSeq, start, task, observed>>

\* Mutant of CancelExecution: the result of executor.cancel is ignored.
CancelExecutionAlwaysWins(e) ==
  /\ canceller[e] \in {"unattached", "attached"}
  /\ SetCanceller(e, "won_attached")
  /\ UNCHANGED <<lifecycleVars, records, now, nextSeq, start, task, observed>>

\* executor.cancel(execution_id): it wins only if nothing has been decided.
CancelExecution(e) ==
  /\ canceller[e] \in {"unattached", "attached"}
  /\ IF phase[e] = "live" /\ answer[e] = "none"
     THEN /\ answer' = [answer EXCEPT ![e] = "cancelled"]
          /\ SetCanceller(e, IF canceller[e] = "attached" THEN "won_attached"
                             ELSE "won_unattached")
          /\ UNCHANGED <<admitting, phase>>
     ELSE SetCanceller(e, "snapshot") /\ UNCHANGED lifecycleVars
  /\ UNCHANGED <<records, now, nextSeq, start, task, observed>>

\* The winner marks the record at once, unless the task has been faster.
CancelApply(e) ==
  /\ canceller[e] \in {"won_unattached", "won_attached"}
  /\ SetCanceller(e, "snapshot")
  /\ records' =
       IF e \in Jobs /\ records[e].status = "running"
       THEN [records EXCEPT
               ![e].status = "cancelled",
               ![e].draining = canceller[e] = "won_attached" /\ IsDraining(e)]
       ELSE records
  /\ UNCHANGED <<lifecycleVars, now, nextSeq, start, task, observed>>

\* The snapshot job_cancel answers with; the client may cancel again.
CancelAnswer(e) ==
  /\ canceller[e] = "snapshot"
  /\ SetCanceller(e, "none")
  /\ records' = Cleanup(records)
  /\ UNCHANGED <<lifecycleVars, now, nextSeq, start, task, observed>>

\* job_status and job_result: a snapshot, which also expires old records.
Snapshot ==
  /\ records' = Cleanup(records)
  /\ UNCHANGED <<lifecycleVars, now, nextSeq, start, task, observed, canceller>>

Tick ==
  /\ now < MaxNow
  /\ now' = now + 1
  /\ UNCHANGED <<lifecycleVars, records, nextSeq, start, task, observed,
                 canceller>>

\* The executor on its own: deadline, handler exit, drain, close.
ExecutorStep ==
  /\ StopAdmitting \/ \E e \in Exec : Advance(e)
  /\ UNCHANGED jobVars

-----------------------------------------------------------------------------

StartStep(e) ==
  \/ Reserve(e) \/ Submit(e) \/ Rollback(e)
  \/ AttachLifecycle(e) \/ AttachSnapshot(e)
TaskStep(e) == Observe(e) \/ CompleteLogical(e) \/ CompletePhysical(e)
CancelStep(e) ==
  CancelRead(e) \/ CancelExecution(e) \/ CancelApply(e) \/ CancelAnswer(e)

JobNext ==
  \/ \E e \in Exec : StartStep(e) \/ TaskStep(e) \/ CancelStep(e)
  \/ Snapshot
  \/ Tick
  \/ ExecutorStep

JobSpec == JobInit /\ [][JobNext]_vars

\* Tokio runs the completion task, job_start does not block, and the executor
\* finishes every accepted execution (Executor: SlotReclaimed).
JobFairSpec ==
  /\ JobSpec
  /\ \A e \in Exec :
       /\ WF_vars(TaskStep(e))
       /\ WF_vars(AttachLifecycle(e) \/ AttachSnapshot(e))
       /\ WF_vars(Advance(e) /\ UNCHANGED jobVars)

-----------------------------------------------------------------------------
(* Properties *)

\* "Running and draining records are never evicted": while the executor still
\* owns a started job, or its end has not been recorded, the record is there,
\* whatever reservations, snapshots and clock ticks happen; nor is a
\* reservation, so the expect in attach cannot fail.
LiveNeverEvicted ==
  \A e \in Exec :
    /\ start[e] = "started" /\ task[e] # "done" => e \in Jobs
    /\ start[e] # "panicked"

\* Capacity is occupied by real jobs only: at most MaxRecords records, and a
\* refused start leaves no hidden record behind (reserve, rollback).
CapacityKept ==
  /\ Cardinality(Jobs) <= MaxRecords
  /\ \A e \in Exec : start[e] = "refused" => e \notin Jobs

\* A record never contradicts the executor: a terminal one shows the answer
\* that was decided, whether the task or a racing job_cancel wrote it, and one
\* that counts as physically completed is terminal, is not draining, and its
\* slot has really been released.
RecordTruthful ==
  /\ \A j \in Jobs : records[j].status \in Terminal =>
       answer[j] # "none" /\ records[j].status = StatusOf(answer[j])
  /\ \A j \in Completed(records) :
       records[j].status \in Terminal /\ ~records[j].draining /\ phase[j] = "signalled"

\* What job_status, job_list and job_result read can be relied on: no live record is
\* evicted, no capacity is lost to a start that was refused, no record contradicts
\* the executor.
RecordsSound == LiveNeverEvicted /\ CapacityKept /\ RecordTruthful

\* Results are repeatable: a finished job never changes its status again and,
\* whatever job_cancel and the task write last, never starts to drain again.
TerminalIsStable ==
  [][\A j \in Jobs : records[j].status \in Terminal /\ j \in DOMAIN records'
        => /\ records'[j].status = records[j].status
           /\ records'[j].draining => records[j].draining]_vars

\* Every started job reaches a terminal state and stops draining.
JobsFinish ==
  \A e \in Exec : start[e] = "started" ~> task[e] = "done"
=============================================================================
