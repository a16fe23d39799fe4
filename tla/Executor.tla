------------------------------ MODULE Executor ------------------------------
(***************************************************************************)
(* The parallel executor of crates/ah-runtime/src/executor.rs together     *)
(* with the per-request cancellation registry its handlers poll            *)
(* (crates/ah-plugin-api/src/cancellation.rs).                             *)
(*                                                                         *)
(* Every call of submit is an element e of Exec, which also names the      *)
(* ExecutionState object that call allocates.  IdOf[e] is the request id   *)
(* the caller passed; two calls may carry the same id.                     *)
(***************************************************************************)
EXTENDS Naturals, FiniteSets

CONSTANTS
  Exec,          \* submit calls (bound: finitely many calls are explored)
  Ids,           \* request ids
  IdOf,          \* the request id each call carries
  NoExec,        \* "no entry" in the tracked map
  MaxActive,     \* --max-active: permits of the semaphore
  SpareThreads   \* blocking threads beyond MaxActive (16 in the code)

ASSUME ExecutorAssumption ==
  /\ IsFiniteSet(Exec)
  /\ IdOf \in [Exec -> Ids]
  /\ NoExec \notin Exec
  /\ MaxActive \in Nat \ {0}
  /\ SpareThreads \in Nat

VARIABLES
  closed,         \* ParallelExecutor.closed
  closePc,        \* progress of the one effective close() call
  closeSet,       \* executions cancel_all still has to stop
  permits,        \* permits available in the semaphore
  tracked,        \* ExecutionCoordinator.tracked: id -> execution
  pc,             \* submit and run_execution of each call
  sender,         \* LogicalCompletion.sender: held, taken, or sent
  outcome,        \* the result that travels with the sender
  handler,        \* the spawn_blocking task running the command
  targets,        \* executions whose state a cancel() caller has cloned
  pendingCancel,  \* cancel_typed tasks spawned and not yet run
  cancelledIds    \* the process-wide set of cancelled request ids

submission == <<closed, closePc, closeSet, permits, tracked>>
vars == <<closed, closePc, closeSet, permits, tracked, pc, sender, outcome,
          handler, targets, pendingCancel, cancelledIds>>

StopOutcomes == {"cancelled", "timed_out"}
Outcomes == {"none", "success", "failure"} \cup StopOutcomes

\* Program points of a call, in the order submit and run_execution pass them.
BeforePermit == {"idle", "checked"}
Selecting    == {"running", "expiring", "finishing", "draining"}
Registered   == Selecting \cup {"detaching"}
HoldsPermit  == Registered \cup {"permitted", "releasing"}
AfterAnswer  == {"draining", "detaching", "releasing", "signalling", "done"}
CallPoints   == BeforePermit \cup HoldsPermit \cup
                  {"signalling", "done", "rejected"}

Holders == {e \in Exec : pc[e] \in HoldsPermit}

\* Threads of Tokio's blocking pool that a command handler occupies.
Busy == {e \in Exec : handler[e] \in {"started", "scoped"}}
PoolSize == MaxActive + SpareThreads

\* Every variable keeps its type; the semaphore never holds more than MaxActive
\* permits (release of a permit that was not taken).
TypeOK ==
  /\ closed \in BOOLEAN
  /\ closePc \in {"open", "snapshot", "stopping"}
  /\ closeSet \subseteq Exec
  /\ permits \in 0..MaxActive
  /\ tracked \in [Ids -> Exec \cup {NoExec}]
  /\ pc \in [Exec -> CallPoints]
  /\ sender \in [Exec -> {"held", "taken", "sent"}]
  /\ outcome \in [Exec -> Outcomes]
  /\ handler \in [Exec -> {"none", "queued", "started", "scoped", "exited"}]
  /\ targets \subseteq Exec
  /\ pendingCancel \subseteq Exec
  /\ cancelledIds \subseteq Ids

Init ==
  /\ closed = FALSE
  /\ closePc = "open"
  /\ closeSet = {}
  /\ permits = MaxActive
  /\ tracked = [i \in Ids |-> NoExec]
  /\ pc = [e \in Exec |-> "idle"]
  /\ sender = [e \in Exec |-> "held"]
  /\ outcome = [e \in Exec |-> "none"]
  /\ handler = [e \in Exec |-> "none"]
  /\ targets = {}
  /\ pendingCancel = {}
  /\ cancelledIds = {}

Goto(e, point) == pc' = [pc EXCEPT ![e] = point]

-----------------------------------------------------------------------------
(* submit *)

\* validate_request, the first look at closed, and the deadline overflow check.
SubmitCheck(e) ==
  /\ pc[e] = "idle"
  /\ \/ ~closed /\ Goto(e, "checked")
     \/ Goto(e, "rejected")      \* shutting down, or an invalid request
  /\ UNCHANGED <<submission, sender, outcome, handler, targets,
                 pendingCancel, cancelledIds>>

\* try_acquire_owned: a full semaphore rejects at once, it never queues.
AcquirePermit(e) ==
  /\ pc[e] = "checked"
  /\ IF permits = 0
     THEN Goto(e, "rejected") /\ UNCHANGED permits
     ELSE Goto(e, "permitted") /\ permits' = permits - 1
  /\ UNCHANGED <<closed, closePc, closeSet, tracked, sender, outcome, handler,
                 targets, pendingCancel, cancelledIds>>

\* Mutants of AdmissionRefused: each forgets one of the two re-checks.
RefusedByDuplicateOnly(e) == tracked[IdOf[e]] # NoExec
RefusedByCloseOnly(e) == closed

\* The two re-checks submit makes under the coordinator lock.
AdmissionRefused(e) == closed \/ tracked[IdOf[e]] # NoExec

\* Mutants of ReturnPermit: the permit is leaked, or returned twice.
LeakPermit == UNCHANGED permits
ReturnPermitTwice == permits' = permits + 2

\* drop(permit).
ReturnPermit == permits' = permits + 1

\* The critical section under the coordinator lock, and the spawn after it.
Register(e) ==
  /\ pc[e] = "permitted"
  /\ IF AdmissionRefused(e)
     THEN /\ ReturnPermit
          /\ Goto(e, "rejected")
          /\ UNCHANGED <<tracked, handler>>
     ELSE /\ tracked' = [tracked EXCEPT ![IdOf[e]] = e]
          /\ Goto(e, "running")
          /\ handler' = [handler EXCEPT ![e] = "queued"]
          /\ UNCHANGED permits
  /\ UNCHANGED <<closed, closePc, closeSet, sender, outcome, targets,
                 pendingCancel, cancelledIds>>

-----------------------------------------------------------------------------
(* ExecutionState::complete: taking the sender decides the answer; the      *)
(* flag and the channel follow outside the mutex.                           *)

Take(e, result) ==
  /\ sender' = [sender EXCEPT ![e] = "taken"]
  /\ outcome' = [outcome EXCEPT ![e] = result]

\* Mutant of StopCancelled: the answer is replaced although it was decided.
StopAlways(e) == Take(e, "cancelled")

\* state.stop(Cancelled, ..): only the first completion gets the sender.
StopCancelled(e) ==
  IF sender[e] = "held" THEN Take(e, "cancelled")
                        ELSE UNCHANGED <<sender, outcome>>

-----------------------------------------------------------------------------
(* cancel and close *)

\* Mutant of CancelLookup: the plugin is told before the state is stopped.
CancelBeforeStop(i) ==
  /\ tracked[i] # NoExec
  /\ targets' = targets \cup {tracked[i]}
  /\ pendingCancel' = pendingCancel \cup {tracked[i]}
  /\ UNCHANGED <<submission, pc, sender, outcome, handler, cancelledIds>>

\* cancel(): clone the tracked entry under the lock.
CancelLookup(i) ==
  /\ tracked[i] # NoExec
  /\ targets' = targets \cup {tracked[i]}
  /\ UNCHANGED <<submission, pc, sender, outcome, handler, pendingCancel,
                 cancelledIds>>

\* cancel(): stop the cloned state, which may have completed meanwhile.
CancelStop(e) ==
  /\ e \in targets
  /\ targets' = targets \ {e}
  /\ StopCancelled(e)
  /\ UNCHANGED <<submission, pc, handler, pendingCancel, cancelledIds>>

\* The rest of a successful stop: logical_done, the answer, the wake-up, and
\* dispatch_cancellation.
PublishCancelled(e) ==
  /\ sender[e] = "taken"
  /\ outcome[e] = "cancelled"
  /\ sender' = [sender EXCEPT ![e] = "sent"]
  /\ pendingCancel' = pendingCancel \cup {e}
  /\ UNCHANGED <<submission, pc, outcome, handler, targets, cancelledIds>>

\* close(): the swap that closes admission.
CloseSwap ==
  /\ ~closed
  /\ closed' = TRUE
  /\ closePc' = "snapshot"
  /\ UNCHANGED <<closeSet, permits, tracked, pc, sender, outcome, handler,
                 targets, pendingCancel, cancelledIds>>

\* cancel_all(): copy the tracked executions under the lock.
CloseSnapshot ==
  /\ closePc = "snapshot"
  /\ closePc' = "stopping"
  /\ closeSet' = {tracked[i] : i \in Ids} \ {NoExec}
  /\ UNCHANGED <<closed, permits, tracked, pc, sender, outcome, handler,
                 targets, pendingCancel, cancelledIds>>

\* cancel_all(): stop the copied executions one by one.
CloseStop(e) ==
  /\ e \in closeSet
  /\ closeSet' = closeSet \ {e}
  /\ StopCancelled(e)
  /\ UNCHANGED <<closed, closePc, permits, tracked, pc, handler, targets,
                 pendingCancel, cancelledIds>>

-----------------------------------------------------------------------------
(* run_execution: the biased select, the drain and the release *)

\* wait_for_stop wins.
StopSeen(e) ==
  /\ pc[e] = "running"
  /\ outcome[e] \in StopOutcomes
  /\ Goto(e, "draining")
  /\ UNCHANGED <<submission, sender, outcome, handler, targets,
                 pendingCancel, cancelledIds>>

\* The deadline wins; a cancellation may have taken the sender since the
\* first branch was polled.
DeadlineFires(e) ==
  /\ pc[e] = "running"
  /\ IF sender[e] = "held"
     THEN Take(e, "timed_out") /\ Goto(e, "expiring")
     ELSE Goto(e, "draining") /\ UNCHANGED <<sender, outcome>>
  /\ UNCHANGED <<submission, handler, targets, pendingCancel, cancelledIds>>

\* The handler is joined; a stop may still have taken the sender first.
HandlerJoined(e) ==
  /\ pc[e] = "running"
  /\ handler[e] = "exited"
  /\ IF sender[e] = "held"
     THEN /\ \E result \in {"success", "failure"} : Take(e, result)
          /\ Goto(e, "finishing")
     ELSE Goto(e, "detaching") /\ UNCHANGED <<sender, outcome>>
  /\ UNCHANGED <<submission, handler, targets, pendingCancel, cancelledIds>>

\* The task publishes the answer it decided itself; a timeout also spawns
\* cancel_typed.
PublishOwn(e) ==
  /\ pc[e] \in {"expiring", "finishing"}
  /\ sender[e] = "taken"
  /\ sender' = [sender EXCEPT ![e] = "sent"]
  /\ IF pc[e] = "expiring"
     THEN Goto(e, "draining") /\ pendingCancel' = pendingCancel \cup {e}
     ELSE Goto(e, "detaching") /\ UNCHANGED pendingCancel
  /\ UNCHANGED <<submission, outcome, handler, targets, cancelledIds>>

\* drain_or_abandon: the handler exits, or the grace period ends first and
\* its JoinHandle is dropped while the thread goes on.
Drained(e) ==
  /\ pc[e] = "draining"
  /\ handler[e] = "exited"
  /\ Goto(e, "detaching")
  /\ UNCHANGED <<submission, sender, outcome, handler, targets,
                 pendingCancel, cancelledIds>>

\* Mutant of Abandon: the drain has no grace period.
NeverAbandon(e) == pc[e] = "draining" /\ FALSE /\ UNCHANGED vars

Abandon(e) ==
  /\ pc[e] = "draining"
  /\ handler[e] # "exited"
  /\ Goto(e, "detaching")
  /\ UNCHANGED <<submission, sender, outcome, handler, targets,
                 pendingCancel, cancelledIds>>

\* remove_tracked: only if the entry is still this execution's own.
RemoveTracked(e) ==
  /\ pc[e] = "detaching"
  /\ tracked' = IF tracked[IdOf[e]] = e
                THEN [tracked EXCEPT ![IdOf[e]] = NoExec] ELSE tracked
  /\ Goto(e, "releasing")
  /\ UNCHANGED <<closed, closePc, closeSet, permits, sender, outcome, handler,
                 targets, pendingCancel, cancelledIds>>

\* drop(permit), before the signal.
ReleasePermit(e) ==
  /\ pc[e] = "releasing"
  /\ ReturnPermit
  /\ Goto(e, "signalling")
  /\ UNCHANGED <<closed, closePc, closeSet, tracked, sender, outcome, handler,
                 targets, pendingCancel, cancelledIds>>

\* mark_physical_complete.
SignalPhysical(e) ==
  /\ pc[e] = "signalling"
  /\ Goto(e, "done")
  /\ UNCHANGED <<submission, sender, outcome, handler, targets,
                 pendingCancel, cancelledIds>>

-----------------------------------------------------------------------------
(* The blocking pool: command handlers and cancel_typed tasks *)

SetHandler(e, state) == handler' = [handler EXCEPT ![e] = state]

\* A pool thread picks the handler up, if one is free.
HandlerStart(e) ==
  /\ handler[e] = "queued"
  /\ Cardinality(Busy) < PoolSize
  /\ SetHandler(e, "started")
  /\ UNCHANGED <<submission, pc, sender, outcome, targets, pendingCancel,
                 cancelledIds>>

\* invoke_typed refuses before the command's own handler runs.
HandlerRefuse(e) ==
  /\ handler[e] = "started"
  /\ SetHandler(e, "exited")
  /\ UNCHANGED <<submission, pc, sender, outcome, targets, pendingCancel,
                 cancelledIds>>

\* RequestScope::enter.
ScopeEnter(e) ==
  /\ handler[e] = "started"
  /\ SetHandler(e, "scoped")
  /\ UNCHANGED <<submission, pc, sender, outcome, targets, pendingCancel,
                 cancelledIds>>

\* The handler returns or panics; RequestScope::drop forgets the id.
ScopeDrop(e) ==
  /\ handler[e] = "scoped"
  /\ SetHandler(e, "exited")
  /\ cancelledIds' = cancelledIds \ {IdOf[e]}
  /\ UNCHANGED <<submission, pc, sender, outcome, targets, pendingCancel>>

\* A spawned cancel_typed runs: the plugin records the id, or it does not
\* support cancellation and nothing happens.
CancelTyped(e) ==
  /\ e \in pendingCancel
  /\ Cardinality(Busy) < PoolSize
  /\ pendingCancel' = pendingCancel \ {e}
  /\ \/ cancelledIds' = cancelledIds \cup {IdOf[e]}
     \/ UNCHANGED cancelledIds
  /\ UNCHANGED <<submission, pc, sender, outcome, handler, targets>>

-----------------------------------------------------------------------------

Submission(e) == SubmitCheck(e) \/ AcquirePermit(e) \/ Register(e)

\* Steps of the Tokio task run_execution, and of the caller inside complete.
Task(e) ==
  \/ StopSeen(e) \/ DeadlineFires(e) \/ HandlerJoined(e) \/ PublishOwn(e)
  \/ PublishCancelled(e) \/ Drained(e) \/ Abandon(e)
  \/ RemoveTracked(e) \/ ReleasePermit(e) \/ SignalPhysical(e)

Pool(e) ==
  \/ HandlerStart(e) \/ HandlerRefuse(e) \/ ScopeEnter(e) \/ ScopeDrop(e)
  \/ CancelTyped(e)

Next ==
  \/ \E e \in Exec : Submission(e) \/ Task(e) \/ Pool(e)
  \/ \E e \in Exec : CancelStop(e) \/ CloseStop(e)
  \/ \E i \in Ids : CancelLookup(i)
  \/ CloseSwap
  \/ CloseSnapshot

Spec == Init /\ [][Next]_vars

(***************************************************************************)
(* Tokio runs every ready task, timers fire, and a thread inside submit    *)
(* (which never waits), complete or close keeps running.  Nothing is assumed of a command handler: it    *)
(* may hang for ever.                                                      *)
(***************************************************************************)
Fairness ==
  /\ \A e \in Exec : WF_vars(Task(e)) /\ WF_vars(CloseStop(e))
                     /\ WF_vars(PublishCancelled(e)) /\ WF_vars(Register(e))
  /\ WF_vars(CloseSnapshot)

FairSpec == Spec /\ Fairness

-----------------------------------------------------------------------------
(* Properties *)

\* active_count is exact: the permits missing from the semaphore are the ones
\* that calls between try_acquire and drop(permit) hold, rejections included.
SlotAccounting == permits + Cardinality(Holders) = MaxActive

\* A request id names at most one execution that has not been untracked, so
\* cancel(id) cannot be ambiguous and remove_tracked never removes another's
\* entry.
OneLivePerId ==
  \A e, f \in Exec :
    pc[e] \in Registered /\ pc[f] \in Registered /\ IdOf[e] = IdOf[f] => e = f

\* Whatever the order of stop, deadline and handler exit, the slot is given
\* back only once the caller's answer has been decided.
AnsweredBeforeReleased ==
  \A e \in Exec : pc[e] \in AfterAnswer => sender[e] # "held"

\* Once close has gone through its snapshot, no tracked execution is left that
\* nobody stopped: a submit racing with close either is in the snapshot or
\* sees closed under the lock.
CloseStopsEverything ==
  closePc = "stopping" =>
    \A i \in Ids : tracked[i] # NoExec =>
      sender[tracked[i]] # "held" \/ tracked[i] \in closeSet

\* A handler that polls is_cancelled is told to stop only if its own execution
\* was cancelled or timed out (needs request ids that are never reused).
NoStrayCancellation ==
  \A e \in Exec :
    handler[e] = "scoped" /\ IdOf[e] \in cancelledIds
      => outcome[e] \in StopOutcomes

\* The first completion wins: a decided answer is never replaced by a later
\* stop, deadline or handler result.
AnswerIsFinal ==
  [][\A e \in Exec : outcome[e] # "none" => outcome'[e] = outcome[e]]_vars

\* Every accepted call is answered and its slot reclaimed, even when the
\* handler never returns.
SlotReclaimed ==
  \A e \in Exec : pc[e] = "running" ~> (pc[e] = "done" /\ sender[e] = "sent")

\* The lifecycle the executor's clients see.  A call is released once its
\* request id and its run of the slot are over, and signalled when
\* wait_physical may return.
PhaseOf(e) ==
  CASE pc[e] \in {"idle", "checked", "permitted"} -> "new"
    [] pc[e] = "rejected" -> "refused"
    [] pc[e] \in Registered -> "live"
    [] pc[e] \in {"releasing", "signalling"} -> "released"
    [] pc[e] = "done" -> "signalled"

Lifecycle == INSTANCE ExecutionLifecycle WITH
  admitting <- ~closed,
  phase <- [e \in Exec |-> PhaseOf(e)],
  answer <- outcome

\* The executor implements the lifecycle: every step of submit, cancel, close,
\* run_execution and the pool is a step of it or leaves it unchanged.
ImplementsLifecycle == Lifecycle!LifecycleSpec
=============================================================================
