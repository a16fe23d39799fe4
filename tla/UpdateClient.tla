---------------------------- MODULE UpdateClient ----------------------------
(***************************************************************************)
(* Several `ah` processes of one Windows installation and the update       *)
(* helpers they launch.  Every `ah` first looks for an interrupted update  *)
(* (ah_updater::recovery), an `ah upgrade` then resolves the installation, *)
(* adopting it on first use (::installation), fetches and tests a release  *)
(* (::check, ::candidate, ::smoke; a rollback takes the permanent backup), *)
(* prepares a transaction under the                                        *)
(* lifecycle lease (::activate) and hands the lease to a helper            *)
(* (::handoff), which works after its parent has exited                    *)
(* (ah_update_helper::main).  What the helper does to the files is         *)
(* UpdateTransaction's subject; here it is "mixed" until it is decided.    *)
(***************************************************************************)
EXTENDS Naturals, FiniteSets

CONSTANTS
    Clients,      \* the `ah` processes that may run, positive integers
    Upgraders,    \* those that run `ah upgrade`
    Rollbacks,    \* those that run `ah upgrade --rollback`; the others run a plain command
    Latest,       \* the release a successful discovery selects
    FinalizeCrash,  \* a helper may die between finalization and the restart of the service
    MaxClientCrashes, MaxClientFailures, MaxStarts      \* bounds on the environment

ASSUME ClientAssumption ==
    /\ Clients \subseteq Nat \ {0} /\ Upgraders \subseteq Clients
    /\ Rollbacks \subseteq Clients \ Upgraders
    /\ Latest \in Nat \ {0} /\ FinalizeCrash \in BOOLEAN

VARIABLES
    files,     \* the installed release, or Mixed while it is being replaced
    binding,   \* the client whose identity the executable is bound to, 0 if none
    idents,    \* identity directory of each client: "none", "partial", "whole"
    bindlock,  \* holder of the binding's persist lock, 0 if free
    trans,     \* transaction directory of each client: the journal's state
    wasUp,     \* managed_mcp_was_running of each transaction's plan
    copies,    \* activation-helper-*.exe files, named for their launcher
    handles,   \* open handles of the lifecycle lease
    mcpUp,       \* the managed MCP service is up
    stopper,   \* an update stopped a service that its plan records as running, and
               \* nothing has tried to start it since
    clientPc, ver,   \* where each `ah` is, and the release its executable is from
    helper,    \* the helper of each launcher
    job,       \* the transaction a helper was launched for, 0 if none
    clientCrashes, clientFailures, starts

clientDisk == <<files, binding, idents, bindlock, trans, wasUp, copies>>
service == <<mcpUp, stopper>>
clientBudget == <<clientCrashes, clientFailures, starts>>
clientVars == <<clientDisk, handles, service, clientPc, ver, helper, job, clientBudget>>

Mixed == 0
Ended == {"idle", "done", "failed", "manual"}
Pending == {t \in Clients : trans[t] # "none"}
SafeStates == {"prepared", "committed", "rolled_back"}
LeaseFree == handles = {}
Ah(c) == <<c, "ah">>
HelperHandle(c) == <<c, "helper">>
HelperAlive(c) == helper[c] # "none"

\* The steps of launch_transaction and recover_before_startup under the lease.
Holding == {"rediscover", "recovery_copy", "cleanup", "prepare", "stage", "copy",
            "stop", "launch", "ack"}

\* The helper between the claim of the lease and the end of its work.
Applying == {"parent", "quiesce", "activate", "decide", "recover"}

ClientInit ==
    /\ files = 1 /\ binding = 0 /\ bindlock = 0
    /\ idents = [c \in Clients |-> "none"]
    /\ trans = [c \in Clients |-> "none"] /\ wasUp = [c \in Clients |-> FALSE]
    /\ copies = {} /\ handles = {} /\ mcpUp \in BOOLEAN /\ stopper = FALSE
    /\ clientPc = [c \in Clients |-> "idle"] /\ ver = [c \in Clients |-> 1]
    /\ helper = [c \in Clients |-> "none"] /\ job = [c \in Clients |-> 0]
    /\ clientCrashes = 0 /\ clientFailures = 0 /\ starts = 0

Go(c, where) == clientPc' = [clientPc EXCEPT ![c] = where]

\* An `ah` that ends closes its handle of the lease.
EndsAt(c, where) == Go(c, where) /\ handles' = handles \ {Ah(c)}

\* remove_completed_transaction.
Removed(t) == trans' = [trans EXCEPT ![t] = "none"]

Fails == clientFailures < MaxClientFailures /\ clientFailures' = clientFailures + 1 /\ UNCHANGED <<clientCrashes, starts>>

-----------------------------------------------------------------------------
(* recover_before_startup.                                                 *)

Start(c) ==
    /\ starts < MaxStarts /\ starts' = starts + 1
    /\ clientPc[c] \in Ended /\ ~HelperAlive(c) /\ trans[c] = "none" /\ files # Mixed
    /\ Go(c, "start") /\ ver' = [ver EXCEPT ![c] = files]
    /\ UNCHANGED <<clientDisk, handles, service, helper, job, clientCrashes, clientFailures>>

\* A torn installation can still start `ah`: the executable is one file of it.
StartTorn(c) ==
    /\ starts < MaxStarts /\ starts' = starts + 1
    /\ clientPc[c] \in Ended /\ ~HelperAlive(c) /\ trans[c] = "none" /\ files = Mixed
    /\ Go(c, "start") /\ \E v \in {1, Latest} : ver' = [ver EXCEPT ![c] = v]
    /\ UNCHANGED <<clientDisk, handles, service, helper, job, clientCrashes, clientFailures>>

Continue(c) == IF c \in Upgraders \cup Rollbacks THEN "resolve" ELSE "done"

\* discover_pending: several transactions need a human.
Discover(c) ==
    /\ clientPc[c] = "start"
    /\ Go(c, CASE binding = 0 \/ Pending = {} -> Continue(c)
               [] binding # 0 /\ Cardinality(Pending) = 1 -> "hold_recovery"
               [] OTHER -> "manual")
    /\ UNCHANGED <<clientDisk, handles, service, ver, helper, job, clientBudget>>

\* allow_safe_managed_serve: the server that the scheduler starts goes on beside a
\* transaction in a safe state, without the lease; in the other states it is a
\* Start like any other.
ServeManaged ==
    /\ ~mcpUp /\ starts < MaxStarts /\ starts' = starts + 1
    /\ binding = 0 \/ Pending = {} \/ \E t \in Clients : Pending = {t} /\ trans[t] \in SafeStates
    /\ mcpUp' = TRUE /\ stopper' = FALSE
    /\ UNCHANGED <<clientDisk, handles, clientPc, ver, helper, job, clientCrashes, clientFailures>>

\* stop_locked on behalf of transaction t; whether anybody is to start the service
\* again is what the plan of t says.
Stops(t) == mcpUp' = FALSE /\ stopper' = (stopper \/ (mcpUp /\ wasUp[t]))

HoldRecovery(c) ==
    /\ clientPc[c] = "hold_recovery" /\ LeaseFree
    /\ handles' = {Ah(c)} /\ Go(c, "rediscover")
    /\ UNCHANGED <<clientDisk, service, ver, helper, job, clientBudget>>

\* Under the lease the transaction is looked for again; an interrupted
\* activation must not run beside the service.
Rediscover(c) ==
    /\ clientPc[c] = "rediscover"
    /\ \/ /\ Pending = {} /\ EndsAt(c, Continue(c)) /\ UNCHANGED <<trans, job, service>>
       \/ /\ Cardinality(Pending) > 1 /\ EndsAt(c, "manual") /\ UNCHANGED <<trans, job, service>>
       \/ \E t \in Clients :
            /\ Pending = {t}
            /\ \/ /\ trans[t] = "planned" /\ Removed(t) /\ EndsAt(c, Continue(c))
                  /\ UNCHANGED <<job, service>>
               \/ /\ trans[t] # "planned"
                  /\ IF trans[t] = "started" THEN Stops(t) ELSE UNCHANGED service
                  /\ Go(c, "recovery_copy") /\ job' = [job EXCEPT ![c] = t]
                  /\ UNCHANGED <<trans, handles>>
    /\ UNCHANGED <<files, binding, idents, bindlock, wasUp, copies, ver, helper, clientBudget>>

\* cleanup_activation_helpers: the executable of a running helper cannot be deleted.
CopiesRemovable == \A d \in copies : ~HelperAlive(d)

\* recovery_helper_path.
RecoveryCopy(c) ==
    /\ clientPc[c] = "recovery_copy"
    /\ IF CopiesRemovable
         THEN copies' = {c} /\ Go(c, "launch") /\ UNCHANGED handles
         ELSE EndsAt(c, "failed") /\ UNCHANGED copies
    /\ UNCHANGED <<files, binding, idents, bindlock, trans, wasUp, service, ver, helper, job, clientBudget>>

-----------------------------------------------------------------------------
(* resolve_managed_installation and persist_verified_legacy_installation.  *)

\* Records, files and the running version must agree.
InstallationVerified(c) == files = ver[c]

\* A committed upgrade leaves the release before it as permanent backup, a rollback
\* uses the backup up (BackupRotation).
BackupThere(c) == ver[c] = Latest

\* A rollback adopts nothing: it needs the binding and the backup.
Resolve(c) ==
    /\ clientPc[c] = "resolve"
    /\ Go(c, CASE ~InstallationVerified(c) -> "failed"
               [] InstallationVerified(c) /\ c \in Rollbacks ->
                    IF binding # 0 /\ BackupThere(c) THEN "hold" ELSE "failed"
               [] InstallationVerified(c) /\ c \notin Rollbacks /\ binding # 0 -> "fetch"
               [] OTHER -> "adopt")
    /\ UNCHANGED <<clientDisk, handles, service, ver, helper, job, clientBudget>>

AdoptLock(c) ==
    /\ clientPc[c] = "adopt" /\ bindlock = 0
    /\ bindlock' = c /\ Go(c, "adopt_check")
    /\ UNCHANGED <<files, binding, idents, trans, wasUp, copies, handles, service, ver, helper, job, clientBudget>>

\* Mutant: the binding is published before the directory it names is written.
AdoptCheckBindsFirst(c) ==
    /\ clientPc[c] = "adopt_check"
    /\ IF binding # 0
         THEN Go(c, "resolve") /\ bindlock' = 0 /\ UNCHANGED <<idents, binding>>
         ELSE /\ Go(c, "adopt_write") /\ idents' = [idents EXCEPT ![c] = "partial"]
              /\ binding' = c /\ UNCHANGED bindlock
    /\ UNCHANGED <<files, trans, wasUp, copies, handles, service, ver, helper, job, clientBudget>>

AdoptCheck(c) ==
    /\ clientPc[c] = "adopt_check"
    /\ IF binding # 0
         THEN Go(c, "resolve") /\ bindlock' = 0 /\ UNCHANGED idents
         ELSE Go(c, "adopt_write") /\ idents' = [idents EXCEPT ![c] = "partial"] /\ UNCHANGED bindlock
    /\ UNCHANGED <<files, binding, trans, wasUp, copies, handles, service, ver, helper, job, clientBudget>>

\* write_identity_directory, then the binding; a failure removes the directory.
AdoptWrite(c) ==
    /\ clientPc[c] = "adopt_write" /\ idents' = [idents EXCEPT ![c] = "whole"] /\ Go(c, "adopt_bind")
    /\ UNCHANGED <<files, binding, bindlock, trans, wasUp, copies, handles, service, ver, helper, job, clientBudget>>

AdoptBind(c) ==
    /\ clientPc[c] = "adopt_bind"
    /\ binding' = c /\ bindlock' = 0 /\ Go(c, "resolve")
    /\ UNCHANGED <<files, idents, trans, wasUp, copies, handles, service, ver, helper, job, clientBudget>>

AdoptFails(c) ==
    /\ clientPc[c] \in {"adopt_write", "adopt_bind"} /\ Fails
    /\ idents' = [idents EXCEPT ![c] = "none"] /\ bindlock' = 0 /\ Go(c, "failed")
    /\ UNCHANGED <<files, binding, trans, wasUp, copies, handles, service, ver, helper, job>>

-----------------------------------------------------------------------------
(* execute_windows up to the lease: discovery, candidate and smoke touch   *)
(* nothing but a staging directory that is dropped on failure.             *)

Fetch(c) ==
    /\ clientPc[c] = "fetch"
    /\ Go(c, IF ver[c] < Latest THEN "hold" ELSE "done")
    /\ UNCHANGED <<clientDisk, handles, service, ver, helper, job, clientBudget>>

FetchFails(c) ==
    /\ clientPc[c] = "fetch" /\ Fails /\ Go(c, "failed")
    /\ UNCHANGED <<clientDisk, handles, service, ver, helper, job>>

Hold(c) ==
    /\ clientPc[c] = "hold" /\ LeaseFree
    /\ handles' = {Ah(c)} /\ Go(c, "cleanup")
    /\ UNCHANGED <<clientDisk, service, ver, helper, job, clientBudget>>

HoldTimeout(c) ==
    /\ clientPc[c] \in {"hold", "hold_recovery"} /\ ~LeaseFree /\ Go(c, "failed")
    /\ UNCHANGED <<clientDisk, handles, service, ver, helper, job, clientBudget>>

-----------------------------------------------------------------------------
(* launch_transaction.                                                     *)

\* Stale copies go first, then the service's state is captured for the plan.
Cleanup(c) ==
    /\ clientPc[c] = "cleanup"
    /\ IF CopiesRemovable
         THEN /\ copies' = {} /\ wasUp' = [wasUp EXCEPT ![c] = mcpUp]
              /\ Go(c, "prepare") /\ UNCHANGED handles
         ELSE EndsAt(c, "failed") /\ UNCHANGED <<copies, wasUp>>
    /\ UNCHANGED <<files, binding, idents, bindlock, trans, service, ver, helper, job, clientBudget>>

\* The plan must still describe the installed release.
PrepareTransaction(c) ==
    /\ clientPc[c] = "prepare"
    /\ IF InstallationVerified(c)
         THEN trans' = [trans EXCEPT ![c] = "planned"] /\ Go(c, "stage") /\ UNCHANGED handles
         ELSE EndsAt(c, "failed") /\ UNCHANGED trans
    /\ UNCHANGED <<files, binding, idents, bindlock, wasUp, copies, service, ver, helper, job, clientBudget>>

Stage(c) ==
    /\ clientPc[c] = "stage" /\ trans' = [trans EXCEPT ![c] = "prepared"] /\ Go(c, "copy")
    /\ UNCHANGED <<files, binding, idents, bindlock, wasUp, copies, handles, service, ver, helper, job, clientBudget>>

\* A failed preparation or copy removes the transaction again.
StageFails(c) ==
    /\ clientPc[c] \in {"stage", "copy"} /\ Fails /\ Removed(c) /\ EndsAt(c, "failed")
    /\ UNCHANGED <<files, binding, idents, bindlock, wasUp, copies, service, ver, helper, job>>

CopyHelper(c) ==
    /\ clientPc[c] = "copy" /\ copies' = copies \cup {c}
    /\ job' = [job EXCEPT ![c] = c] /\ Go(c, "stop")
    /\ UNCHANGED <<files, binding, idents, bindlock, trans, wasUp, handles, service, ver, helper, clientBudget>>

\* Mutant: the failure path forgets the service.
UndoForgetsService(c, up) ==
    /\ mcpUp' = up /\ UNCHANGED stopper
    /\ Removed(c) \/ UNCHANGED trans
    /\ copies' = copies \ {c} /\ job' = [job EXCEPT ![c] = 0] /\ EndsAt(c, "failed")

\* What every failure after the copy does, the service being up or not: one that the
\* plan records as running is started, whatever comes of it, then the transaction
\* and the copy are removed, if they can be.
Undo(c, up) ==
    /\ mcpUp' \in {up, up \/ wasUp[c]} /\ stopper' = (stopper /\ ~wasUp[c])
    /\ Removed(c) \/ UNCHANGED trans
    /\ copies' = copies \ {c} /\ job' = [job EXCEPT ![c] = 0] /\ EndsAt(c, "failed")

StopService(c) ==
    /\ clientPc[c] = "stop" /\ mcpUp = wasUp[c] /\ Stops(c) /\ Go(c, "launch")
    /\ UNCHANGED <<clientDisk, handles, ver, helper, job, clientBudget>>

\* The service was not what had been captured: one that came up since is stopped by
\* now and, the plan not knowing it, stays so.
StopMismatch(c) ==
    /\ clientPc[c] = "stop" /\ mcpUp # wasUp[c] /\ Undo(c, FALSE)
    /\ UNCHANGED <<files, binding, idents, bindlock, wasUp, ver, helper, clientBudget>>

\* A failed stop may have stopped it.
StopFails(c) ==
    /\ clientPc[c] = "stop" /\ Fails /\ \E up \in {mcpUp, FALSE} : Undo(c, up)
    /\ UNCHANGED <<files, binding, idents, bindlock, wasUp, ver, helper>>

\* launch_helper: the helper inherits a handle of the lease.
Launch(c) ==
    /\ clientPc[c] = "launch"
    /\ helper' = [helper EXCEPT ![c] = "claim"] /\ handles' = handles \cup {HelperHandle(c)}
    /\ Go(c, "ack")
    /\ UNCHANGED <<clientDisk, service, ver, job, clientBudget>>

\* Only a launch_transaction cleans up; a recovery launch just reports.
LaunchUndone(c) ==
    IF job[c] = c THEN Undo(c, mcpUp)
    ELSE EndsAt(c, "failed") /\ UNCHANGED <<trans, copies, service, job>>

HandoffFails(c) ==
    /\ clientPc[c] = "launch" /\ Fails /\ LaunchUndone(c)
    /\ UNCHANGED <<files, binding, idents, bindlock, wasUp, ver, helper>>

Acknowledged(c) ==
    /\ clientPc[c] = "ack" /\ helper[c] \in Applying /\ EndsAt(c, "done")
    /\ UNCHANGED <<clientDisk, service, ver, helper, job, clientBudget>>

\* failed_acknowledgement with a confirmed termination: cleanup is safe.
Terminated(c) ==
    /\ clientPc[c] = "ack" /\ helper[c] # "none" /\ Fails
    /\ helper[c] = "service" => FinalizeCrash
    /\ helper' = [helper EXCEPT ![c] = "none"]
    /\ Go(c, "undo") /\ handles' = handles \ {HelperHandle(c)}
    /\ UNCHANGED <<clientDisk, service, ver, job>>

\* The helper ended by itself before it acknowledged.
HelperGone(c) ==
    /\ clientPc[c] = "ack" /\ helper[c] = "none" /\ Go(c, "undo")
    /\ UNCHANGED <<clientDisk, handles, service, ver, helper, job, clientBudget>>

SafeCleanup(c) ==
    /\ clientPc[c] = "undo" /\ LaunchUndone(c)
    /\ UNCHANGED <<files, binding, idents, bindlock, wasUp, ver, helper, clientBudget>>

\* Mutant: the unconfirmed termination is cleaned up after as well.
NotTerminatedUndoes(c) ==
    /\ clientPc[c] = "ack" /\ HelperAlive(c) /\ Fails /\ LaunchUndone(c)
    /\ UNCHANGED <<files, binding, idents, bindlock, wasUp, ver, helper>>

\* The termination could not be confirmed: everything is left to the helper.
NotTerminated(c) ==
    /\ clientPc[c] = "ack" /\ HelperAlive(c) /\ Fails /\ EndsAt(c, "failed")
    /\ UNCHANGED <<clientDisk, service, ver, helper, job>>

-----------------------------------------------------------------------------
(* The helper: main, execute_activation, execute_recovery.                 *)

HelperGo(c, where) == helper' = [helper EXCEPT ![c] = where]
HelperLeaves(c) == HelperGo(c, "none") /\ handles' = handles \ {HelperHandle(c)}

Claim(c) ==
    /\ helper[c] = "claim" /\ HelperGo(c, "parent")
    /\ UNCHANGED <<clientDisk, handles, service, clientPc, ver, job, clientBudget>>

ClaimFails(c) ==
    /\ helper[c] = "claim" /\ Fails /\ HelperLeaves(c)
    /\ UNCHANGED <<clientDisk, service, clientPc, ver, job>>

\* wait_for_process_exit, then the transaction is loaded.
ParentGone(c) ==
    /\ helper[c] = "parent" /\ clientPc[c] \in Ended
    /\ HelperGo(c, IF trans[job[c]] \in {"none", "planned"} THEN "restore" ELSE "quiesce")
    /\ UNCHANGED <<clientDisk, handles, service, clientPc, ver, job, clientBudget>>

\* A timeout of the wait, and any later error before the first change, lead to
\* restore_managed_mcp_and_finalize with the journal as it is.
HelperGivesUp(c) ==
    /\ helper[c] \in {"parent", "quiesce", "activate", "recover"} /\ Fails
    /\ HelperGo(c, "restore") /\ handles' = handles \ {HelperHandle(c)}
    /\ UNCHANGED <<clientDisk, service, clientPc, ver, job>>

\* quiesce_transaction_blockers ends every process of this installation, a server
\* that has come up again among them.
QuiesceBlockers(c) ==
    /\ helper[c] = "quiesce"
    /\ clientPc' = [d \in Clients |-> IF clientPc[d] \in Ended THEN clientPc[d] ELSE "failed"]
    /\ handles' = {HelperHandle(c)} /\ bindlock' = 0 /\ Stops(job[c])
    /\ HelperGo(c, IF job[c] = c /\ trans[c] = "prepared" THEN "activate" ELSE "recover")
    /\ UNCHANGED <<files, binding, idents, trans, wasUp, copies, ver, job, clientBudget>>

\* Mutant: the lease is released before the decision.
ActivateDropsLease(c) ==
    /\ helper[c] = "activate"
    /\ trans' = [trans EXCEPT ![job[c]] = "started"] /\ files' = Mixed /\ HelperGo(c, "decide")
    /\ handles' = handles \ {HelperHandle(c)}
    /\ UNCHANGED <<binding, idents, bindlock, wasUp, copies, service, clientPc, ver, job, clientBudget>>

Activate(c) ==
    /\ helper[c] = "activate"
    /\ trans' = [trans EXCEPT ![job[c]] = "started"] /\ files' = Mixed /\ HelperGo(c, "decide")
    /\ UNCHANGED <<binding, idents, bindlock, wasUp, copies, handles, service, clientPc, ver, job, clientBudget>>

\* The release that a transaction installs.
TargetOf(t) == IF t \in Rollbacks THEN 1 ELSE Latest

\* Commit, or rollback_after_failure.
Decide(c) ==
    /\ helper[c] = "decide" /\ HelperGo(c, "restore") /\ handles' = handles \ {HelperHandle(c)}
    /\ \/ files' = TargetOf(job[c]) /\ trans' = [trans EXCEPT ![job[c]] = "committed"]
       \/ files' = ver[job[c]] /\ trans' = [trans EXCEPT ![job[c]] = "rolled_back"]
    /\ UNCHANGED <<binding, idents, bindlock, wasUp, copies, service, clientPc, ver, job, clientBudget>>

\* recover_transaction: an unfinished activation goes back to the old release.
Recover(c) ==
    /\ helper[c] = "recover" /\ HelperGo(c, "restore") /\ handles' = handles \ {HelperHandle(c)}
    /\ IF trans[job[c]] = "started"
         THEN files' = ver[job[c]] /\ trans' = [trans EXCEPT ![job[c]] = "rolled_back"]
         ELSE UNCHANGED <<files, trans>>
    /\ UNCHANGED <<binding, idents, bindlock, wasUp, copies, service, clientPc, ver, job, clientBudget>>

\* restore_managed_mcp_and_finalize: a committed upgrade restores the service
\* before the transaction goes, the others after it; an unfinished one is left.
FinalizeBeforeStart(t) == trans[t] # "committed" \/ t \in Rollbacks

\* `ah mcp service install` and `status` of the active release take the lease
\* themselves and give up in the end; a failure leaves a committed upgrade as it is,
\* for the next `ah` to recover.
RestoreAndFinalize(c) ==
    LET t == job[c] IN
    /\ helper[c] = "restore"
    /\ \/ /\ trans[t] \notin SafeStates /\ HelperLeaves(c) /\ UNCHANGED <<trans, service>>
       \/ /\ trans[t] \in SafeStates /\ FinalizeBeforeStart(t)
          /\ Removed(t) /\ HelperGo(c, "service") /\ UNCHANGED <<handles, service>>
       \/ /\ trans[t] \in SafeStates /\ ~FinalizeBeforeStart(t) /\ (wasUp[t] => LeaseFree)
          /\ mcpUp' = (mcpUp \/ wasUp[t]) /\ stopper' = (stopper /\ ~wasUp[t])
          /\ HelperGo(c, "finalize") /\ UNCHANGED <<trans, handles>>
       \/ /\ trans[t] \in SafeStates /\ ~FinalizeBeforeStart(t) /\ wasUp[t]
          /\ HelperLeaves(c) /\ UNCHANGED <<trans, service>>
    /\ UNCHANGED <<files, binding, idents, bindlock, wasUp, copies, clientPc, ver, job, clientBudget>>

\* The same commands after the transaction is gone: what fails now is not tried again.
RestoreService(c) ==
    /\ helper[c] = "service" /\ HelperLeaves(c)
    /\ mcpUp' \in {mcpUp, mcpUp \/ (wasUp[job[c]] /\ LeaseFree)} /\ stopper' = (stopper /\ ~wasUp[job[c]])
    /\ UNCHANGED <<clientDisk, clientPc, ver, job, clientBudget>>

FinalizeCommitted(c) ==
    /\ helper[c] = "finalize" /\ Removed(job[c]) /\ HelperLeaves(c)
    /\ UNCHANGED <<files, binding, idents, bindlock, wasUp, copies, service, clientPc, ver, job, clientBudget>>

-----------------------------------------------------------------------------
(* A process dies; the persist lock it held goes stale and is broken.      *)

ClientCrash(c) ==
    /\ clientPc[c] \notin Ended /\ clientCrashes < MaxClientCrashes /\ clientCrashes' = clientCrashes + 1
    /\ EndsAt(c, "failed") /\ bindlock' = IF bindlock = c THEN 0 ELSE bindlock
    /\ UNCHANGED <<files, binding, idents, trans, wasUp, copies, service, ver, helper, job, clientFailures, starts>>

HelperCrash(c) ==
    /\ HelperAlive(c) /\ clientCrashes < MaxClientCrashes /\ clientCrashes' = clientCrashes + 1
    /\ helper[c] = "service" => FinalizeCrash
    /\ HelperLeaves(c)
    /\ UNCHANGED <<clientDisk, service, clientPc, ver, job, clientFailures, starts>>

ServiceDies ==
    /\ mcpUp /\ Fails /\ mcpUp' = FALSE
    /\ UNCHANGED <<clientDisk, handles, stopper, clientPc, ver, helper, job>>

AhStep(c) ==
    \/ Start(c) \/ StartTorn(c) \/ Discover(c) \/ HoldRecovery(c) \/ Rediscover(c) \/ RecoveryCopy(c)
    \/ Resolve(c) \/ AdoptLock(c) \/ AdoptCheck(c) \/ AdoptWrite(c) \/ AdoptBind(c)
    \/ AdoptFails(c) \/ Fetch(c) \/ FetchFails(c) \/ Hold(c) \/ HoldTimeout(c)
    \/ Cleanup(c) \/ PrepareTransaction(c) \/ Stage(c) \/ StageFails(c) \/ CopyHelper(c)
    \/ StopService(c) \/ StopMismatch(c) \/ StopFails(c)
    \/ Launch(c) \/ HandoffFails(c) \/ Acknowledged(c) \/ Terminated(c)
    \/ HelperGone(c) \/ SafeCleanup(c) \/ NotTerminated(c) \/ ClientCrash(c)

HelperStep(c) ==
    \/ Claim(c) \/ ClaimFails(c) \/ ParentGone(c) \/ HelperGivesUp(c)
    \/ QuiesceBlockers(c) \/ Activate(c) \/ Decide(c) \/ Recover(c)
    \/ RestoreAndFinalize(c) \/ RestoreService(c) \/ FinalizeCommitted(c) \/ HelperCrash(c)

ClientNext == (\E c \in Clients : AhStep(c) \/ HelperStep(c)) \/ ServiceDies \/ ServeManaged

ClientSpec == ClientInit /\ [][ClientNext]_clientVars

-----------------------------------------------------------------------------
(* Properties.                                                             *)

\* The critical section runs from the lease's acquisition in `ah` to the end of
\* the helper's work: never two of them, and never without the lease.
InSection(c) == clientPc[c] \in Holding \/ helper[c] \in Applying
HandedOverWithoutGap ==
    /\ \A c \in Clients : InSection(c) => handles \cap {Ah(c), HelperHandle(c)} # {}
    /\ \A c, d \in Clients : InSection(c) /\ InSection(d) => c = d

\* A transaction directory disappears only by the hand of the process that is
\* working on it: never under a live helper.
HelperKeepsTransaction ==
    [][\A c \in Clients :
         LET t == job[c] IN
         (helper[c] \in Applying /\ helper'[c] # "none" /\ t # 0 /\ trans[t] # "none")
           => trans'[t] # "none"]_clientVars

\* A service that an update stopped, knowing that it ran, is not forgotten before somebody
\* has tried to start it again: a process is on its way to do so, or a durable
\* transaction says that it was running.  (An attempt may fail, and only a committed
\* upgrade is kept for another one; a service that came up after the plan was made is
\* stopped without anybody knowing.)
Responsible(c) ==
    \/ clientPc[c] \in {"stop", "launch", "ack", "undo"} /\ wasUp[c]
    \/ HelperAlive(c) /\ wasUp[job[c]]
StopRemembered ==
    stopper => \/ \E c \in Clients : Responsible(c)
               \/ \E t \in Clients : trans[t] # "none" /\ wasUp[t]

\* The executable is bound to one identity for good, and its directory is whole.
BindingSound == binding # 0 => idents[binding] = "whole"

\* The identity, the transaction and the service that the update stopped are never
\* without somebody who answers for them, across the handoff to the helper and every
\* failure; the service until somebody has tried to start it again.
HandoverSound == HandedOverWithoutGap /\ StopRemembered /\ BindingSound

\* An `ah` that starts after an interrupted update never needs a human.
StartupRecovers == \A c \in Clients : clientPc[c] # "manual"
=============================================================================
