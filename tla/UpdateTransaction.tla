-------------------------- MODULE UpdateTransaction --------------------------
(***************************************************************************)
(* One self-update of a managed installation: `ah` prepares a durable      *)
(* transaction (ah_updater::activate::launch_transaction), hands it to the *)
(* update helper, the helper activates, smoke-tests and commits it or      *)
(* rolls it back (ah_update_helper::activation_command and ::apply), and   *)
(* whatever is interrupted is picked up by the next `ah`                   *)
(* (ah_updater::recovery).                                                 *)
(*                                                                         *)
(* Every durable change goes through the same two steps: a temporary file  *)
(* with a fixed name is written next to its destination, then renamed over *)
(* it.  The process may die, or an operation may fail, before, between or  *)
(* inside those two steps.                                                 *)
(***************************************************************************)
EXTENDS Naturals, Sequences, FiniteSets

CONSTANTS
    Plan,           \* plan.operations: a sequence of "add", "replace", "remove"
    Operation,      \* plan.operation: "upgrade" (or a version) or "rollback"
    McpWasRunning,  \* plan.managed_mcp_was_running
    Interruptions,  \* where a crash or an I/O error may strike, see Points
    MaxAttempts, MaxCrashes, MaxFailures, MaxForeign   \* bounds on the environment

Paths == 1 .. Len(Plan)
Records == {1, 2}                        \* manifest, signature
Points == {"checkpoint", "before_replace", "mid_write", "metadata", "removal"}

ASSUME PlanAssumption == Plan \in Seq({"add", "replace", "remove"})
ASSUME OperationAssumption == Operation \in {"upgrade", "rollback"}
ASSUME McpAssumption == McpWasRunning \in BOOLEAN
ASSUME InterruptionsAssumption == Interruptions \subseteq Points
ASSUME BoundsAssumption == {MaxAttempts, MaxCrashes, MaxFailures, MaxForeign} \subseteq Nat

\* What the two signed manifests say about the path of operation i.
OldContent(i) == IF Plan[i] = "add" THEN "absent" ELSE "old"
NewContent(i) == IF Plan[i] = "remove" THEN "absent" ELSE "new"

VARIABLES
    dir,       \* the transaction directory: "none", "layout", "complete" or "torn"
    journal,   \* TransactionStateV1 on disk, "none" before the first write
    seq,       \* transition_sequence on disk
    stage,     \* the candidate files are all in the transaction directory
    backup,    \* the old files are all in the transaction directory
    file,      \* the managed file of each operation
    record,    \* the installed manifest and signature
    temp,      \* the temporary file of every slot
    pc, at,    \* where the running process is; "idle" when none runs
    ready,     \* the temporary of the current step is complete
    next,      \* what follows the removal of the transaction: "restore" or "exit"
    mcp,       \* the managed MCP service is up
    permanent, \* the permanent backup: "kept", "promoted" or "consumed"
    attempts, crashes, failures, foreign   \* how much of each bound is used

disk == <<dir, journal, seq, stage, backup, file, record, temp>>
process == <<pc, at, ready, next>>
outside == <<mcp, permanent>>
budget == <<attempts, crashes, failures, foreign>>
vars == <<disk, process, outside, budget>>

-----------------------------------------------------------------------------
(* The journal.                                                            *)

JournalStates == {"planned", "prepared", "started", "activated", "verified",
                  "commit_started", "committed", "rollback_started", "rolled_back"}

StateRequiresRollback(s) == s \in {"started", "activated", "verified", "commit_started"}

\* The state each journal step asks for.
Target == [to_prepared |-> "prepared", to_started |-> "started",
           to_activated |-> "activated", to_verified |-> "verified",
           to_commit |-> "commit_started", to_committed |-> "committed",
           to_rollback |-> "rollback_started", to_rolled_back |-> "rolled_back"]

JournalSteps == DOMAIN Target

AllowedTransition(s, t) ==
    \/ s = "planned" /\ t = "prepared"
    \/ s = "prepared" /\ t = "started"
    \/ s = "started" /\ t \in {"activated", "rollback_started"}
    \/ s = "activated" /\ t \in {"verified", "rollback_started"}
    \/ s = "verified" /\ t \in {"commit_started", "rollback_started"}
    \/ s = "commit_started" /\ t \in {"committed", "rollback_started"}
    \/ s = "rollback_started" /\ t = "rolled_back"

\* The least number of transitions that reach a state.
MinimumSequence(s) ==
    CASE s = "planned" -> 0
      [] s = "prepared" -> 1
      [] s = "started" -> 2
      [] s \in {"activated", "rollback_started"} -> 3
      [] s \in {"verified", "rolled_back"} -> 4
      [] s = "commit_started" -> 5
      [] OTHER -> 6

MaxSequence == 8

-----------------------------------------------------------------------------
(* Verification of what is on disk.                                        *)

\* verify_manifest_files: only the paths of the manifest are looked at.
FilesMatchOld == \A i \in Paths : Plan[i] # "add" => file[i] = "old"
FilesMatchNew == \A i \in Paths : Plan[i] # "remove" => file[i] = "new"

VerifyActiveOld == FilesMatchOld /\ record = [k \in Records |-> "old"]
VerifyActiveNew == FilesMatchNew /\ record = [k \in Records |-> "new"]

AddDestinationsAbsent == \A i \in Paths : Plan[i] = "add" => file[i] = "absent"

\* load_transaction_metadata: the plan, the journal and both records are readable.
Metadata == dir = "complete" /\ journal # "none" /\ seq >= MinimumSequence(journal)

LoadTransaction == Metadata /\ stage /\ backup
LoadRecovery == Metadata /\ backup

-----------------------------------------------------------------------------
(* One durable step: its temporary file, its content and its destination.  *)

Slots == {<<"journal", n>> : n \in 1 .. MaxSequence}
         \cup {"activate", "rollback"} \X Paths
         \cup {"publish", "restore"} \X Records

\* apply_activation_operation and apply_rollback_operation by what they find.
ActivateNeeds(i) ==
    CASE file[i] = NewContent(i) -> "skip"
      [] file[i] = OldContent(i) /\ Plan[i] = "remove" -> "delete"
      [] file[i] = OldContent(i) /\ Plan[i] # "remove" -> "install"
      [] OTHER -> "refuse"

\* Mutant: rollback leaves added files behind.
RevertNeedsKeepsAdded(i) ==
    CASE file[i] = OldContent(i) \/ Plan[i] = "add" -> "skip"
      [] file[i] \in {"absent", NewContent(i)} /\ Plan[i] # "add" -> "install"
      [] OTHER -> "refuse"

\* Mutant: rollback restores whatever it finds.
RevertNeedsUnchecked(i) ==
    CASE file[i] = OldContent(i) -> "skip"
      [] Plan[i] = "add" -> "delete"
      [] OTHER -> "install"

RevertNeeds(i) ==
    CASE file[i] = OldContent(i) -> "skip"
      [] file[i] = "new" /\ Plan[i] = "add" -> "delete"
      [] file[i] = "foreign" /\ Plan[i] = "add" -> "skip"
      [] file[i] \in {"absent", NewContent(i)} /\ Plan[i] # "add" -> "install"
      [] OTHER -> "refuse"

\* The activation temporary of a path is dropped before the path is reverted.
Stale == pc = "revert" /\ at \in Paths /\ Plan[at] # "remove" /\ temp[<<"activate", at>>] # "none"

FileStep(need) ==
    \/ pc = "apply" /\ at \in Paths /\ ActivateNeeds(at) = need
    \/ pc = "revert" /\ at \in Paths /\ ~Stale /\ RevertNeeds(at) = need

WantedRecord == IF pc = "publish" THEN "new" ELSE "old"
StaleRecord == pc = "restore" /\ at \in Records /\ temp[<<"publish", at>>] # "none"
RecordStep == pc \in {"publish", "restore"} /\ at \in Records /\ ~StaleRecord

Installing ==
    \/ pc \in JournalSteps /\ AllowedTransition(journal, Target[pc])
    \/ FileStep("install")
    \/ RecordStep /\ record[at] # WantedRecord

Slot == CASE pc \in JournalSteps -> <<"journal", seq + 1>>
          [] pc = "apply" -> <<"activate", at>>
          [] pc = "revert" -> <<"rollback", at>>
          [] OTHER -> <<pc, at>>

Wanted == CASE pc \in JournalSteps -> Target[pc]
            [] pc = "apply" -> "new"
            [] pc = "revert" -> "old"
            [] OTHER -> WantedRecord

\* Where the process goes when the current durable step is done.
Onward ==
    CASE pc = "to_prepared" -> <<"handoff", 0>>
      [] pc = "to_started" -> <<"apply", 1>>
      [] pc = "to_activated" -> <<"publish", 1>>
      [] pc = "to_verified" -> <<"smoke", 0>>
      [] pc = "to_commit" -> <<"to_committed", 0>>
      [] pc = "to_rollback" -> <<"revert", Len(Plan)>>
      [] pc \in {"to_committed", "to_rolled_back"} -> <<"settle", 0>>
      [] pc = "revert" -> <<"revert", at - 1>>
      [] OTHER -> <<pc, at + 1>>

GoOn == pc' = Onward[1] /\ at' = Onward[2] /\ ready' = FALSE /\ UNCHANGED next
Goto(p) == pc' = p /\ at' = 0 /\ ready' = FALSE /\ UNCHANGED next

Preparing == {"metadata", "stage", "backup", "to_prepared"}
Activating == {"to_started", "apply", "to_activated", "publish", "to_verified"}
Committing == {"smoke", "to_commit", "to_committed"}
RollingBack == {"to_rollback", "revert", "restore", "to_rolled_back"}

\* The error paths: activate_transaction and execute_activation roll back what
\* has been started; every other error ends the command, and main goes on to
\* restore_managed_mcp_and_finalize whatever the outcome was.
Errored ==
    /\ pc \in Activating \cup Committing \cup RollingBack
    /\ Goto(IF pc \in Committing \/ (pc \in Activating /\ StateRequiresRollback(journal))
            THEN "to_rollback" ELSE "settle")

-----------------------------------------------------------------------------
Init ==
    /\ dir = "none" /\ journal = "none" /\ seq = 0
    /\ stage = FALSE /\ backup = FALSE
    /\ file = [i \in Paths |-> OldContent(i)]
    /\ record = [k \in Records |-> "old"]
    /\ temp = [s \in Slots |-> "none"]
    /\ pc = "idle" /\ at = 0 /\ ready = FALSE /\ next = "exit"
    /\ mcp = McpWasRunning /\ permanent = "kept"
    /\ attempts = 0 /\ crashes = 0 /\ failures = 0 /\ foreign = 0

\* The transaction directory and all it holds are gone.
Dropped ==
    /\ dir' = "none" /\ journal' = "none" /\ seq' = 0 /\ stage' = FALSE /\ backup' = FALSE
    /\ temp' = [s \in Slots |-> IF s[1] = "journal" THEN "none" ELSE temp[s]]
    /\ UNCHANGED <<file, record>>

(* prepare_transaction, run by `ah` under the lifecycle lease.             *)

BeginPrepare ==
    /\ pc = "idle" /\ dir = "none" /\ attempts < MaxAttempts
    /\ VerifyActiveOld /\ AddDestinationsAbsent
    /\ attempts' = attempts + 1
    /\ dir' = "layout"
    /\ Goto("metadata")
    /\ UNCHANGED <<journal, seq, stage, backup, file, record, temp, outside,
                   crashes, failures, foreign>>

\* The plan, the records and persist_initial_journal.
WriteMetadata ==
    /\ pc = "metadata"
    /\ dir' = "complete" /\ journal' = "planned" /\ seq' = 0
    /\ Goto("stage")
    /\ UNCHANGED <<stage, backup, file, record, temp, outside, budget>>

StageFiles ==
    /\ pc = "stage"
    /\ stage' = TRUE
    /\ Goto("backup")
    /\ UNCHANGED <<dir, journal, seq, backup, file, record, temp, outside, budget>>

\* The installed files are read again; content that changed since the check fails.
BackupFiles ==
    /\ pc = "backup" /\ FilesMatchOld
    /\ backup' = TRUE
    /\ Goto("to_prepared")
    /\ UNCHANGED <<dir, journal, seq, stage, file, record, temp, outside, budget>>

\* PreparationCleanup runs on every error of prepare_transaction.
PrepareFails ==
    /\ pc \in Preparing
    /\ \/ failures < MaxFailures /\ failures' = failures + 1
       \/ pc = "backup" /\ ~FilesMatchOld /\ UNCHANGED failures
    /\ Dropped
    /\ Goto("idle")
    /\ UNCHANGED <<outside, attempts, crashes, foreign>>

\* launch_transaction: managed MCP is stopped, the helper takes the lease over
\* and loads the prepared transaction.
Handoff ==
    /\ pc = "handoff"
    /\ mcp' = FALSE
    /\ Goto(IF LoadTransaction /\ journal = "prepared" /\ VerifyActiveOld /\ AddDestinationsAbsent
            THEN "to_started" ELSE "settle")
    /\ UNCHANGED <<disk, permanent, budget>>

\* The helper copy, the stop or the launch failed: the service is put back (or
\* is not) and the prepared transaction is removed, whatever that returns.
LaunchFails ==
    /\ pc = "handoff" /\ failures < MaxFailures
    /\ failures' = failures + 1
    /\ mcp' \in {McpWasRunning, FALSE}
    /\ pc' = "remove" /\ at' = 0 /\ ready' = FALSE /\ next' = "exit"
    /\ UNCHANGED <<disk, permanent, attempts, crashes, foreign>>

-----------------------------------------------------------------------------
(* The durable steps, shared by the journal, the files and the record.     *)

\* Mutant: a leftover temporary is taken over unread.
PrepareTempUnread ==
    /\ Installing /\ ~ready
    /\ temp' = [temp EXCEPT ![Slot] = IF @ = "none" THEN Wanted ELSE @]
    /\ ready' = TRUE
    /\ UNCHANGED <<dir, journal, seq, stage, backup, file, record, pc, at, next, outside, budget>>

\* A leftover temporary is taken over when it holds the wanted content.
PrepareTemp ==
    /\ Installing /\ ~ready
    /\ temp[Slot] \in {"none", Wanted}
    /\ temp' = [temp EXCEPT ![Slot] = Wanted]
    /\ ready' = TRUE
    /\ UNCHANGED <<dir, journal, seq, stage, backup, file, record, pc, at, next, outside, budget>>

\* ... and refused when it holds anything else.
RefuseTemp ==
    /\ Installing /\ ~ready
    /\ temp[Slot] \notin {"none", Wanted}
    /\ Errored
    /\ UNCHANGED <<disk, outside, budget>>

ReplaceJournal ==
    /\ pc \in JournalSteps /\ ready
    /\ journal' = Target[pc] /\ seq' = seq + 1
    /\ temp' = [temp EXCEPT ![Slot] = "none"]
    /\ GoOn
    /\ UNCHANGED <<dir, stage, backup, file, record, outside, budget>>

ReplaceFile ==
    /\ FileStep("install") /\ ready
    /\ file' = [file EXCEPT ![at] = temp[Slot]]
    /\ temp' = [temp EXCEPT ![Slot] = "none"]
    /\ GoOn
    /\ UNCHANGED <<dir, journal, seq, stage, backup, record, outside, budget>>

ReplaceRecord ==
    /\ RecordStep /\ ready
    /\ record' = [record EXCEPT ![at] = temp[Slot]]
    /\ temp' = [temp EXCEPT ![Slot] = "none"]
    /\ GoOn
    /\ UNCHANGED <<dir, journal, seq, stage, backup, file, outside, budget>>

DeleteFile ==
    /\ FileStep("delete")
    /\ file' = [file EXCEPT ![at] = "absent"]
    /\ GoOn
    /\ UNCHANGED <<dir, journal, seq, stage, backup, record, temp, outside, budget>>

SkipStep ==
    /\ FileStep("skip") \/ (RecordStep /\ record[at] = WantedRecord)
    /\ GoOn
    /\ UNCHANGED <<disk, outside, budget>>

RefuseFile ==
    /\ FileStep("refuse")
    /\ Errored
    /\ UNCHANGED <<disk, outside, budget>>

\* remove_known_managed_temp and remove_record_temp.
DropTemp ==
    /\ Stale \/ StaleRecord
    /\ LET slot == IF Stale THEN <<"activate", at>> ELSE <<"publish", at>>
       IN  IF temp[slot] = "new"
           THEN /\ temp' = [temp EXCEPT ![slot] = "none"]
                /\ UNCHANGED process
           ELSE Errored /\ UNCHANGED temp
    /\ UNCHANGED <<dir, journal, seq, stage, backup, file, record, outside, budget>>

-----------------------------------------------------------------------------
(* activate, commit and rollback between their durable steps.              *)

\* Every operation is applied: the new files are verified as a whole.
FilesApplied ==
    /\ pc = "apply" /\ at > Len(Plan)
    /\ IF FilesMatchNew THEN Goto("to_activated") ELSE Errored
    /\ UNCHANGED <<disk, outside, budget>>

Published ==
    /\ pc = "publish" /\ at > 2
    /\ IF VerifyActiveNew THEN Goto("to_verified") ELSE Errored
    /\ UNCHANGED <<disk, outside, budget>>

\* run_installed_smoke, then commit_transaction loads and verifies once more.
Smoke ==
    /\ pc = "smoke"
    /\ Goto(IF LoadTransaction /\ VerifyActiveNew THEN "to_commit" ELSE "to_rollback")
    /\ UNCHANGED <<disk, outside, budget>>

SmokeFails ==
    /\ pc = "smoke" /\ failures < MaxFailures
    /\ failures' = failures + 1
    /\ Errored
    /\ UNCHANGED <<disk, outside, attempts, crashes, foreign>>

FilesReverted ==
    /\ pc = "revert" /\ at = 0
    /\ pc' = "restore" /\ at' = 1 /\ ready' = FALSE
    /\ UNCHANGED <<disk, next, outside, budget>>

RecordRestored ==
    /\ pc = "restore" /\ at > 2
    /\ IF VerifyActiveOld THEN Goto("to_rolled_back") ELSE Errored
    /\ UNCHANGED <<disk, outside, budget>>

-----------------------------------------------------------------------------
(* restore_managed_mcp_and_finalize and remove_completed_transaction.      *)

FinalizeBeforeRestore == journal # "committed" \/ Operation = "rollback"

Settle ==
    /\ pc = "settle"
    /\ IF Metadata /\ journal \in {"committed", "prepared", "rolled_back"}
       THEN /\ pc' = IF FinalizeBeforeRestore THEN "finalize" ELSE "restore_mcp"
            /\ next' = IF FinalizeBeforeRestore THEN "restore" ELSE "exit"
       ELSE pc' = "idle" /\ UNCHANGED next
    /\ at' = 0 /\ ready' = FALSE
    /\ UNCHANGED <<disk, outside, budget>>

\* finalize_completed_transaction up to the removal: a committed update leaves
\* its backup as the permanent one, a committed rollback uses it up.
Finalize ==
    /\ pc = "finalize"
    /\ IF LoadTransaction
       THEN /\ permanent' = CASE journal # "committed" -> permanent
                              [] journal = "committed" /\ Operation = "upgrade" -> "promoted"
                              [] OTHER -> "consumed"
            /\ Goto("remove")
       ELSE UNCHANGED permanent /\ Goto("idle")
    /\ UNCHANGED <<disk, mcp, budget>>

Removable ==
    /\ Metadata
    /\ \/ journal = "planned" /\ VerifyActiveOld
       \/ journal \in {"prepared", "rolled_back"} /\ backup /\ VerifyActiveOld
       \/ journal = "committed" /\ VerifyActiveNew

Remove ==
    /\ pc = "remove" /\ Removable
    /\ Dropped
    /\ Goto(IF next = "restore" THEN "restore_mcp" ELSE "idle")
    /\ UNCHANGED <<outside, budget>>

RemoveRefused ==
    /\ pc = "remove" /\ ~Removable
    /\ Goto("idle")
    /\ UNCHANGED <<disk, outside, budget>>

\* The installed `ah` brings the service back; before a finalize that is last
\* (next = "exit") a failure leaves the transaction for the next recovery.
RestoreMcp ==
    /\ pc = "restore_mcp"
    /\ mcp' = McpWasRunning
    /\ Goto(IF next = "restore" THEN "idle" ELSE "finalize")
    /\ UNCHANGED <<disk, permanent, budget>>

RestoreMcpFails ==
    /\ pc = "restore_mcp" /\ McpWasRunning /\ failures < MaxFailures
    /\ failures' = failures + 1
    /\ Goto("idle")
    /\ UNCHANGED <<disk, outside, attempts, crashes, foreign>>

-----------------------------------------------------------------------------
(* The next `ah`: recover_before_startup, recover_transaction.             *)

\* Mutant: an interrupted rollback is not picked up.
StartupForgetsRollback ==
    /\ pc = "idle" /\ LoadRecovery /\ journal # "rollback_started"
    /\ Goto(IF StateRequiresRollback(journal) THEN "to_rollback"
            ELSE IF journal = "planned" THEN "remove" ELSE "settle")
    /\ UNCHANGED <<disk, outside, budget>>

Startup ==
    /\ pc = "idle" /\ Metadata
    /\ \/ journal = "planned"
       \/ LoadRecovery /\ (journal = "committed" /\ Operation = "upgrade" => stage)
    /\ CASE journal = "planned" -> pc' = "remove" /\ at' = 0 /\ next' = "exit"
         [] StateRequiresRollback(journal) -> pc' = "to_rollback" /\ at' = 0 /\ UNCHANGED next
         [] journal = "rollback_started" -> pc' = "revert" /\ at' = Len(Plan) /\ UNCHANGED next
         [] OTHER -> pc' = "settle" /\ at' = 0 /\ UNCHANGED next
    /\ ready' = FALSE
    /\ mcp' = (mcp /\ ~(StateRequiresRollback(journal) \/ journal = "rollback_started"))
    /\ UNCHANGED <<disk, permanent, budget>>

-----------------------------------------------------------------------------
(* The environment.                                                        *)

Point == IF ready THEN "before_replace" ELSE IF pc = "metadata" THEN "metadata" ELSE "checkpoint"

\* Power loss or a killed process: only the disk survives.
Crash ==
    /\ pc # "idle" /\ Point \in Interruptions /\ crashes < MaxCrashes
    /\ crashes' = crashes + 1
    /\ Goto("idle")
    /\ UNCHANGED <<disk, outside, attempts, failures, foreign>>

\* ... inside the write of a temporary file, which is not atomic.
CrashWriting ==
    /\ Installing /\ ~ready /\ temp[Slot] = "none"
    /\ "mid_write" \in Interruptions /\ crashes < MaxCrashes
    /\ crashes' = crashes + 1
    /\ temp' = [temp EXCEPT ![Slot] = "partial"]
    /\ Goto("idle")
    /\ UNCHANGED <<dir, journal, seq, stage, backup, file, record, outside,
                   attempts, failures, foreign>>

\* ... inside remove_dir_all, which deletes entry by entry.
CrashRemoving ==
    /\ pc = "remove" /\ Removable
    /\ "removal" \in Interruptions /\ crashes < MaxCrashes
    /\ crashes' = crashes + 1
    /\ dir' \in {"complete", "torn"} /\ stage' \in {stage, FALSE} /\ backup' \in {backup, FALSE}
    /\ Goto("idle")
    /\ UNCHANGED <<journal, seq, file, record, temp, outside, attempts, failures, foreign>>

\* An I/O error of the helper; a failed write leaves what it had written.
WriteFails ==
    /\ Installing /\ ~ready /\ pc # "to_prepared" /\ temp[Slot] = "none"
    /\ failures < MaxFailures
    /\ failures' = failures + 1
    /\ temp' \in {temp} \cup (IF "mid_write" \in Interruptions
                              THEN {[temp EXCEPT ![Slot] = "partial"]} ELSE {})
    /\ Errored
    /\ UNCHANGED <<dir, journal, seq, stage, backup, file, record, outside,
                   attempts, crashes, foreign>>

ReplaceFails ==
    /\ ready /\ pc # "to_prepared" /\ "before_replace" \in Interruptions
    /\ failures < MaxFailures
    /\ failures' = failures + 1
    /\ Errored
    /\ UNCHANGED <<disk, outside, attempts, crashes, foreign>>

\* Somebody puts a file of their own at a managed path while no helper runs.
Foreign ==
    /\ pc \in {"idle", "handoff"} /\ foreign < MaxForeign
    /\ foreign' = foreign + 1
    /\ \E i \in Paths : file[i] # "foreign" /\ file' = [file EXCEPT ![i] = "foreign"]
    /\ UNCHANGED <<dir, journal, seq, stage, backup, record, temp, process, outside,
                   attempts, crashes, failures>>

-----------------------------------------------------------------------------
Prepare == BeginPrepare \/ WriteMetadata \/ StageFiles \/ BackupFiles
Durable == PrepareTemp \/ RefuseTemp \/ ReplaceJournal \/ ReplaceFile \/ ReplaceRecord
           \/ DeleteFile \/ SkipStep \/ RefuseFile \/ DropTemp
Between == Handoff \/ FilesApplied \/ Published \/ Smoke \/ FilesReverted \/ RecordRestored
Finish == Settle \/ Finalize \/ Remove \/ RemoveRefused \/ RestoreMcp
Environment == PrepareFails \/ LaunchFails \/ SmokeFails \/ RestoreMcpFails \/ Crash
               \/ CrashWriting \/ CrashRemoving \/ WriteFails \/ ReplaceFails \/ Foreign

Helper == WriteMetadata \/ StageFiles \/ BackupFiles \/ Durable \/ Between \/ Finish

Next == Prepare \/ Durable \/ Between \/ Finish \/ Startup \/ Environment

Spec == Init /\ [][Next]_vars

\* A process that runs goes on, and somebody runs `ah` again.
FairSpec == Spec /\ WF_vars(Helper) /\ WF_vars(Startup)
-----------------------------------------------------------------------------
(* Properties.                                                             *)

Contents == {"absent", "old", "new", "foreign"}
Processes == {"idle", "handoff", "settle", "finalize", "remove", "restore_mcp"}
             \cup Preparing \cup Activating \cup Committing \cup RollingBack

\* Every variable keeps its type. In particular no managed file is ever the
\* partial content of an interrupted write (install_managed_file, managed.rs).
TypeOK ==
    /\ dir \in {"none", "layout", "complete", "torn"}
    /\ journal \in JournalStates \cup {"none"}
    /\ seq \in 0 .. MaxSequence
    /\ {stage, backup, ready, mcp} \subseteq BOOLEAN
    /\ file \in [Paths -> Contents]
    /\ record \in [Records -> {"old", "new"}]
    /\ temp \in [Slots -> {"none", "partial", "old", "new"} \cup JournalStates]
    /\ pc \in Processes
    /\ at \in 0 .. Len(Plan) + 3
    /\ next \in {"restore", "exit"}
    /\ permanent \in {"kept", "promoted", "consumed"}
    /\ attempts \in 0 .. MaxAttempts
    /\ crashes \in 0 .. MaxCrashes
    /\ failures \in 0 .. MaxFailures
    /\ foreign \in 0 .. MaxForeign

\* The installation is wholly the old release, or wholly the new one, up to
\* files somebody else put there.
LooksOld == /\ \A i \in Paths : file[i] \in {OldContent(i), "foreign"}
            /\ record = [k \in Records |-> "old"]
LooksNew == /\ \A i \in Paths : file[i] \in {NewContent(i), "foreign"}
            /\ record = [k \in Records |-> "new"]

\* Whatever is interrupted where, the journal on disk tells the truth: before
\* activation and after rollback the installation is the old release, after
\* the commit it is the new one, and without a transaction it is one of them
\* (recover_transaction relies on this to leave those states alone), with no
\* temporary file left: each is renamed away, or found and removed by rollback.
AllOrNothing ==
    /\ journal \in {"planned", "prepared", "rolled_back"} => LooksOld
    /\ journal = "committed" => LooksNew
    /\ journal = "none" => LooksOld \/ LooksNew
    /\ dir = "none" => \A s \in Slots : temp[s] = "none"

\* A file somebody else put at a managed path is neither overwritten nor
\* deleted, by activation, rollback or recovery.
ForeignKept == [][\A i \in Paths : file[i] = "foreign" => file'[i] = "foreign"]_vars

\* What an interruption may leave that recovery refuses to touch: a directory
\* without readable metadata, files of the transaction already removed, a
\* half-written or a superseded temporary, a file of somebody else.
Residue ==
    \/ dir \in {"layout", "torn"}
    \/ journal \notin {"none", "planned"} /\ ~(stage /\ backup)
    \/ temp[<<"journal", seq + 1>>] # "none"
    \/ \E s \in Slots : temp[s] = "partial"
    \/ \E i \in Paths : file[i] = "foreign"

\* A pending transaction is eventually finished, by the process that runs it or
\* by a later `ah`, unless an interruption left something recovery refuses.
Recovers == dir # "none" ~> (dir = "none" \/ (pc = "idle" /\ Residue))

Install == INSTANCE AtomicInstall WITH
    committed <- IF journal = "committed" \/ (dir = "none" /\ record = [k \in Records |-> "new"])
                 THEN "new" ELSE "old",
    pending <- dir # "none",
    shows <- IF LooksOld THEN "old" ELSE IF LooksNew THEN "new" ELSE "mixture"

\* The transaction is an atomic update: the release changes at the one rename
\* that makes the journal say committed, and nothing half done is ever let go.
ImplementsAtomicInstall == Install!InstallSpec

(* What the documentation says and the code does not do.                   *)

\* journal.rs: a crash leaves a state the recovery path can name, so a
\* transaction whose journal is written can always be finished.
JournalledRecovers == journal # "none" ~> dir = "none"
==============================================================================
