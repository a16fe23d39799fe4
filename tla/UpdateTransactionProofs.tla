----------------------- MODULE UpdateTransactionProofs -----------------------
(***************************************************************************)
(* Proofs about the update transaction, for every plan, every choice of    *)
(* interruptions and any number of attempts, crashes, failures and foreign *)
(* files: the journal tells the truth about the installation, and the      *)
(* transaction implements the atomic installation.                         *)
(***************************************************************************)
EXTENDS UpdateTransaction, TLAPS

OldRecord == [k \in Records |-> "old"]
NewRecord == [k \in Records |-> "new"]

\* A path that rollback is done with.
Reverted(i) == file[i] = OldContent(i) \/ (Plan[i] = "add" /\ file[i] = "foreign")

\* What the journal on disk is where the process is; a transaction without a
\* journal has not got beyond its directory.
PhaseInv ==
    /\ dir = "none" => journal = "none" /\ pc \in {"idle", "restore_mcp", "finalize"}
    /\ dir = "layout" => journal = "none" /\ pc \in {"metadata", "idle"}
    /\ journal = "none" => dir \in {"none", "layout"}
    /\ pc = "metadata" => dir = "layout"
    /\ pc \in {"stage", "backup", "to_prepared"} => journal = "planned"
    /\ pc \in {"handoff", "to_started"} => journal = "prepared"
    /\ pc \in {"apply", "to_activated"} => journal = "started"
    /\ pc \in {"publish", "to_verified"} => journal = "activated"
    /\ pc \in {"smoke", "to_commit"} => journal = "verified"
    /\ pc = "to_committed" => journal = "commit_started"
    /\ pc = "to_rollback" => StateRequiresRollback(journal)
    /\ pc \in {"revert", "restore", "to_rolled_back"} => journal = "rollback_started"

\* The position of a loop, and the number of transitions of each state.
PlaceInv ==
    /\ pc = "apply" => at \in 1 .. Len(Plan) + 1
    /\ pc = "revert" => at \in 0 .. Len(Plan)
    /\ pc \in {"publish", "restore"} => at \in 1 .. 3
    /\ journal \in {"none", "planned"} => seq = 0
    /\ journal = "prepared" => seq = 1
    /\ journal = "started" => seq = 2
    /\ journal = "activated" => seq = 3
    /\ journal = "verified" => seq = 4
    /\ journal = "commit_started" => seq = 5
    /\ journal = "committed" => seq = 6
    /\ journal = "rollback_started" => seq \in 3 .. 6
    /\ journal = "rolled_back" => seq \in 4 .. 7

\* A complete temporary holds what the step is to install, and the step is
\* still needed.
ReadyInv ==
    ready =>
      \/ pc \in JournalSteps /\ temp[<<"journal", seq + 1>>] = Target[pc]
      \/ pc = "apply" /\ at \in Paths /\ Plan[at] # "remove" /\ file[at] = OldContent(at)
         /\ temp[<<"activate", at>>] = "new"
      \/ pc = "revert" /\ at \in Paths /\ Plan[at] # "add" /\ file[at] \in {"absent", NewContent(at)}
         /\ temp[<<"activate", at>>] = "none" /\ temp[<<"rollback", at>>] = "old"
      \/ pc = "publish" /\ at \in Records /\ record[at] # "new" /\ temp[<<"publish", at>>] = "new"
      \/ pc = "restore" /\ at \in Records /\ record[at] # "old" /\ temp[<<"publish", at>>] = "none"
         /\ temp[<<"restore", at>>] = "old"

\* What the loops have done to the files and the record, and what the journal
\* says of them.
FilesInv ==
    /\ \A i \in Paths : file[i] \in {OldContent(i), NewContent(i), "foreign"}
    /\ journal \in {"planned", "prepared", "rolled_back"} => LooksOld
    /\ journal = "committed" => LooksNew
    /\ journal = "none" => LooksOld \/ LooksNew
    /\ dir = "layout" => LooksOld
    /\ journal = "started" => record = OldRecord
    /\ pc = "apply" => \A i \in Paths : i < at => file[i] = NewContent(i)
    /\ pc \in {"to_activated", "publish", "to_verified", "smoke", "to_commit", "to_committed"} =>
         \A i \in Paths : file[i] = NewContent(i)
    /\ pc = "publish" => \A k \in Records : k < at => record[k] = "new"
    /\ pc \in {"to_verified", "smoke", "to_commit", "to_committed"} => record = NewRecord
    /\ pc = "revert" => \A i \in Paths : i > at => Reverted(i)
    /\ pc \in {"restore", "to_rolled_back"} => \A i \in Paths : Reverted(i)
    /\ pc = "restore" => \A k \in Records : k < at => record[k] = "old"
    /\ pc = "to_rolled_back" => record = OldRecord

\* Where a temporary file may be: in a step that has not ended, or where
\* rollback will find it.
TempInv ==
    /\ dir = "none" => \A n \in 1 .. MaxSequence : temp[<<"journal", n>>] = "none"
    /\ \A i \in Paths : temp[<<"activate", i>>] # "none" =>
         /\ Plan[i] # "remove" /\ journal \in {"started", "rollback_started"}
         /\ pc = "apply" => i = at /\ ready
         /\ pc = "revert" => i <= at
         /\ pc \notin {"to_activated", "restore", "to_rolled_back"}
    /\ \A k \in Records : temp[<<"publish", k>>] # "none" =>
         /\ journal \in {"activated", "rollback_started"}
         /\ pc = "publish" => k = at /\ ready
         /\ pc = "restore" => k >= at
         /\ pc \notin {"to_verified", "to_rolled_back"}
    /\ \A i \in Paths : temp[<<"rollback", i>>] # "none" =>
         journal = "rollback_started" /\ Plan[i] # "add" /\ file[i] # OldContent(i)
    /\ \A k \in Records : temp[<<"restore", k>>] # "none" =>
         journal = "rollback_started" /\ record[k] # "old"

TransactionInv == TypeOK /\ PhaseInv /\ PlaceInv /\ ReadyInv /\ FilesInv /\ TempInv
-----------------------------------------------------------------------------
(* Facts about the operators of the model.                                 *)

\* The operations of a plan.
LEMMA PlanFacts ==
    /\ Len(Plan) \in Nat
    /\ \A i \in Paths : i \in 1 .. Len(Plan) /\ Plan[i] \in {"add", "replace", "remove"}
BY PlanAssumption DEF Paths

\* What the manifests say of a path, by the kind of its operation.
LEMMA ContentFacts ==
  ASSUME NEW i \in Paths
  PROVE  /\ OldContent(i) = (IF Plan[i] = "add" THEN "absent" ELSE "old")
         /\ NewContent(i) = (IF Plan[i] = "remove" THEN "absent" ELSE "new")
         /\ OldContent(i) # NewContent(i)
         /\ {OldContent(i), NewContent(i), "foreign"} \subseteq Contents
         /\ OldContent(i) # "foreign" /\ NewContent(i) # "foreign"
BY PlanFacts DEF OldContent, NewContent, Contents

\* What activation does with a path.
LEMMA ActivateMeaning ==
  ASSUME NEW i \in Paths
  PROVE  /\ ActivateNeeds(i) = "skip" <=> file[i] = NewContent(i)
         /\ ActivateNeeds(i) = "delete" <=> file[i] = OldContent(i) /\ Plan[i] = "remove"
         /\ ActivateNeeds(i) = "install" <=> file[i] = OldContent(i) /\ Plan[i] # "remove"
BY PlanFacts DEF ActivateNeeds, OldContent, NewContent

\* What rollback does with a path.
LEMMA RevertMeaning ==
  ASSUME NEW i \in Paths
  PROVE  /\ RevertNeeds(i) = "skip" <=> Reverted(i)
         /\ RevertNeeds(i) = "delete" <=> file[i] = "new" /\ Plan[i] = "add"
         /\ RevertNeeds(i) = "install" <=> file[i] \in {"absent", NewContent(i)} /\ Plan[i] # "add"
BY PlanFacts DEF RevertNeeds, Reverted, OldContent, NewContent

\* The slots.
LEMMA SlotFacts ==
    /\ \A n \in 1 .. MaxSequence : <<"journal", n>> \in Slots
    /\ \A i \in Paths : <<"activate", i>> \in Slots /\ <<"rollback", i>> \in Slots
    /\ \A k \in Records : <<"publish", k>> \in Slots /\ <<"restore", k>> \in Slots
BY DEF Slots

\* There are no other slots than those of SlotFacts.
LEMMA SlotCases ==
  ASSUME NEW s \in Slots
  PROVE  \/ \E n \in 1 .. MaxSequence : s = <<"journal", n>>
         \/ \E i \in Paths : s = <<"activate", i>> \/ s = <<"rollback", i>>
         \/ \E k \in Records : s = <<"publish", k>> \/ s = <<"restore", k>>
BY DEF Slots

\* The temporary of one durable step, and what it is to hold.
InstallStep(s, w) ==
    \/ pc \in JournalSteps /\ AllowedTransition(journal, Target[pc]) /\ s = <<"journal", seq + 1>> /\ w = Target[pc]
    \/ pc = "apply" /\ at \in Paths /\ Plan[at] # "remove" /\ file[at] = OldContent(at)
       /\ s = <<"activate", at>> /\ w = "new"
    \/ pc = "revert" /\ at \in Paths /\ Plan[at] # "add" /\ file[at] \in {"absent", NewContent(at)}
       /\ temp[<<"activate", at>>] = "none" /\ s = <<"rollback", at>> /\ w = "old"
    \/ pc = "publish" /\ at \in Records /\ record[at] # "new" /\ s = <<"publish", at>> /\ w = "new"
    \/ pc = "restore" /\ at \in Records /\ record[at] # "old" /\ temp[<<"publish", at>>] = "none"
       /\ s = <<"restore", at>> /\ w = "old"

\* The journal steps and their targets.
LEMMA JournalStepFacts ==
    /\ JournalSteps = {"to_prepared", "to_started", "to_activated", "to_verified", "to_commit", "to_committed",
                       "to_rollback", "to_rolled_back"}
    /\ Target["to_prepared"] = "prepared" /\ Target["to_started"] = "started"
    /\ Target["to_activated"] = "activated" /\ Target["to_verified"] = "verified"
    /\ Target["to_commit"] = "commit_started" /\ Target["to_committed"] = "committed"
    /\ Target["to_rollback"] = "rollback_started" /\ Target["to_rolled_back"] = "rolled_back"
BY DEF JournalSteps, Target

\* What the current step installs, and that it is needed.
LEMMA InstallMeaning ==
  ASSUME TempInv, Installing
  PROVE  InstallStep(Slot, Wanted)
<1>1. CASE pc \in JournalSteps /\ AllowedTransition(journal, Target[pc])
  BY <1>1, JournalStepFacts DEF InstallStep, Slot, Wanted
<1>2. CASE FileStep("install")
  <2>1. CASE pc = "apply" /\ at \in Paths /\ ActivateNeeds(at) = "install"
    BY <2>1, ActivateMeaning, JournalStepFacts DEF InstallStep, Slot, Wanted
  <2>2. CASE pc = "revert" /\ at \in Paths /\ ~Stale /\ RevertNeeds(at) = "install"
    BY <2>2, RevertMeaning, JournalStepFacts DEF InstallStep, Slot, Wanted, Stale, TempInv
  <2> QED
    BY <1>2, <2>1, <2>2 DEF FileStep
<1>3. CASE RecordStep /\ record[at] # WantedRecord
  BY <1>3, JournalStepFacts DEF InstallStep, Slot, Wanted, RecordStep, StaleRecord, WantedRecord
<1> QED
  BY <1>1, <1>2, <1>3 DEF Installing

\* Where a process goes after a durable step.
LEMMA OnwardFacts ==
    /\ pc = "to_prepared" => Onward = <<"handoff", 0>>
    /\ pc = "to_started" => Onward = <<"apply", 1>>
    /\ pc = "to_activated" => Onward = <<"publish", 1>>
    /\ pc = "to_verified" => Onward = <<"smoke", 0>>
    /\ pc = "to_commit" => Onward = <<"to_committed", 0>>
    /\ pc = "to_rollback" => Onward = <<"revert", Len(Plan)>>
    /\ pc \in {"to_committed", "to_rolled_back"} => Onward = <<"settle", 0>>
    /\ pc = "revert" => Onward = <<"revert", at - 1>>
    /\ pc \in {"apply", "publish", "restore"} => Onward = <<pc, at + 1>>
BY DEF Onward

\* Where an error leads.
LEMMA ErroredFacts ==
  ASSUME PhaseInv, Errored
  PROVE  /\ at' = 0 /\ ready' = FALSE /\ UNCHANGED next
         /\ pc' \in {"to_rollback", "settle"}
         /\ pc' = "to_rollback" => StateRequiresRollback(journal)
         /\ dir \notin {"none", "layout"} /\ pc \in Activating \cup Committing \cup RollingBack
BY DEF Errored, Goto, PhaseInv, StateRequiresRollback, Activating, Committing, RollingBack

\* The temporary of a durable step is one of the slots, and says what it is for.
LEMMA SlotIsSlot ==
  ASSUME PlaceInv, PhaseInv, TypeOK, NEW s, NEW w, InstallStep(s, w)
  PROVE  s \in Slots
<1>1. CASE pc \in JournalSteps
  <2>1. seq + 1 \in 1 .. MaxSequence
    BY <1>1, JournalStepFacts DEF PlaceInv, PhaseInv, StateRequiresRollback, MaxSequence
  <2> QED
    BY <1>1, <2>1, SlotFacts, JournalStepFacts DEF InstallStep
<1> QED
  BY <1>1, SlotFacts DEF InstallStep

\* A written temporary.
LEMMA TempWritten ==
  ASSUME TypeOK, NEW s \in Slots, NEW v, temp' = [temp EXCEPT ![s] = v]
  PROVE  temp'[s] = v /\ \A r \in Slots : r # s => temp'[r] = temp[r]
BY DEF TypeOK

\* The slot of a step that is about to rename its temporary.
LEMMA ReadySlot ==
  ASSUME ReadyInv, ready
  PROVE  /\ pc \in JournalSteps => Slot = <<"journal", seq + 1>> /\ temp[Slot] = Target[pc]
         /\ pc = "apply" => Slot = <<"activate", at>> /\ temp[Slot] = "new"
         /\ pc = "revert" => Slot = <<"rollback", at>> /\ temp[Slot] = "old"
         /\ pc = "publish" => Slot = <<"publish", at>> /\ temp[Slot] = "new"
         /\ pc = "restore" => Slot = <<"restore", at>> /\ temp[Slot] = "old"
BY JournalStepFacts DEF ReadyInv, Slot

\* The step after a durable step.
LEMMA GoOnFacts ==
  ASSUME GoOn
  PROVE  /\ ready' = FALSE /\ next' = next
         /\ pc = "to_prepared" => pc' = "handoff" /\ at' = 0
         /\ pc = "to_started" => pc' = "apply" /\ at' = 1
         /\ pc = "to_activated" => pc' = "publish" /\ at' = 1
         /\ pc = "to_verified" => pc' = "smoke" /\ at' = 0
         /\ pc = "to_commit" => pc' = "to_committed" /\ at' = 0
         /\ pc = "to_rollback" => pc' = "revert" /\ at' = Len(Plan)
         /\ pc \in {"to_committed", "to_rolled_back"} => pc' = "settle" /\ at' = 0
         /\ pc = "revert" => pc' = "revert" /\ at' = at - 1
         /\ pc \in {"apply", "publish", "restore"} => pc' = pc /\ at' = at + 1
BY OnwardFacts DEF GoOn

\* The type invariant by the part of the state it is about.
DiskTypes ==
    /\ dir \in {"none", "layout", "complete", "torn"} /\ journal \in JournalStates \cup {"none"}
    /\ seq \in 0 .. MaxSequence /\ stage \in BOOLEAN /\ backup \in BOOLEAN
    /\ file \in [Paths -> Contents] /\ record \in [Records -> {"old", "new"}]
    /\ temp \in [Slots -> {"none", "partial", "old", "new"} \cup JournalStates]
ProcessTypes ==
    /\ pc \in Processes /\ ready \in BOOLEAN /\ next \in {"restore", "exit"}
    /\ mcp \in BOOLEAN /\ permanent \in {"kept", "promoted", "consumed"}
PositionType == at \in 0 .. Len(Plan) + 3
BudgetTypes ==
    /\ attempts \in 0 .. MaxAttempts /\ crashes \in 0 .. MaxCrashes
    /\ failures \in 0 .. MaxFailures /\ foreign \in 0 .. MaxForeign

\* The parts make up the type invariant.
LEMMA TypeParts == TypeOK <=> DiskTypes /\ ProcessTypes /\ PositionType /\ BudgetTypes
<1>1. {stage, backup, ready, mcp} \subseteq BOOLEAN <=>
        stage \in BOOLEAN /\ backup \in BOOLEAN /\ ready \in BOOLEAN /\ mcp \in BOOLEAN
  OBVIOUS
<1> QED
  BY <1>1 DEF TypeOK, DiskTypes, ProcessTypes, PositionType, BudgetTypes

\* The bounds are numbers.
LEMMA BoundFacts == MaxAttempts \in Nat /\ MaxCrashes \in Nat /\ MaxFailures \in Nat /\ MaxForeign \in Nat
BY BoundsAssumption

\* The places a process can be at.
LEMMA ProcessNames ==
    Processes = {"idle", "handoff", "settle", "finalize", "remove", "restore_mcp", "metadata", "stage", "backup",
                 "to_prepared", "to_started", "apply", "to_activated", "publish", "to_verified", "smoke", "to_commit",
                 "to_committed", "to_rollback", "revert", "restore", "to_rolled_back"}
BY DEF Processes, Preparing, Activating, Committing, RollingBack


\* The temporaries after one of the activation's is written.
LEMMA ActivateWritten ==
  ASSUME TypeOK, NEW j \in Paths, NEW v, temp' = [temp EXCEPT ![<<"activate", j>>] = v]
  PROVE  /\ \A i \in 1 .. MaxSequence : temp'[<<"journal", i>>] = temp[<<"journal", i>>]
         /\ \A i \in Paths : temp'[<<"activate", i>>] = IF i = j THEN v ELSE temp[<<"activate", i>>]
         /\ \A i \in Paths : temp'[<<"rollback", i>>] = temp[<<"rollback", i>>]
         /\ \A i \in Records : temp'[<<"publish", i>>] = temp[<<"publish", i>>]
         /\ \A i \in Records : temp'[<<"restore", i>>] = temp[<<"restore", i>>]
BY SlotFacts DEF TypeOK

\* The temporaries after one of the rollback's is written.
LEMMA RollbackWritten ==
  ASSUME TypeOK, NEW j \in Paths, NEW v, temp' = [temp EXCEPT ![<<"rollback", j>>] = v]
  PROVE  /\ \A i \in 1 .. MaxSequence : temp'[<<"journal", i>>] = temp[<<"journal", i>>]
         /\ \A i \in Paths : temp'[<<"activate", i>>] = temp[<<"activate", i>>]
         /\ \A i \in Paths : temp'[<<"rollback", i>>] = IF i = j THEN v ELSE temp[<<"rollback", i>>]
         /\ \A i \in Records : temp'[<<"publish", i>>] = temp[<<"publish", i>>]
         /\ \A i \in Records : temp'[<<"restore", i>>] = temp[<<"restore", i>>]
BY SlotFacts DEF TypeOK

\* The temporaries after one of the published record's is written.
LEMMA PublishWritten ==
  ASSUME TypeOK, NEW j \in Records, NEW v, temp' = [temp EXCEPT ![<<"publish", j>>] = v]
  PROVE  /\ \A i \in 1 .. MaxSequence : temp'[<<"journal", i>>] = temp[<<"journal", i>>]
         /\ \A i \in Paths : temp'[<<"activate", i>>] = temp[<<"activate", i>>]
         /\ \A i \in Paths : temp'[<<"rollback", i>>] = temp[<<"rollback", i>>]
         /\ \A i \in Records : temp'[<<"publish", i>>] = IF i = j THEN v ELSE temp[<<"publish", i>>]
         /\ \A i \in Records : temp'[<<"restore", i>>] = temp[<<"restore", i>>]
BY SlotFacts DEF TypeOK

\* The temporaries after one of the restored record's is written.
LEMMA RestoreWritten ==
  ASSUME TypeOK, NEW j \in Records, NEW v, temp' = [temp EXCEPT ![<<"restore", j>>] = v]
  PROVE  /\ \A i \in 1 .. MaxSequence : temp'[<<"journal", i>>] = temp[<<"journal", i>>]
         /\ \A i \in Paths : temp'[<<"activate", i>>] = temp[<<"activate", i>>]
         /\ \A i \in Paths : temp'[<<"rollback", i>>] = temp[<<"rollback", i>>]
         /\ \A i \in Records : temp'[<<"publish", i>>] = temp[<<"publish", i>>]
         /\ \A i \in Records : temp'[<<"restore", i>>] = IF i = j THEN v ELSE temp[<<"restore", i>>]
BY SlotFacts DEF TypeOK

\* The temporaries after one of the journal's is written.
LEMMA JournalWritten ==
  ASSUME TypeOK, NEW j \in 1 .. MaxSequence, NEW v, temp' = [temp EXCEPT ![<<"journal", j>>] = v]
  PROVE  /\ \A i \in 1 .. MaxSequence : temp'[<<"journal", i>>] = IF i = j THEN v ELSE temp[<<"journal", i>>]
         /\ \A i \in Paths : temp'[<<"activate", i>>] = temp[<<"activate", i>>]
         /\ \A i \in Paths : temp'[<<"rollback", i>>] = temp[<<"rollback", i>>]
         /\ \A i \in Records : temp'[<<"publish", i>>] = temp[<<"publish", i>>]
         /\ \A i \in Records : temp'[<<"restore", i>>] = temp[<<"restore", i>>]
BY SlotFacts DEF TypeOK

\* Every step keeps the process and the journal together.
LEMMA PhaseStep == ASSUME TypeOK, PhaseInv, PlaceInv, ReadyInv, [Next]_vars PROVE PhaseInv'
<1> USE DEF PhaseInv, StateRequiresRollback, disk, process, outside, budget
<1>1. CASE BeginPrepare \/ WriteMetadata \/ StageFiles \/ BackupFiles \/ PrepareTemp \/ Handoff
  BY <1>1 DEF BeginPrepare, Goto, WriteMetadata, StageFiles, BackupFiles, PrepareTemp, Handoff
<1>2. CASE Smoke \/ FilesReverted \/ Settle \/ Remove \/ RemoveRefused \/ RestoreMcp
  BY <1>2 DEF Smoke, Goto, FilesReverted, Settle, Remove, Dropped, RemoveRefused, RestoreMcp
<1>3. CASE PrepareFails \/ LaunchFails \/ RestoreMcpFails \/ Crash \/ CrashWriting \/ CrashRemoving
  BY <1>3 DEF PrepareFails, Goto, Dropped, Preparing, LaunchFails, RestoreMcpFails, Crash, CrashWriting,
     CrashRemoving
<1>4. CASE Foreign
  BY <1>4 DEF Foreign
<1>5. CASE RefuseTemp \/ RefuseFile \/ FilesApplied \/ Published \/ RecordRestored \/ SmokeFails
  BY <1>5, ErroredFacts DEF RefuseTemp, RefuseFile, FilesApplied, Goto, Published, RecordRestored, SmokeFails
<1>6. CASE WriteFails \/ ReplaceFails
  BY <1>6, ErroredFacts DEF WriteFails, ReplaceFails
<1>7. CASE ReplaceJournal
  BY <1>7, GoOnFacts, JournalStepFacts DEF ReplaceJournal
<1>8. CASE ReplaceFile
  BY <1>8, GoOnFacts DEF ReplaceFile, FileStep
<1>9. CASE ReplaceRecord
  BY <1>9, GoOnFacts DEF ReplaceRecord, RecordStep
<1>10. CASE DeleteFile
  BY <1>10, GoOnFacts DEF DeleteFile, FileStep
<1>11. CASE SkipStep
  BY <1>11, GoOnFacts DEF SkipStep, FileStep, RecordStep
<1>12. CASE DropTemp
  <2>1. CASE UNCHANGED <<pc, dir, journal>>
    BY <2>1
  <2>2. CASE Errored /\ UNCHANGED <<dir, journal>>
    BY <2>2, ErroredFacts
  <2> QED
    BY <1>12, <2>1, <2>2 DEF DropTemp
<1>13. CASE Finalize
  BY <1>13 DEF Finalize, Goto, LoadTransaction, Metadata
<1>14. CASE Startup
  BY <1>14 DEF Startup, Metadata, LoadRecovery, TypeOK, JournalStates
<1>15. CASE UNCHANGED vars
  BY <1>15 DEF vars
<1> QED
  BY <1>1, <1>2, <1>3, <1>4, <1>5, <1>6, <1>7, <1>8, <1>9, <1>10, <1>11, <1>12, <1>13, <1>14, <1>15 DEF Next,
     Prepare, Durable, Between, Finish, Environment

\* Every step keeps the loops within their range and the transitions counted.
LEMMA PlaceStep == ASSUME TypeOK, PhaseInv, PlaceInv, ReadyInv, [Next]_vars PROVE PlaceInv'
<1> USE DEF PlaceInv, disk, process, outside, budget
<1>1. CASE BeginPrepare \/ WriteMetadata \/ StageFiles
  BY <1>1 DEF BeginPrepare, Goto, WriteMetadata, StageFiles
<1>2. CASE BackupFiles \/ PrepareTemp \/ Handoff
  BY <1>2 DEF BackupFiles, Goto, PrepareTemp, Handoff
<1>3. CASE Smoke \/ FilesReverted \/ Settle
  BY <1>3 DEF Smoke, Goto, FilesReverted, Settle
<1>4. CASE Finalize \/ Remove \/ RemoveRefused
  BY <1>4 DEF Finalize, Goto, Remove, Dropped, RemoveRefused
<1>5. CASE RestoreMcp \/ PrepareFails \/ LaunchFails
  BY <1>5, ZenonT(60) DEF RestoreMcp, Goto, PrepareFails, Dropped, Preparing, LaunchFails
<1>6. CASE RestoreMcpFails \/ Crash \/ CrashWriting
  BY <1>6 DEF RestoreMcpFails, Goto, Crash, CrashWriting
<1>7. CASE CrashRemoving \/ Foreign
  BY <1>7, ZenonT(60) DEF CrashRemoving, Goto, Foreign
<1>8. CASE RefuseTemp \/ RefuseFile \/ FilesApplied
  BY <1>8, ErroredFacts, ZenonT(60) DEF RefuseTemp, RefuseFile, FilesApplied, Goto
<1>9. CASE Published \/ RecordRestored \/ SmokeFails
  BY <1>9, ErroredFacts, ZenonT(60) DEF Published, Goto, RecordRestored, SmokeFails
<1>10. CASE WriteFails \/ ReplaceFails
  BY <1>10, ErroredFacts, ZenonT(60) DEF WriteFails, ReplaceFails
<1>11. CASE ReplaceJournal
  BY <1>11, GoOnFacts, JournalStepFacts, PlanFacts DEF ReplaceJournal, PhaseInv, StateRequiresRollback
<1>12. CASE ReplaceFile
  BY <1>12, GoOnFacts, PlanFacts DEF ReplaceFile, FileStep, Paths
<1>13. CASE ReplaceRecord
  BY <1>13, GoOnFacts, PlanFacts DEF ReplaceRecord, RecordStep, Records
<1>14. CASE DeleteFile
  BY <1>14, GoOnFacts, PlanFacts DEF DeleteFile, FileStep, Paths
<1>15. CASE SkipStep
  BY <1>15, GoOnFacts, PlanFacts DEF SkipStep, FileStep, Paths, RecordStep, Records
<1>16. CASE DropTemp
  <2>1. CASE UNCHANGED <<pc, at, journal, seq>>
    BY <2>1
  <2>2. CASE Errored /\ UNCHANGED <<journal, seq>>
    BY <2>2, ErroredFacts
  <2> QED
    BY <1>16, <2>1, <2>2 DEF DropTemp
<1>17. CASE Startup
  BY <1>17, PlanFacts DEF Startup, Metadata, LoadRecovery, TypeOK, JournalStates, StateRequiresRollback
<1>18. CASE UNCHANGED vars
  BY <1>18 DEF vars
<1> QED
  BY <1>1, <1>2, <1>3, <1>4, <1>5, <1>6, <1>7, <1>8, <1>9, <1>10, <1>11, <1>12, <1>13, <1>14, <1>15, <1>16,
     <1>17, <1>18 DEF Next, Prepare, Durable, Between, Finish, Environment

\* Every step keeps the counters within their bounds.
LEMMA BudgetStep == ASSUME BudgetTypes, [Next]_vars PROVE BudgetTypes'
<1> USE DEF disk, process, outside, budget
<1> SUFFICES /\ attempts' = attempts \/ (attempts < MaxAttempts /\ attempts' = attempts + 1)
             /\ crashes' = crashes \/ (crashes < MaxCrashes /\ crashes' = crashes + 1)
             /\ failures' = failures \/ (failures < MaxFailures /\ failures' = failures + 1)
             /\ foreign' = foreign \/ (foreign < MaxForeign /\ foreign' = foreign + 1)
  BY BoundFacts DEF BudgetTypes
<1>1. CASE BeginPrepare \/ WriteMetadata \/ StageFiles \/ BackupFiles \/ PrepareTemp
  BY <1>1 DEF BeginPrepare, Goto, WriteMetadata, StageFiles, BackupFiles, PrepareTemp
<1>2. CASE ReplaceJournal \/ ReplaceFile \/ ReplaceRecord \/ DeleteFile \/ SkipStep
  BY <1>2 DEF ReplaceJournal, ReplaceFile, ReplaceRecord, DeleteFile, SkipStep
<1>3. CASE Handoff \/ Smoke \/ FilesReverted \/ Settle \/ Finalize
  BY <1>3 DEF Handoff, Goto, Smoke, FilesReverted, Settle, Finalize
<1>4. CASE Remove \/ RemoveRefused \/ RestoreMcp \/ Startup \/ PrepareFails
  BY <1>4 DEF Remove, Goto, Dropped, RemoveRefused, RestoreMcp, Startup, PrepareFails, Preparing
<1>5. CASE LaunchFails \/ RestoreMcpFails \/ Crash \/ CrashWriting \/ CrashRemoving
  BY <1>5 DEF LaunchFails, RestoreMcpFails, Goto, Crash, CrashWriting, CrashRemoving
<1>6. CASE Foreign
  BY <1>6 DEF Foreign
<1>7. CASE RefuseTemp \/ RefuseFile \/ DropTemp \/ FilesApplied \/ Published
  BY <1>7 DEF RefuseTemp, RefuseFile, DropTemp, FilesApplied, Goto, Published
<1>8. CASE RecordRestored \/ SmokeFails \/ WriteFails \/ ReplaceFails
  BY <1>8 DEF RecordRestored, Goto, SmokeFails, WriteFails, ReplaceFails
<1>9. CASE UNCHANGED vars
  BY <1>9 DEF vars
<1> QED
  BY <1>1, <1>2, <1>3, <1>4, <1>5, <1>6, <1>7, <1>8, <1>9 DEF Next, Prepare, Durable, Between, Finish,
     Environment

\* Every step keeps the type of the process and of what it answers for outside.
LEMMA ProcessStep == ASSUME PhaseInv, PlaceInv, ProcessTypes, [Next]_vars PROVE ProcessTypes'
<1> USE DEF ProcessTypes, disk, process, outside, budget
<1>1. CASE BeginPrepare \/ WriteMetadata \/ StageFiles \/ BackupFiles \/ PrepareTemp \/ Handoff
  BY <1>1, ProcessNames DEF BeginPrepare, Goto, WriteMetadata, StageFiles, BackupFiles, PrepareTemp, Handoff
<1>2. CASE Smoke \/ FilesReverted \/ Settle \/ Finalize \/ Remove \/ RemoveRefused
  BY <1>2, ProcessNames DEF Smoke, Goto, FilesReverted, Settle, Finalize, Remove, Dropped, RemoveRefused
<1>3. CASE Startup \/ PrepareFails \/ RestoreMcpFails \/ Crash \/ CrashWriting \/ CrashRemoving
  BY <1>3, ProcessNames DEF Startup, PrepareFails, Goto, Dropped, Preparing, RestoreMcpFails, Crash,
     CrashWriting, CrashRemoving
<1>4. CASE Foreign
  BY <1>4, ProcessNames DEF Foreign
<1>5. CASE RefuseTemp \/ RefuseFile \/ DropTemp \/ FilesApplied \/ Published \/ RecordRestored
  BY <1>5, ProcessNames, ErroredFacts DEF RefuseTemp, RefuseFile, DropTemp, FilesApplied, Goto, Published,
     RecordRestored
<1>6. CASE SmokeFails \/ WriteFails \/ ReplaceFails
  BY <1>6, ProcessNames, ErroredFacts DEF SmokeFails, WriteFails, ReplaceFails
<1>7. CASE ReplaceJournal
  BY <1>7, ProcessNames, GoOnFacts, JournalStepFacts DEF ReplaceJournal
<1>8. CASE ReplaceFile
  BY <1>8, ProcessNames, GoOnFacts DEF ReplaceFile, FileStep
<1>9. CASE ReplaceRecord
  BY <1>9, ProcessNames, GoOnFacts DEF ReplaceRecord, RecordStep
<1>10. CASE DeleteFile
  BY <1>10, ProcessNames, GoOnFacts DEF DeleteFile, FileStep
<1>11. CASE SkipStep
  BY <1>11, ProcessNames, GoOnFacts DEF SkipStep, FileStep, RecordStep
<1>12. CASE RestoreMcp
  BY <1>12, ProcessNames, McpAssumption DEF RestoreMcp, Goto
<1>13. CASE LaunchFails
  BY <1>13, ProcessNames, McpAssumption DEF LaunchFails
<1>14. CASE UNCHANGED vars
  BY <1>14 DEF vars
<1> QED
  BY <1>1, <1>2, <1>3, <1>4, <1>5, <1>6, <1>7, <1>8, <1>9, <1>10, <1>11, <1>12, <1>13, <1>14 DEF Next, Prepare,
     Durable, Between, Finish, Environment

\* Every step keeps the position within the plan or the record.
LEMMA PositionStep == ASSUME PhaseInv, PlaceInv, PositionType, [Next]_vars PROVE PositionType'
<1> USE DEF disk, process, outside, budget
<1> SUFFICES \/ at' \in {0, 1, at, Len(Plan)}
             \/ pc \in {"apply", "publish", "restore"} /\ (pc = "apply" => at \in Paths)
                /\ (pc # "apply" => at \in Records) /\ at' = at + 1
             \/ pc = "revert" /\ at \in Paths /\ at' = at - 1
  BY PlanFacts DEF PositionType, Records
<1>1. CASE BeginPrepare \/ WriteMetadata \/ StageFiles \/ BackupFiles
  BY <1>1 DEF BeginPrepare, Goto, WriteMetadata, StageFiles, BackupFiles
<1>2. CASE PrepareTemp \/ Handoff \/ Smoke \/ FilesReverted
  BY <1>2 DEF PrepareTemp, Handoff, Goto, Smoke, FilesReverted
<1>3. CASE Settle \/ Finalize \/ Remove \/ RemoveRefused
  BY <1>3 DEF Settle, Finalize, Goto, Remove, Dropped, RemoveRefused
<1>4. CASE RestoreMcp \/ Startup \/ PrepareFails \/ LaunchFails
  BY <1>4 DEF RestoreMcp, Goto, Startup, PrepareFails, Dropped, Preparing, LaunchFails
<1>5. CASE RestoreMcpFails \/ Crash \/ CrashWriting \/ CrashRemoving
  BY <1>5 DEF RestoreMcpFails, Goto, Crash, CrashWriting, CrashRemoving
<1>6. CASE Foreign
  BY <1>6 DEF Foreign
<1>7. CASE RefuseTemp \/ RefuseFile \/ DropTemp \/ FilesApplied
  BY <1>7, ErroredFacts DEF RefuseTemp, RefuseFile, DropTemp, FilesApplied, Goto
<1>8. CASE Published \/ RecordRestored \/ SmokeFails \/ WriteFails
  BY <1>8, ErroredFacts DEF Published, Goto, RecordRestored, SmokeFails, WriteFails
<1>9. CASE ReplaceFails
  BY <1>9, ErroredFacts DEF ReplaceFails
<1>10. CASE ReplaceJournal
  BY <1>10, GoOnFacts, JournalStepFacts DEF ReplaceJournal
<1>11. CASE ReplaceFile
  BY <1>11, GoOnFacts DEF ReplaceFile, FileStep
<1>12. CASE ReplaceRecord
  BY <1>12, GoOnFacts DEF ReplaceRecord, RecordStep
<1>13. CASE DeleteFile
  BY <1>13, GoOnFacts DEF DeleteFile, FileStep
<1>14. CASE SkipStep
  BY <1>14, GoOnFacts DEF SkipStep, FileStep, RecordStep
<1>15. CASE UNCHANGED vars
  BY <1>15 DEF vars
<1> QED
  BY <1>1, <1>2, <1>3, <1>4, <1>5, <1>6, <1>7, <1>8, <1>9, <1>10, <1>11, <1>12, <1>13, <1>14, <1>15 DEF Next,
     Prepare, Durable, Between, Finish, Environment

\* Every step keeps the type of the disk; in particular what is renamed over a
\* managed file is a whole file.
LEMMA DiskStep == ASSUME TypeOK, DiskTypes, PhaseInv, PlaceInv, ReadyInv, TempInv, [Next]_vars PROVE DiskTypes'
<1> USE DEF DiskTypes, disk, process, outside, budget
<1>1. CASE BeginPrepare \/ StageFiles \/ BackupFiles \/ SkipStep \/ Handoff \/ Smoke
  BY <1>1 DEF BeginPrepare, Goto, StageFiles, BackupFiles, SkipStep, Handoff, Smoke
<1>2. CASE FilesReverted \/ Settle \/ Finalize \/ RemoveRefused \/ RestoreMcp \/ Startup
  BY <1>2 DEF FilesReverted, Settle, Finalize, Goto, RemoveRefused, RestoreMcp, Startup
<1>3. CASE LaunchFails \/ RestoreMcpFails \/ Crash \/ CrashRemoving
  BY <1>3 DEF LaunchFails, RestoreMcpFails, Goto, Crash, CrashRemoving
<1>4. CASE RefuseTemp \/ RefuseFile \/ DropTemp \/ FilesApplied \/ Published \/ RecordRestored
  BY <1>4 DEF RefuseTemp, RefuseFile, DropTemp, FilesApplied, Goto, Published, RecordRestored
<1>5. CASE SmokeFails \/ ReplaceFails
  BY <1>5 DEF SmokeFails, ReplaceFails
<1>6. CASE WriteMetadata
  BY <1>6 DEF WriteMetadata, Goto, JournalStates, MaxSequence
<1>7. CASE PrepareTemp
  <2>1. InstallStep(Slot, Wanted)
    BY <1>7, InstallMeaning DEF PrepareTemp
  <2>2. Slot \in Slots
    BY <2>1, SlotIsSlot
  <2>3. Wanted \in {"none", "partial", "old", "new"} \cup JournalStates
    BY <2>1, JournalStepFacts DEF InstallStep, JournalStates
  <2> QED
    BY <1>7, <2>2, <2>3 DEF PrepareTemp
<1>8. CASE ReplaceJournal
  <2>1. Slot \in Slots /\ seq + 1 \in 0 .. MaxSequence
    <3>1. seq + 1 \in 1 .. MaxSequence
      BY <1>8, JournalStepFacts DEF ReplaceJournal, PlaceInv, PhaseInv, StateRequiresRollback, MaxSequence
    <3> QED
      BY <1>8, <3>1, ReadySlot, SlotFacts DEF ReplaceJournal
  <2>2. Target[pc] \in JournalStates
    BY <1>8, JournalStepFacts DEF ReplaceJournal, JournalStates
  <2> QED
    BY <1>8, <2>1, <2>2 DEF ReplaceJournal
<1>9. CASE ReplaceFile
  <2>1. Slot \in Slots /\ at \in Paths /\ temp[Slot] \in Contents
    BY <1>9, ReadySlot, SlotFacts DEF ReplaceFile, FileStep, Contents
  <2> QED
    BY <1>9, <2>1 DEF ReplaceFile
<1>10. CASE ReplaceRecord
  <2>1. Slot \in Slots /\ at \in Records /\ temp[Slot] \in {"old", "new"}
    BY <1>10, ReadySlot, SlotFacts DEF ReplaceRecord, RecordStep
  <2> QED
    BY <1>10, <2>1 DEF ReplaceRecord
<1>11. CASE DeleteFile
  BY <1>11 DEF DeleteFile, FileStep, Contents
<1>12. CASE Remove
  <2>1. temp' \in [Slots -> {"none", "partial", "old", "new"} \cup JournalStates]
    BY <1>12 DEF Remove, Goto, Dropped
  <2>2. 0 \in 0 .. MaxSequence
    BY DEF MaxSequence
  <2> QED
    BY <1>12, <2>1, <2>2 DEF Remove, Goto, Dropped
<1>13. CASE PrepareFails
  <2>1. temp' \in [Slots -> {"none", "partial", "old", "new"} \cup JournalStates]
    BY <1>13 DEF PrepareFails, Goto, Dropped, Preparing
  <2>2. 0 \in 0 .. MaxSequence
    BY DEF MaxSequence
  <2> QED
    BY <1>13, <2>1, <2>2 DEF PrepareFails, Goto, Dropped, Preparing
<1>14. CASE CrashWriting
  <2>1. InstallStep(Slot, Wanted)
    BY <1>14, InstallMeaning DEF CrashWriting, Goto
  <2>2. Slot \in Slots
    BY <2>1, SlotIsSlot
  <2>3. Wanted \in {"none", "partial", "old", "new"} \cup JournalStates
    BY <2>1, JournalStepFacts DEF InstallStep, JournalStates
  <2> QED
    BY <1>14, <2>2, <2>3 DEF CrashWriting, Goto
<1>15. CASE WriteFails
  <2>1. InstallStep(Slot, Wanted)
    BY <1>15, InstallMeaning DEF WriteFails
  <2>2. Slot \in Slots
    BY <2>1, SlotIsSlot
  <2>3. Wanted \in {"none", "partial", "old", "new"} \cup JournalStates
    BY <2>1, JournalStepFacts DEF InstallStep, JournalStates
  <2> QED
    BY <1>15, <2>2, <2>3 DEF WriteFails
<1>16. CASE Foreign
  BY <1>16 DEF Foreign, Contents
<1>17. CASE UNCHANGED vars
  BY <1>17 DEF vars
<1> QED
  BY <1>1, <1>2, <1>3, <1>4, <1>5, <1>6, <1>7, <1>8, <1>9, <1>10, <1>11, <1>12, <1>13, <1>14, <1>15, <1>16,
     <1>17 DEF Next, Prepare, Durable, Between, Finish, Environment

\* Every step keeps the complete temporary that of the current step.
LEMMA ReadyStep == ASSUME TypeOK, PhaseInv, PlaceInv, ReadyInv, TempInv, [Next]_vars PROVE ReadyInv'
<1> USE DEF ReadyInv, disk, process, outside, budget
<1>1. CASE BeginPrepare \/ WriteMetadata \/ StageFiles \/ BackupFiles \/ Handoff \/ Smoke
  BY <1>1 DEF BeginPrepare, Goto, WriteMetadata, StageFiles, BackupFiles, Handoff, Smoke
<1>2. CASE FilesReverted \/ Settle \/ Finalize \/ Remove \/ RemoveRefused \/ RestoreMcp
  BY <1>2 DEF FilesReverted, Settle, Finalize, Goto, Remove, Dropped, RemoveRefused, RestoreMcp
<1>3. CASE Startup \/ PrepareFails \/ LaunchFails \/ RestoreMcpFails \/ Crash \/ CrashWriting
  BY <1>3 DEF Startup, PrepareFails, Goto, Dropped, Preparing, LaunchFails, RestoreMcpFails, Crash, CrashWriting
<1>4. CASE CrashRemoving
  BY <1>4 DEF CrashRemoving, Goto
<1>5. CASE RefuseTemp \/ RefuseFile \/ FilesApplied \/ Published \/ RecordRestored \/ SmokeFails
  BY <1>5, ErroredFacts DEF RefuseTemp, RefuseFile, FilesApplied, Goto, Published, RecordRestored, SmokeFails
<1>6. CASE WriteFails \/ ReplaceFails
  BY <1>6, ErroredFacts DEF WriteFails, ReplaceFails
<1>7. CASE PrepareTemp
  <2>1. InstallStep(Slot, Wanted) /\ Slot \in Slots
    BY <1>7, InstallMeaning, SlotIsSlot DEF PrepareTemp
  <2>2. temp'[Slot] = Wanted /\ \A r \in Slots : r # Slot => temp'[r] = temp[r]
    BY <1>7, <2>1, TempWritten DEF PrepareTemp
  <2>3. UNCHANGED <<pc, at, seq, file, record>>
    BY <1>7 DEF PrepareTemp
  <2>4. \A i \in Paths : <<"activate", i>> # Slot => temp'[<<"activate", i>>] = temp[<<"activate", i>>]
    BY <2>2, SlotFacts
  <2>5. \A i \in Records : <<"publish", i>> # Slot => temp'[<<"publish", i>>] = temp[<<"publish", i>>]
    BY <2>2, SlotFacts
  <2> QED
    BY <2>1, <2>2, <2>3, <2>4, <2>5 DEF InstallStep
<1>8. CASE ReplaceJournal
  BY <1>8, GoOnFacts DEF ReplaceJournal
<1>9. CASE ReplaceFile
  BY <1>9, GoOnFacts DEF ReplaceFile
<1>10. CASE ReplaceRecord
  BY <1>10, GoOnFacts DEF ReplaceRecord
<1>11. CASE DeleteFile
  BY <1>11, GoOnFacts DEF DeleteFile
<1>12. CASE SkipStep
  BY <1>12, GoOnFacts DEF SkipStep
<1>13. CASE DropTemp
  <2>1. CASE ready' = FALSE
    BY <2>1
  <2>2. CASE ready' # FALSE
    BY <1>13, <2>2, ErroredFacts, JournalStepFacts DEF DropTemp, Stale, StaleRecord
  <2> QED
    BY <2>1, <2>2
<1>14. CASE Foreign
  BY <1>14, JournalStepFacts DEF Foreign
<1>15. CASE UNCHANGED vars
  BY <1>15 DEF vars
<1> QED
  BY <1>1, <1>2, <1>3, <1>4, <1>5, <1>6, <1>7, <1>8, <1>9, <1>10, <1>11, <1>12, <1>13, <1>14, <1>15 DEF Next,
     Prepare, Durable, Between, Finish, Environment

\* Every step keeps what the loops have done and what the journal says of it.
LEMMA FilesStep == ASSUME TypeOK, PhaseInv, PlaceInv, ReadyInv, FilesInv, [Next]_vars PROVE FilesInv'
<1> USE DEF FilesInv, LooksOld, LooksNew, Reverted, disk, process, outside, budget
<1>1. CASE StageFiles \/ BackupFiles
  BY <1>1 DEF StageFiles, Goto, BackupFiles
<1>2. CASE PrepareTemp \/ Handoff
  BY <1>2 DEF PrepareTemp, Handoff, Goto
<1>3. CASE Smoke \/ Settle
  BY <1>3 DEF Smoke, Goto, Settle
<1>4. CASE Finalize \/ RemoveRefused
  BY <1>4 DEF Finalize, Goto, RemoveRefused
<1>5. CASE RestoreMcp \/ LaunchFails
  BY <1>5 DEF RestoreMcp, Goto, LaunchFails
<1>6. CASE RestoreMcpFails \/ Crash
  BY <1>6 DEF RestoreMcpFails, Goto, Crash
<1>7. CASE CrashWriting \/ CrashRemoving
  BY <1>7 DEF CrashWriting, Goto, CrashRemoving
<1>8. CASE Foreign
  BY <1>8 DEF Foreign
<1>9. CASE RefuseTemp \/ RefuseFile
  BY <1>9, ErroredFacts DEF RefuseTemp, RefuseFile
<1>10. CASE SmokeFails \/ WriteFails
  BY <1>10, ErroredFacts DEF SmokeFails, WriteFails
<1>11. CASE ReplaceFails
  BY <1>11, ErroredFacts DEF ReplaceFails
<1>12. CASE BeginPrepare
  BY <1>12, ContentFacts DEF BeginPrepare, Goto, VerifyActiveOld, FilesMatchOld, AddDestinationsAbsent, PhaseInv
<1>13. CASE WriteMetadata
  BY <1>13 DEF WriteMetadata, Goto, PhaseInv
<1>14. CASE ReplaceJournal
  BY <1>14, GoOnFacts, PlanFacts, ContentFacts, JournalStepFacts DEF ReplaceJournal, PhaseInv, Paths, Records,
     OldRecord, NewRecord
<1>15. CASE ReplaceFile
  <2>1. CASE pc = "apply" /\ at \in Paths /\ ActivateNeeds(at) = "install"
    <3>1. /\ pc' = "apply" /\ at' = at + 1 /\ UNCHANGED <<dir, journal, record>>
          /\ file'[at] = NewContent(at) /\ \A i \in Paths : i # at => file'[i] = file[i]
      BY <1>15, <2>1, ActivateMeaning, ContentFacts, GoOnFacts, ReadySlot DEF ReplaceFile, TypeOK
    <3> QED
      BY <2>1, <3>1, PlanFacts, ContentFacts DEF PhaseInv
  <2>2. CASE pc = "revert" /\ at \in Paths /\ RevertNeeds(at) = "install"
    <3>1. /\ pc' = "revert" /\ at' = at - 1 /\ UNCHANGED <<dir, journal, record>>
          /\ file'[at] = OldContent(at) /\ \A i \in Paths : i # at => file'[i] = file[i]
      BY <1>15, <2>2, RevertMeaning, ContentFacts, GoOnFacts, ReadySlot DEF ReplaceFile, TypeOK
    <3>2. \A i \in Paths : i > at' => Reverted(i)'
      BY <2>2, <3>1, PlanFacts
    <3>3. \A i \in Paths : file'[i] \in {OldContent(i), NewContent(i), "foreign"}
      BY <2>2, <3>1
    <3>4. journal' = "rollback_started" /\ dir' # "layout"
      BY <2>2, <3>1 DEF PhaseInv
    <3> QED
      BY <2>2, <3>1, <3>2, <3>3, <3>4
  <2> QED
    BY <1>15, <2>1, <2>2 DEF ReplaceFile, FileStep
<1>16. CASE ReplaceRecord
  <2>1. /\ pc \in {"publish", "restore"} /\ at \in Records /\ pc' = pc /\ at' = at + 1
        /\ UNCHANGED <<dir, journal, file>>
        /\ record'[at] = (IF pc = "publish" THEN "new" ELSE "old")
        /\ \A k \in Records : k # at => record'[k] = record[k]
    BY <1>16, GoOnFacts, ReadySlot DEF ReplaceRecord, RecordStep, TypeOK
  <2> QED
    BY <2>1 DEF Records, PhaseInv
<1>17. CASE DeleteFile
  <2>1. CASE pc = "apply" /\ at \in Paths /\ ActivateNeeds(at) = "delete"
    <3>1. /\ pc' = "apply" /\ at' = at + 1 /\ UNCHANGED <<dir, journal, record>>
          /\ file'[at] = NewContent(at) /\ \A i \in Paths : i # at => file'[i] = file[i]
      BY <1>17, <2>1, ActivateMeaning, ContentFacts, GoOnFacts, ReadySlot DEF DeleteFile, TypeOK
    <3> QED
      BY <2>1, <3>1, PlanFacts, ContentFacts DEF PhaseInv
  <2>2. CASE pc = "revert" /\ at \in Paths /\ RevertNeeds(at) = "delete"
    <3>1. /\ pc' = "revert" /\ at' = at - 1 /\ UNCHANGED <<dir, journal, record>>
          /\ file'[at] = OldContent(at) /\ \A i \in Paths : i # at => file'[i] = file[i]
      BY <1>17, <2>2, RevertMeaning, ContentFacts, GoOnFacts, ReadySlot DEF DeleteFile, TypeOK
    <3>2. \A i \in Paths : i > at' => Reverted(i)'
      BY <2>2, <3>1, PlanFacts
    <3>3. \A i \in Paths : file'[i] \in {OldContent(i), NewContent(i), "foreign"}
      BY <2>2, <3>1
    <3>4. journal' = "rollback_started" /\ dir' # "layout"
      BY <2>2, <3>1 DEF PhaseInv
    <3> QED
      BY <2>2, <3>1, <3>2, <3>3, <3>4
  <2> QED
    BY <1>17, <2>1, <2>2 DEF DeleteFile, FileStep
<1>18. CASE SkipStep
  <2>1. CASE pc = "apply" /\ at \in Paths /\ ActivateNeeds(at) = "skip"
    <3>1. file[at] = NewContent(at) /\ pc' = "apply" /\ at' = at + 1
      BY <1>18, <2>1, ActivateMeaning, GoOnFacts DEF SkipStep
    <3> QED
      BY <1>18, <2>1, <3>1, PlanFacts DEF SkipStep
  <2>2. CASE pc = "revert" /\ at \in Paths /\ RevertNeeds(at) = "skip"
    <3>1. Reverted(at) /\ pc' = "revert" /\ at' = at - 1
      BY <1>18, <2>2, RevertMeaning, GoOnFacts DEF SkipStep
    <3> QED
      BY <1>18, <2>2, <3>1, PlanFacts DEF SkipStep
  <2>3. CASE RecordStep /\ record[at] = WantedRecord
    <3>1. pc \in {"publish", "restore"} /\ at \in Records /\ pc' = pc /\ at' = at + 1
          /\ record[at] = (IF pc = "publish" THEN "new" ELSE "old")
      BY <1>18, <2>3, GoOnFacts DEF SkipStep, RecordStep, WantedRecord
    <3> QED
      BY <1>18, <2>3, <3>1 DEF SkipStep, Records
  <2> QED
    BY <1>18, <2>1, <2>2, <2>3 DEF SkipStep, FileStep
<1>19. CASE DropTemp
  <2>1. CASE UNCHANGED <<pc, at, dir, journal, file, record>>
    BY <2>1
  <2>2. CASE Errored /\ UNCHANGED <<dir, journal, file, record>>
    BY <2>2, ErroredFacts
  <2> QED
    BY <1>19, <2>1, <2>2 DEF DropTemp
<1>20. CASE FilesApplied
  <2>1. UNCHANGED <<dir, journal, file, record>> /\ pc = "apply" /\ at > Len(Plan)
    BY <1>20 DEF FilesApplied, Goto
  <2>2. pc' \in {"to_activated", "to_rollback", "settle"}
    BY <1>20, ErroredFacts DEF FilesApplied, Goto
  <2> QED
    BY <2>1, <2>2, PlanFacts DEF PlaceInv
<1>21. CASE Published
  <2>1. UNCHANGED <<dir, journal, file, record>> /\ pc = "publish"
    BY <1>21 DEF Published, Goto
  <2>2. (pc' = "to_verified" /\ record = NewRecord) \/ pc' \in {"to_rollback", "settle"}
    BY <1>21, ErroredFacts DEF Published, Goto, VerifyActiveNew, NewRecord
  <2> QED
    BY <2>1, <2>2
<1>22. CASE FilesReverted
  BY <1>22, PlanFacts DEF FilesReverted, Records
<1>23. CASE RecordRestored
  <2>1. UNCHANGED <<dir, journal, file, record>> /\ pc = "restore"
    BY <1>23 DEF RecordRestored, Goto
  <2>2. (pc' = "to_rolled_back" /\ record = OldRecord) \/ pc' \in {"to_rollback", "settle"}
    BY <1>23, ErroredFacts DEF RecordRestored, Goto, VerifyActiveOld, OldRecord
  <2> QED
    BY <2>1, <2>2
<1>24. CASE Remove
  BY <1>24 DEF Remove, Goto, Dropped, Removable
<1>25. CASE Startup
  <2>1. UNCHANGED <<dir, journal, file, record>> /\ pc' \in {"remove", "to_rollback", "revert", "settle"}
    BY <1>25 DEF Startup
  <2>2. pc' = "revert" => at' = Len(Plan)
    BY <1>25 DEF Startup
  <2> QED
    BY <2>1, <2>2, PlanFacts
<1>26. CASE PrepareFails
  BY <1>26 DEF PrepareFails, Goto, Dropped, Preparing, PhaseInv
<1>27. CASE UNCHANGED vars
  BY <1>27 DEF vars
<1> QED
  BY <1>1, <1>2, <1>3, <1>4, <1>5, <1>6, <1>7, <1>8, <1>9, <1>10, <1>11, <1>12, <1>13, <1>14, <1>15, <1>16,
     <1>17, <1>18, <1>19, <1>20, <1>21, <1>22, <1>23, <1>24, <1>25, <1>26, <1>27 DEF Next, Prepare, Durable,
     Between, Finish, Environment

\* Every step keeps the temporaries where rollback looks for them.
LEMMA TempStep == ASSUME TypeOK, PhaseInv, PlaceInv, ReadyInv, FilesInv, TempInv, [Next]_vars PROVE TempInv'
<1> USE DEF TempInv, PhaseInv, disk, process, outside, budget
<1>1. CASE BeginPrepare \/ WriteMetadata \/ StageFiles \/ BackupFiles \/ Handoff \/ Smoke
  BY <1>1 DEF BeginPrepare, Goto, WriteMetadata, StageFiles, BackupFiles, Handoff, Smoke
<1>2. CASE Settle \/ Finalize \/ RemoveRefused \/ RestoreMcp \/ LaunchFails \/ RestoreMcpFails
  BY <1>2 DEF Settle, Finalize, Goto, RemoveRefused, RestoreMcp, LaunchFails, RestoreMcpFails
<1>3. CASE Crash \/ CrashRemoving
  BY <1>3 DEF Crash, Goto, CrashRemoving
<1>4. CASE RefuseTemp \/ RefuseFile \/ SmokeFails \/ ReplaceFails
  BY <1>4, ErroredFacts DEF RefuseTemp, RefuseFile, SmokeFails, ReplaceFails
<1>5. CASE PrepareTemp
  <2>1. InstallStep(Slot, Wanted) /\ Slot \in Slots
    BY <1>5, InstallMeaning, SlotIsSlot DEF PrepareTemp
  <2>2. UNCHANGED <<dir, journal, seq, file, record>>
    BY <1>5 DEF PrepareTemp
  <2>3. temp' = [temp EXCEPT ![Slot] = Wanted]
    BY <1>5 DEF PrepareTemp
  <2>4. ready' = TRUE /\ UNCHANGED <<pc, at>>
    BY <1>5 DEF PrepareTemp
  <2>5. dir # "none"
    BY <2>1, JournalStepFacts DEF InstallStep
  <2>6. CASE pc \in JournalSteps /\ Slot = <<"journal", seq + 1>>
    <3>1. seq + 1 \in 1 .. MaxSequence
      BY <2>6, JournalStepFacts DEF PlaceInv, StateRequiresRollback, MaxSequence
    <3> QED
      BY <2>1, <2>2, <2>3, <2>4, <2>5, <2>6, <3>1, JournalWritten, JournalStepFacts
  <2>7. CASE pc = "apply" /\ at \in Paths /\ Plan[at] # "remove" /\ Slot = <<"activate", at>>
    BY <2>1, <2>2, <2>3, <2>4, <2>5, <2>7, ActivateWritten
  <2>8. CASE /\ pc = "revert" /\ at \in Paths /\ Plan[at] # "add" /\ file[at] # OldContent(at)
             /\ Slot = <<"rollback", at>>
    BY <2>1, <2>2, <2>3, <2>4, <2>5, <2>8, RollbackWritten
  <2>9. CASE pc = "publish" /\ at \in Records /\ Slot = <<"publish", at>>
    BY <2>1, <2>2, <2>3, <2>4, <2>5, <2>9, PublishWritten
  <2>10. CASE pc = "restore" /\ at \in Records /\ record[at] # "old" /\ Slot = <<"restore", at>>
    BY <2>1, <2>2, <2>3, <2>4, <2>5, <2>10, RestoreWritten
  <2>11. \/ pc # "revert" \/ at \notin Paths \/ file[at] \notin {"absent", NewContent(at)} \/ Plan[at] = "add"
         \/ file[at] # OldContent(at)
    BY ContentFacts
  <2> QED
    BY <2>1, <2>6, <2>7, <2>8, <2>9, <2>10, <2>11 DEF InstallStep
<1>6. CASE ReplaceJournal
  <2>1. /\ pc \in JournalSteps /\ journal' = Target[pc] /\ ready' = FALSE /\ UNCHANGED <<dir, file, record>>
        /\ temp' = [temp EXCEPT ![<<"journal", seq + 1>>] = "none"] /\ dir # "none"
    BY <1>6, ReadySlot, GoOnFacts, JournalStepFacts DEF ReplaceJournal
  <2>2. seq + 1 \in 1 .. MaxSequence
    BY <1>6, JournalStepFacts DEF ReplaceJournal, PlaceInv, StateRequiresRollback, MaxSequence
  <2>3. /\ \A i \in Paths : temp'[<<"activate", i>>] = temp[<<"activate", i>>] /\ temp'[<<"rollback", i>>] = temp[<<"rollback", i>>]
        /\ \A k \in Records : temp'[<<"publish", k>>] = temp[<<"publish", k>>] /\ temp'[<<"restore", k>>] = temp[<<"restore", k>>]
    BY <2>1, <2>2, JournalWritten
  <2>4. pc = "to_rolled_back" => \A i \in Paths : temp[<<"rollback", i>>] = "none"
    BY DEF FilesInv, Reverted
  <2>5. pc = "to_rolled_back" => \A k \in Records : temp[<<"restore", k>>] = "none"
    BY DEF FilesInv, OldRecord
  <2> QED
    BY <1>6, <2>1, <2>3, <2>4, <2>5, GoOnFacts, JournalStepFacts, PlanFacts DEF ReplaceJournal, StateRequiresRollback
<1>7. CASE ReplaceFile
  <2>1. UNCHANGED <<dir, journal, record>> /\ ready' = FALSE
    BY <1>7, GoOnFacts DEF ReplaceFile
  <2>2. CASE pc = "apply" /\ at \in Paths
    <3>1. /\ pc' = "apply" /\ at' = at + 1 /\ Slot = <<"activate", at>>
          /\ temp' = [temp EXCEPT ![<<"activate", at>>] = "none"]
      BY <1>7, <2>2, ReadySlot, GoOnFacts DEF ReplaceFile
    <3>2. /\ \A i \in 1 .. MaxSequence : temp'[<<"journal", i>>] = temp[<<"journal", i>>]
          /\ \A i \in Paths : temp'[<<"activate", i>>] = IF i = at THEN "none" ELSE temp[<<"activate", i>>]
          /\ \A i \in Paths : temp'[<<"rollback", i>>] = temp[<<"rollback", i>>]
          /\ \A i \in Records : temp'[<<"publish", i>>] = temp[<<"publish", i>>]
          /\ \A i \in Records : temp'[<<"restore", i>>] = temp[<<"restore", i>>]
      BY ONLY TypeOK, <2>2, <3>1, ActivateWritten
    <3> QED
      BY <2>1, <2>2, <3>1, <3>2
  <2>3. CASE pc = "revert" /\ at \in Paths /\ ~Stale
    <3>1. /\ pc' = "revert" /\ at' = at - 1 /\ temp[<<"activate", at>>] = "none"
          /\ temp' = [temp EXCEPT ![<<"rollback", at>>] = "none"]
      BY <1>7, <2>3, ReadySlot, GoOnFacts DEF ReplaceFile, Stale
    <3>2. \A i \in Paths : i # at => file'[i] = file[i]
      BY <1>7 DEF ReplaceFile, TypeOK
    <3>3. /\ \A i \in 1 .. MaxSequence : temp'[<<"journal", i>>] = temp[<<"journal", i>>]
          /\ \A i \in Paths : temp'[<<"activate", i>>] = temp[<<"activate", i>>]
          /\ \A i \in Paths : temp'[<<"rollback", i>>] = IF i = at THEN "none" ELSE temp[<<"rollback", i>>]
          /\ \A i \in Records : temp'[<<"publish", i>>] = temp[<<"publish", i>>]
          /\ \A i \in Records : temp'[<<"restore", i>>] = temp[<<"restore", i>>]
      BY ONLY TypeOK, <2>3, <3>1, RollbackWritten
    <3> QED
      BY <2>1, <2>3, <3>1, <3>2, <3>3, PlanFacts
  <2> QED
    BY <1>7, <2>2, <2>3 DEF ReplaceFile, FileStep
<1>8. CASE ReplaceRecord
  <2>1. UNCHANGED <<dir, journal, file>> /\ ready' = FALSE /\ pc \in {"publish", "restore"} /\ at \in Records
        /\ pc' = pc /\ at' = at + 1 /\ \A k \in Records : k # at => record'[k] = record[k]
    BY <1>8, GoOnFacts DEF ReplaceRecord, RecordStep, TypeOK
  <2>2. CASE pc = "publish"
    <3>0. at \in Records
      BY <2>1
    <3>1. temp' = [temp EXCEPT ![<<"publish", at>>] = "none"]
      BY <1>8, <2>2, ReadySlot DEF ReplaceRecord
    <3>2. /\ \A i \in 1 .. MaxSequence : temp'[<<"journal", i>>] = temp[<<"journal", i>>]
          /\ \A i \in Paths : temp'[<<"activate", i>>] = temp[<<"activate", i>>]
          /\ \A i \in Paths : temp'[<<"rollback", i>>] = temp[<<"rollback", i>>]
          /\ \A i \in Records : temp'[<<"publish", i>>] = IF i = at THEN "none" ELSE temp[<<"publish", i>>]
          /\ \A i \in Records : temp'[<<"restore", i>>] = temp[<<"restore", i>>]
      BY ONLY TypeOK, <3>0, <3>1, PublishWritten
    <3> QED
      BY <2>1, <2>2, <3>1, <3>2
  <2>3. CASE pc = "restore"
    <3>0. at \in Records
      BY <2>1
    <3>1. temp' = [temp EXCEPT ![<<"restore", at>>] = "none"]
      BY <1>8, <2>3, ReadySlot DEF ReplaceRecord
    <3>3. temp[<<"publish", at>>] = "none"
      BY <1>8, <2>3 DEF ReplaceRecord, RecordStep, StaleRecord
    <3>2. /\ \A i \in 1 .. MaxSequence : temp'[<<"journal", i>>] = temp[<<"journal", i>>]
          /\ \A i \in Paths : temp'[<<"activate", i>>] = temp[<<"activate", i>>]
          /\ \A i \in Paths : temp'[<<"rollback", i>>] = temp[<<"rollback", i>>]
          /\ \A i \in Records : temp'[<<"publish", i>>] = temp[<<"publish", i>>]
          /\ \A i \in Records : temp'[<<"restore", i>>] = IF i = at THEN "none" ELSE temp[<<"restore", i>>]
      BY ONLY TypeOK, <3>0, <3>1, SlotFacts DEF TypeOK
    <3> QED
      BY <2>1, <2>3, <3>1, <3>2, <3>3 DEF Records
  <2> QED
    BY <2>1, <2>2, <2>3
<1>9. CASE DeleteFile
  <2>1. UNCHANGED <<dir, journal, temp, record>> /\ ready' = FALSE
    BY <1>9, GoOnFacts DEF DeleteFile
  <2>2. CASE pc = "apply" /\ at \in Paths /\ ActivateNeeds(at) = "delete"
    <3>1. pc' = "apply" /\ at' = at + 1 /\ Plan[at] = "remove"
      BY <1>9, <2>2, ActivateMeaning, GoOnFacts DEF DeleteFile
    <3> QED
      BY <2>1, <2>2, <3>1
  <2>3. CASE pc = "revert" /\ at \in Paths /\ ~Stale /\ RevertNeeds(at) = "delete"
    <3>1. /\ pc' = "revert" /\ at' = at - 1 /\ temp[<<"activate", at>>] = "none" /\ Plan[at] = "add"
          /\ \A i \in Paths : i # at => file'[i] = file[i]
      BY <1>9, <2>3, RevertMeaning, GoOnFacts DEF DeleteFile, Stale, TypeOK
    <3> QED
      BY <2>1, <2>3, <3>1, PlanFacts
  <2> QED
    BY <1>9, <2>2, <2>3 DEF DeleteFile, FileStep
<1>10. CASE SkipStep
  <2>1. UNCHANGED <<dir, journal, temp, file, record>> /\ ready' = FALSE
    BY <1>10, GoOnFacts DEF SkipStep
  <2>2. CASE pc = "apply" /\ at \in Paths /\ ActivateNeeds(at) = "skip"
    <3>1. pc' = "apply" /\ at' = at + 1 /\ ~ready
      BY <1>10, <2>2, ActivateMeaning, ContentFacts, GoOnFacts, JournalStepFacts DEF SkipStep, ReadyInv
    <3> QED
      BY <2>1, <2>2, <3>1
  <2>3. CASE pc = "revert" /\ at \in Paths /\ ~Stale /\ RevertNeeds(at) = "skip"
    <3>1. pc' = "revert" /\ at' = at - 1 /\ temp[<<"activate", at>>] = "none"
      BY <1>10, <2>3, GoOnFacts DEF SkipStep, Stale
    <3> QED
      BY <2>1, <2>3, <3>1, PlanFacts
  <2>4. CASE RecordStep /\ record[at] = WantedRecord
    <3>1. /\ pc \in {"publish", "restore"} /\ at \in Records /\ pc' = pc /\ at' = at + 1
          /\ (pc = "publish" => ~ready) /\ (pc = "restore" => temp[<<"publish", at>>] = "none")
      BY <1>10, <2>4, GoOnFacts, JournalStepFacts DEF SkipStep, RecordStep, StaleRecord, WantedRecord, ReadyInv
    <3> QED
      BY <2>1, <3>1 DEF Records
  <2> QED
    BY <1>10, <2>2, <2>3, <2>4 DEF SkipStep, FileStep
<1>11. CASE DropTemp
  <2>1. UNCHANGED <<dir, journal, file, record>>
    BY <1>11 DEF DropTemp
  <2>2. CASE UNCHANGED temp /\ Errored
    BY <2>1, <2>2, ErroredFacts
  <2>3. CASE Stale /\ temp' = [temp EXCEPT ![<<"activate", at>>] = "none"] /\ UNCHANGED process
    BY <2>1, <2>3, ActivateWritten DEF Stale
  <2>4. CASE StaleRecord /\ temp' = [temp EXCEPT ![<<"publish", at>>] = "none"] /\ UNCHANGED process
    BY <2>1, <2>4, PublishWritten DEF StaleRecord
  <2> QED
    BY <1>11, <2>2, <2>3, <2>4 DEF DropTemp, Stale, StaleRecord
<1>12. CASE FilesApplied
  <2>1. UNCHANGED <<dir, journal, file, record, temp>> /\ pc = "apply"
    BY <1>12 DEF FilesApplied, Goto
  <2>2. pc' \in {"to_activated", "to_rollback", "settle"}
    BY <1>12, ErroredFacts DEF FilesApplied, Goto
  <2>3. pc' = "to_activated" => \A i \in Paths : temp[<<"activate", i>>] = "none"
    <3>1. at \notin Paths
      BY <1>12, PlanFacts DEF FilesApplied, PlaceInv
    <3> QED
      BY <2>1, <3>1
  <2> QED
    BY <2>1, <2>2, <2>3
<1>13. CASE Published
  <2>1. UNCHANGED <<dir, journal, file, record, temp>> /\ pc = "publish"
    BY <1>13 DEF Published, Goto
  <2>2. pc' \in {"to_verified", "to_rollback", "settle"}
    BY <1>13, ErroredFacts DEF Published, Goto
  <2>3. pc' = "to_verified" => \A k \in Records : temp[<<"publish", k>>] = "none"
    BY <2>1, <1>13 DEF Published, Goto, Records
  <2> QED
    BY <2>1, <2>2, <2>3
<1>14. CASE FilesReverted
  BY <1>14, PlanFacts DEF FilesReverted, Records
<1>15. CASE RecordRestored
  <2>1. UNCHANGED <<dir, journal, file, record, temp>> /\ pc = "restore"
    BY <1>15 DEF RecordRestored, Goto
  <2>2. pc' \in {"to_rolled_back", "to_rollback", "settle"}
    BY <1>15, ErroredFacts DEF RecordRestored, Goto
  <2>3. pc' = "to_rolled_back" => \A k \in Records : temp[<<"publish", k>>] = "none"
    BY <2>1, <1>15 DEF RecordRestored, Goto, Records, PlaceInv
  <2> QED
    BY <2>1, <2>2, <2>3
<1>16. CASE Remove
  <2>1. dir' = "none" /\ journal' = "none" /\ pc' \in {"idle", "restore_mcp"}
    BY <1>16 DEF Remove, Goto, Dropped
  <2>2. \A s \in Slots : temp'[s] = IF s[1] = "journal" THEN "none" ELSE temp[s]
    BY <1>16 DEF Remove, Goto, Dropped
  <2>3. journal \in {"none", "planned", "prepared", "rolled_back", "committed"}
    BY <1>16 DEF Remove, Goto, Dropped, Removable
  <2>4. \A n \in 1 .. MaxSequence : temp'[<<"journal", n>>] = "none"
    BY <2>2, SlotFacts
  <2>5. /\ \A i \in Paths : temp'[<<"activate", i>>] = temp[<<"activate", i>>] /\ temp'[<<"rollback", i>>] = temp[<<"rollback", i>>]
        /\ \A k \in Records : temp'[<<"publish", k>>] = temp[<<"publish", k>>] /\ temp'[<<"restore", k>>] = temp[<<"restore", k>>]
    BY <2>2, SlotFacts
  <2> QED
    BY <2>1, <2>3, <2>4, <2>5
<1>17. CASE Startup
  <2>1. UNCHANGED <<dir, journal, file, record, temp>> /\ pc' \in {"remove", "to_rollback", "revert", "settle"}
    BY <1>17 DEF Startup
  <2>2. pc' = "revert" => at' = Len(Plan)
    BY <1>17 DEF Startup
  <2>3. dir # "none"
    BY <1>17 DEF Startup, Metadata
  <2> QED
    BY <2>1, <2>2, <2>3, PlanFacts
<1>18. CASE PrepareFails
  <2>1. dir' = "none" /\ journal' = "none" /\ pc' \in {"idle", "restore_mcp"}
    BY <1>18 DEF PrepareFails, Goto, Dropped, Preparing
  <2>2. \A s \in Slots : temp'[s] = IF s[1] = "journal" THEN "none" ELSE temp[s]
    BY <1>18 DEF PrepareFails, Goto, Dropped, Preparing
  <2>3. journal \in {"none", "planned", "prepared", "rolled_back", "committed"}
    BY <1>18 DEF PrepareFails, Goto, Dropped, Preparing, Removable
  <2>4. \A n \in 1 .. MaxSequence : temp'[<<"journal", n>>] = "none"
    BY <2>2, SlotFacts
  <2>5. /\ \A i \in Paths : temp'[<<"activate", i>>] = temp[<<"activate", i>>] /\ temp'[<<"rollback", i>>] = temp[<<"rollback", i>>]
        /\ \A k \in Records : temp'[<<"publish", k>>] = temp[<<"publish", k>>] /\ temp'[<<"restore", k>>] = temp[<<"restore", k>>]
    BY <2>2, SlotFacts
  <2> QED
    BY <2>1, <2>3, <2>4, <2>5
<1>19. CASE CrashWriting
  <2>1. InstallStep(Slot, Wanted) /\ Slot \in Slots
    BY <1>19, InstallMeaning, SlotIsSlot DEF CrashWriting, Goto
  <2>2. UNCHANGED <<dir, journal, seq, file, record>>
    BY <1>19 DEF CrashWriting, Goto
  <2>3. temp' = [temp EXCEPT ![Slot] = "partial"]
    BY <1>19 DEF CrashWriting, Goto
  <2>4. pc' = "idle"
    BY <1>19 DEF CrashWriting, Goto
  <2>5. dir # "none"
    BY <2>1, JournalStepFacts DEF InstallStep
  <2>6. CASE pc \in JournalSteps /\ Slot = <<"journal", seq + 1>>
    <3>1. seq + 1 \in 1 .. MaxSequence
      BY <2>6, JournalStepFacts DEF PlaceInv, StateRequiresRollback, MaxSequence
    <3> QED
      BY <2>1, <2>2, <2>3, <2>4, <2>5, <2>6, <3>1, JournalWritten, JournalStepFacts
  <2>7. CASE pc = "apply" /\ at \in Paths /\ Plan[at] # "remove" /\ Slot = <<"activate", at>>
    BY <2>1, <2>2, <2>3, <2>4, <2>5, <2>7, ActivateWritten
  <2>8. CASE /\ pc = "revert" /\ at \in Paths /\ Plan[at] # "add" /\ file[at] # OldContent(at)
             /\ Slot = <<"rollback", at>>
    BY <2>1, <2>2, <2>3, <2>4, <2>5, <2>8, RollbackWritten
  <2>9. CASE pc = "publish" /\ at \in Records /\ Slot = <<"publish", at>>
    BY <2>1, <2>2, <2>3, <2>4, <2>5, <2>9, PublishWritten
  <2>10. CASE pc = "restore" /\ at \in Records /\ record[at] # "old" /\ Slot = <<"restore", at>>
    BY <2>1, <2>2, <2>3, <2>4, <2>5, <2>10, RestoreWritten
  <2>11. \/ pc # "revert" \/ at \notin Paths \/ file[at] \notin {"absent", NewContent(at)} \/ Plan[at] = "add"
         \/ file[at] # OldContent(at)
    BY ContentFacts
  <2> QED
    BY <2>1, <2>6, <2>7, <2>8, <2>9, <2>10, <2>11 DEF InstallStep
<1>20. CASE WriteFails
  <2>1. InstallStep(Slot, Wanted) /\ Slot \in Slots
    BY <1>20, InstallMeaning, SlotIsSlot DEF WriteFails
  <2>2. UNCHANGED <<dir, journal, seq, file, record>>
    BY <1>20 DEF WriteFails
  <2>3. temp' = [temp EXCEPT ![Slot] = "partial"] \/ temp' = temp
    BY <1>20 DEF WriteFails
  <2>4. pc' \in {"to_rollback", "settle"}
    BY <1>20, ErroredFacts DEF WriteFails
  <2>5. dir # "none"
    BY <2>1, JournalStepFacts DEF InstallStep
  <2>6. CASE pc \in JournalSteps /\ Slot = <<"journal", seq + 1>>
    <3>1. seq + 1 \in 1 .. MaxSequence
      BY <2>6, JournalStepFacts DEF PlaceInv, StateRequiresRollback, MaxSequence
    <3> QED
      BY <2>1, <2>2, <2>3, <2>4, <2>5, <2>6, <3>1, JournalWritten, JournalStepFacts
  <2>7. CASE pc = "apply" /\ at \in Paths /\ Plan[at] # "remove" /\ Slot = <<"activate", at>>
    BY <2>1, <2>2, <2>3, <2>4, <2>5, <2>7, ActivateWritten
  <2>8. CASE /\ pc = "revert" /\ at \in Paths /\ Plan[at] # "add" /\ file[at] # OldContent(at)
             /\ Slot = <<"rollback", at>>
    BY <2>1, <2>2, <2>3, <2>4, <2>5, <2>8, RollbackWritten
  <2>9. CASE pc = "publish" /\ at \in Records /\ Slot = <<"publish", at>>
    BY <2>1, <2>2, <2>3, <2>4, <2>5, <2>9, PublishWritten
  <2>10. CASE pc = "restore" /\ at \in Records /\ record[at] # "old" /\ Slot = <<"restore", at>>
    BY <2>1, <2>2, <2>3, <2>4, <2>5, <2>10, RestoreWritten
  <2>11. \/ pc # "revert" \/ at \notin Paths \/ file[at] \notin {"absent", NewContent(at)} \/ Plan[at] = "add"
         \/ file[at] # OldContent(at)
    BY ContentFacts
  <2> QED
    BY <2>1, <2>6, <2>7, <2>8, <2>9, <2>10, <2>11 DEF InstallStep
<1>21. CASE Foreign
  <2>1. \A i \in Paths : file'[i] \in {file[i], "foreign"}
    BY <1>21 DEF Foreign, TypeOK
  <2> QED
    BY <1>21, <2>1, ContentFacts DEF Foreign
<1>22. CASE UNCHANGED vars
  BY <1>22 DEF vars
<1> QED
  BY <1>1, <1>2, <1>3, <1>4, <1>5, <1>6, <1>7, <1>8, <1>9, <1>10, <1>11, <1>12, <1>13, <1>14, <1>15, <1>16,
     <1>17, <1>18, <1>19, <1>20, <1>21, <1>22 DEF Next, Prepare, Durable, Between, Finish, Environment

\* The invariant holds before the first update.
LEMMA TransactionInvInit == ASSUME Init PROVE TransactionInv
<1>1. TypeOK
  <2>1. DiskTypes
    <3>1. file \in [Paths -> Contents]
      BY ContentFacts DEF Init, Contents
    <3>2. temp \in [Slots -> {"none", "partial", "old", "new"} \cup JournalStates]
      BY DEF Init
    <3>3. 0 \in 0 .. MaxSequence
      BY DEF MaxSequence
    <3> QED
      BY <3>1, <3>2, <3>3 DEF Init, DiskTypes
  <2>2. ProcessTypes
    BY ProcessNames, McpAssumption DEF Init, ProcessTypes
  <2>3. PositionType /\ BudgetTypes
    BY PlanFacts, BoundFacts DEF Init, PositionType, BudgetTypes
  <2> QED
    BY <2>1, <2>2, <2>3, TypeParts
<1>2. PhaseInv /\ PlaceInv /\ ReadyInv
  BY DEF Init, PhaseInv, PlaceInv, ReadyInv
<1>3. FilesInv
  BY DEF Init, FilesInv, LooksOld
<1>4. TempInv
  BY SlotFacts DEF Init, TempInv
<1> QED
  BY <1>1, <1>2, <1>3, <1>4 DEF TransactionInv

\* The invariant is inductive.
LEMMA TransactionInvStep == ASSUME TransactionInv, [Next]_vars PROVE TransactionInv'
<1>1. DiskTypes /\ ProcessTypes /\ PositionType /\ BudgetTypes
  BY TypeParts DEF TransactionInv
<1>2. (DiskTypes /\ ProcessTypes /\ PositionType /\ BudgetTypes)'
  BY <1>1, DiskStep, ProcessStep, PositionStep, BudgetStep DEF TransactionInv
<1>3. TypeOK'
  <2>1. {stage, backup, ready, mcp}' \subseteq BOOLEAN
    BY <1>2 DEF DiskTypes, ProcessTypes
  <2> QED
    BY <1>2, <2>1 DEF TypeOK, DiskTypes, ProcessTypes, PositionType, BudgetTypes
<1> QED
  BY <1>3, PhaseStep, PlaceStep, ReadyStep, FilesStep, TempStep DEF TransactionInv

\* The invariant holds throughout.
LEMMA TransactionInvHolds == Spec => []TransactionInv
<1>1. Init => TransactionInv
  BY TransactionInvInit
<1>2. TransactionInv /\ [Next]_vars => TransactionInv'
  BY TransactionInvStep
<1> QED
  BY <1>1, <1>2, PTL DEF Spec

-----------------------------------------------------------------------------
(* The theorems.                                                           *)

\* Whatever is interrupted where, the journal on disk tells the truth about the
\* installation, no temporary file outlives the transaction, and no managed file
\* is ever the partial content of a write.
THEOREM JournalTruthful == Spec => [](TypeOK /\ AllOrNothing)
<1>1. TransactionInv => TypeOK /\ AllOrNothing
  <2> SUFFICES ASSUME TransactionInv PROVE AllOrNothing
    BY DEF TransactionInv
  <2>1. ASSUME dir = "none", NEW s \in Slots PROVE temp[s] = "none"
    BY <2>1, SlotCases DEF TransactionInv, PhaseInv, TempInv
  <2> QED
    BY <2>1 DEF AllOrNothing, TransactionInv, FilesInv
<1> QED
  BY <1>1, TransactionInvHolds, PTL

\* A file of somebody else is neither overwritten nor deleted.
THEOREM ForeignSafe == Spec => ForeignKept
<1> DEFINE Kept == \A i \in Paths : file[i] = "foreign" => file'[i] = "foreign"
<1>1. TransactionInv /\ [Next]_vars => [Kept]_vars
  <2> SUFFICES ASSUME TransactionInv, Next, NEW i \in Paths, file[i] = "foreign" PROVE file'[i] = "foreign"
    BY DEF Kept
  <2>1. CASE ReplaceFile
    <3>1. at \in Paths /\ file' = [file EXCEPT ![at] = temp[Slot]]
      BY <2>1 DEF ReplaceFile, FileStep
    <3>2. file[at] # "foreign"
      BY <2>1, ActivateMeaning, RevertMeaning, ContentFacts DEF ReplaceFile, FileStep
    <3> QED
      BY <3>1, <3>2 DEF TransactionInv, TypeOK
  <2>2. CASE DeleteFile
    <3>1. at \in Paths /\ file' = [file EXCEPT ![at] = "absent"]
      BY <2>2 DEF DeleteFile, FileStep
    <3>2. file[at] # "foreign"
      BY <2>2, ActivateMeaning, RevertMeaning, ContentFacts DEF DeleteFile, FileStep
    <3> QED
      BY <3>1, <3>2 DEF TransactionInv, TypeOK
  <2>3. CASE Foreign
    BY <2>3 DEF Foreign, TransactionInv, TypeOK
  <2>4. CASE UNCHANGED file
    BY <2>4
  <2> QED
    BY <2>1, <2>2, <2>3, <2>4 DEF Next, Prepare, Durable, Between, Finish, Environment, disk, BeginPrepare,
       WriteMetadata, StageFiles, BackupFiles, PrepareTemp, RefuseTemp, ReplaceJournal, ReplaceRecord, SkipStep,
       RefuseFile, DropTemp, Handoff, FilesApplied, Published, Smoke, FilesReverted, RecordRestored, Settle,
       Finalize, Remove, RemoveRefused, RestoreMcp, Startup, PrepareFails, LaunchFails, SmokeFails,
       RestoreMcpFails, Crash, CrashWriting, CrashRemoving, WriteFails, ReplaceFails, Dropped
<1> QED
  BY <1>1, TransactionInvHolds, PTL DEF ForeignKept, Spec

\* Where a pending transaction stays pending and undecided, or decided, the
\* installation moves only within what the abstract specification allows.
LEMMA PendingMoves ==
  ASSUME PhaseInv, PhaseInv', dir # "none", dir' # "none", journal' = "committed" <=> journal = "committed"
  PROVE  Install!Mutate
BY DEF Install!Mutate, Install!Releases, PhaseInv

\* A transaction is dropped only where the files show what was decided.
LEMMA DroppedCloses ==
  ASSUME TransactionInv, dir # "none", Dropped,
         journal \in {"none", "planned", "prepared", "rolled_back", "committed"}
  PROVE  Install!Close
<1>1. dir' = "none" /\ journal' = "none" /\ UNCHANGED <<file, record>>
  BY DEF Dropped
<1>2. CASE journal = "committed"
  <2>1. LooksNew /\ ~LooksOld
    BY <1>2 DEF TransactionInv, FilesInv, LooksNew, LooksOld, Records
  <2> QED
    BY <1>1, <1>2, <2>1 DEF Install!Close, LooksNew, LooksOld
<1>3. CASE journal # "committed"
  <2>1. LooksOld /\ record # [k \in Records |-> "new"]
    BY <1>3 DEF TransactionInv, PhaseInv, FilesInv, LooksNew, LooksOld, Records
  <2> QED
    BY <1>1, <1>3, <2>1 DEF Install!Close, LooksNew, LooksOld
<1> QED
  BY <1>2, <1>3

\* The update transaction implements the atomic installation: the release
\* changes at the one rename that makes the journal say committed.
THEOREM TransactionAtomic == Spec => ImplementsAtomicInstall
<1>1. Init => Install!InstallInit
  BY DEF Init, Install!InstallInit, LooksOld, Records
<1>2. TransactionInv /\ TransactionInv' /\ [Next]_vars => [Install!InstallNext]_Install!installVars
  <2> SUFFICES ASSUME TransactionInv, TransactionInv', [Next]_vars
               PROVE  Install!InstallNext \/ UNCHANGED Install!installVars
    OBVIOUS
  <2> PhaseInv /\ PhaseInv' /\ FilesInv
    BY DEF TransactionInv
  <2> USE DEF disk, process, outside, budget
  <2>1. CASE UNCHANGED <<dir, journal, file, record>>
    BY <2>1 DEF Install!installVars, LooksOld, LooksNew
  <2>2. CASE BeginPrepare
    <3>1. /\ dir = "none" /\ dir' # "none" /\ journal # "committed" /\ UNCHANGED <<journal, file, record>>
          /\ record # [k \in Records |-> "new"]
      BY <2>2 DEF BeginPrepare, VerifyActiveOld, PhaseInv, Records
    <3> QED
      BY <3>1 DEF Install!InstallNext, Install!Open, LooksOld, LooksNew
  <2>3. CASE PrepareFails
    BY <2>3, DroppedCloses DEF PrepareFails, Preparing, PhaseInv, Install!InstallNext
  <2>4. CASE Remove
    BY <2>4, DroppedCloses DEF Remove, Removable, Metadata, Install!InstallNext
  <2>5. CASE ReplaceJournal /\ pc = "to_committed"
    <3>1. journal' = "committed" /\ journal # "committed" /\ dir # "none" /\ UNCHANGED <<dir, file, record>>
      BY <2>5, JournalStepFacts DEF ReplaceJournal, PhaseInv
    <3>2. record = [k \in Records |-> "new"] /\ LooksNew /\ ~LooksOld
      BY <2>5 DEF FilesInv, NewRecord, LooksNew, LooksOld, Records
    <3> QED
      BY <3>1, <3>2 DEF Install!InstallNext, Install!Commit, LooksOld, LooksNew
  <2>6. CASE ReplaceJournal /\ pc # "to_committed"
    BY <2>6, PendingMoves, JournalStepFacts DEF ReplaceJournal, PhaseInv, StateRequiresRollback, Install!InstallNext
  <2>7. CASE WriteMetadata
    BY <2>7, PendingMoves DEF WriteMetadata, PhaseInv, Install!InstallNext
  <2>8. CASE ReplaceFile \/ DeleteFile
    BY <2>8, PendingMoves DEF ReplaceFile, DeleteFile, FileStep, PhaseInv, Install!InstallNext
  <2>9. CASE ReplaceRecord
    BY <2>9, PendingMoves DEF ReplaceRecord, RecordStep, PhaseInv, Install!InstallNext
  <2>10. CASE CrashRemoving
    BY <2>10, PendingMoves DEF CrashRemoving, Removable, Metadata, PhaseInv, Install!InstallNext
  <2>11. CASE Foreign
    <3>1. UNCHANGED <<dir, journal, record>> /\ \A i \in Paths : file'[i] \in {file[i], "foreign"}
      BY <2>11 DEF Foreign, TransactionInv, TypeOK
    <3>2. CASE dir # "none"
      BY <3>1, <3>2, PendingMoves DEF Install!InstallNext
    <3>3. CASE dir = "none"
      <4>1. LooksOld \/ LooksNew
        BY <3>3 DEF PhaseInv, FilesInv
      <4>2. LooksOld' <=> LooksOld
        BY <3>1, <4>1 DEF LooksOld, LooksNew, Records
      <4>3. LooksNew' <=> LooksNew
        BY <3>1, <4>1 DEF LooksOld, LooksNew, Records
      <4> QED
        BY <3>1, <4>2, <4>3 DEF Install!installVars
    <3> QED
      BY <3>2, <3>3
  <2>12. CASE UNCHANGED vars
    BY <2>1, <2>12 DEF vars
  <2>13. CASE StageFiles \/ BackupFiles \/ PrepareTemp \/ RefuseTemp \/ SkipStep \/ RefuseFile \/ DropTemp
           \/ Handoff \/ FilesApplied \/ Published \/ Smoke \/ FilesReverted \/ RecordRestored \/ Settle
           \/ Finalize \/ RemoveRefused \/ RestoreMcp \/ Startup \/ LaunchFails \/ SmokeFails \/ RestoreMcpFails
           \/ Crash \/ CrashWriting \/ WriteFails \/ ReplaceFails
    BY <2>1, <2>13 DEF StageFiles, BackupFiles, PrepareTemp, RefuseTemp, SkipStep, RefuseFile, DropTemp, Handoff,
       FilesApplied, Published, Smoke, FilesReverted, RecordRestored, Settle, Finalize, RemoveRefused, RestoreMcp,
       Startup, LaunchFails, SmokeFails, RestoreMcpFails, Crash, CrashWriting, WriteFails, ReplaceFails
  <2> QED
    BY <2>2, <2>3, <2>4, <2>5, <2>6, <2>7, <2>8, <2>9, <2>10, <2>11, <2>12, <2>13 DEF Next, Prepare, Durable,
       Between, Finish, Environment
<1> QED
  BY <1>1, <1>2, TransactionInvHolds, PTL DEF Spec, ImplementsAtomicInstall, Install!InstallSpec
==============================================================================
