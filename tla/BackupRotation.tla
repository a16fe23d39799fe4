--------------------------- MODULE BackupRotation ---------------------------
(***************************************************************************)
(* The one permanent backup of an installation                             *)
(* (ah_update_helper::apply::backup).  A committed upgrade promotes the    *)
(* files it replaced, a committed rollback consumes the backup it used,    *)
(* and both are finished by finalize_completed_transaction, which is run   *)
(* again by the next recovery when the process dies in it.  Directories    *)
(* are moved by rename and removed file by file.                           *)
(***************************************************************************)
EXTENDS Naturals

CONSTANTS
    MaxRelease,         \* releases are 1 .. MaxRelease
    MaxDeaths,          \* how often a finalizing process dies
    MaxRenameFailures,  \* how often the publishing rename fails
    ConsumeCrash        \* a death may strike while the used backup is removed

VARIABLES
    rel,        \* the installed release
    before,     \* the release the pending transaction replaced
    pending,    \* the committed transaction: "none", "upgrade" or "rollback"
    active, staged, previous,   \* <id>, <id>.new and <id>.old
    target,     \* the release a rollback should find, 0 if none
    step,       \* where finalization is
    deaths, renames

backupVars == <<rel, before, pending, active, staged, previous, target, step, deaths, renames>>

Absent == [release |-> 0, whole |-> FALSE]
Whole(r) == [release |-> r, whole |-> TRUE]
Partial(d) == [release |-> d.release, whole |-> FALSE]
Exists(d) == d # Absent

\* load_permanent_backup_at: identity, record and every file verified.
Loads(d) == d.whole
\* permanent_backup_matches: the old manifest of the committed transaction.
Matches(d) == d = Whole(before)

BackupInit ==
    /\ rel = 1 /\ before = 1 /\ pending = "none" /\ target = 0
    /\ active = Absent /\ staged = Absent /\ previous = Absent
    /\ step = "idle" /\ deaths = 0 /\ renames = 0

At(s) == step = s
To(s) == step' = s

-----------------------------------------------------------------------------
(* Transactions that commit, and the start of their finalization.          *)

CommitUpgrade ==
    /\ pending = "none" /\ rel < MaxRelease
    /\ before' = rel /\ rel' = rel + 1 /\ pending' = "upgrade" /\ target' = rel
    /\ UNCHANGED <<active, staged, previous, step, deaths, renames>>

\* execute_rollback needs a backup that loads and is older than the installed one.
CommitRollback ==
    /\ pending = "none" /\ Exists(active) /\ Loads(active) /\ active.release < rel
    /\ before' = rel /\ rel' = active.release /\ pending' = "rollback" /\ target' = 0
    /\ UNCHANGED <<active, staged, previous, step, deaths, renames>>

FinalizeBegin ==
    /\ At("idle") /\ pending # "none"
    /\ To(IF pending = "upgrade" THEN "promote" ELSE "consume")
    /\ UNCHANGED <<rel, before, pending, active, staged, previous, target, deaths, renames>>

\* remove_completed_transaction ends the transaction.
Finalized ==
    /\ At("finalized") /\ pending' = "none" /\ To("idle")
    /\ UNCHANGED <<rel, before, active, staged, previous, target, deaths, renames>>

-----------------------------------------------------------------------------
(* promote_permanent_backup.                                               *)

\* How an attempt that has not published the backup goes on.
Resumption ==
    IF \/ Exists(active) /\ ~Loads(active)
       \/ Exists(previous) /\ (Exists(active) \/ ~Exists(staged))
    THEN "error"
    ELSE IF Exists(previous) THEN "complete" ELSE "stage"

\* Mutant: a promotion that was already published leaves the remains of the rotation.
PromoteLeavesRemains ==
    /\ At("promote")
    /\ To(IF Matches(active) THEN "finalized" ELSE Resumption)
    /\ UNCHANGED <<rel, before, pending, active, staged, previous, target, deaths, renames>>

\* What the directories say about an earlier attempt.
Promote ==
    /\ At("promote")
    /\ To(IF Matches(active) THEN "clean_staged" ELSE Resumption)
    /\ UNCHANGED <<rel, before, pending, active, staged, previous, target, deaths, renames>>

\* remove_known_directory, in the two steps a death can separate.
RemoveTree(s, d, dNew, next) ==
    /\ At(s)
    /\ \/ d.whole /\ dNew = Partial(d) /\ UNCHANGED step
       \/ ~d.whole /\ dNew = Absent /\ To(next)

CleanStaged ==
    /\ RemoveTree("clean_staged", staged, staged', "clean_previous")
    /\ UNCHANGED <<rel, before, pending, active, previous, target, deaths, renames>>

CleanPrevious ==
    /\ RemoveTree("clean_previous", previous, previous', "finalized")
    /\ UNCHANGED <<rel, before, pending, active, staged, target, deaths, renames>>

\* The rename that an earlier attempt did not reach.
CompleteRotation ==
    /\ At("complete") /\ active' = staged /\ staged' = Absent /\ To("drop_previous")
    /\ UNCHANGED <<rel, before, pending, previous, target, deaths, renames>>

DropPrevious ==
    /\ RemoveTree("drop_previous", previous, previous', "verify")
    /\ UNCHANGED <<rel, before, pending, active, staged, target, deaths, renames>>

\* verify_promoted_backup.
VerifyPromoted ==
    /\ At("verify") /\ To(IF Matches(active) THEN "finalized" ELSE "error")
    /\ UNCHANGED <<rel, before, pending, active, staged, previous, target, deaths, renames>>

\* Mutant: any stage that exists is taken for a finished one.
StageDecideKeepsAny ==
    /\ At("stage") /\ To(IF Exists(staged) THEN "set_aside" ELSE "fill")
    /\ UNCHANGED <<rel, before, pending, active, staged, previous, target, deaths, renames>>

\* prepare_permanent_backup_stage: a stage that matches is kept, any other removed.
StageDecide ==
    /\ At("stage") /\ To(CASE Matches(staged) -> "set_aside" [] staged = Absent -> "fill" [] OTHER -> "unstage")
    /\ UNCHANGED <<rel, before, pending, active, staged, previous, target, deaths, renames>>

Unstage ==
    /\ RemoveTree("unstage", staged, staged', "fill")
    /\ UNCHANGED <<rel, before, pending, active, previous, target, deaths, renames>>

Fill ==
    /\ At("fill")
    /\ IF staged = Absent
         THEN staged' = Partial(Whole(before)) /\ UNCHANGED step
         ELSE staged' = Whole(before) /\ To("set_aside")
    /\ UNCHANGED <<rel, before, pending, active, previous, target, deaths, renames>>

\* The previous backup must load before it is moved out of the way.
SetAside ==
    /\ At("set_aside")
    /\ \/ ~Exists(active) /\ To("publish") /\ UNCHANGED <<active, previous>>
       \/ Exists(active) /\ ~Loads(active) /\ To("error") /\ UNCHANGED <<active, previous>>
       \/ Loads(active) /\ previous' = active /\ active' = Absent /\ To("publish")
    /\ UNCHANGED <<rel, before, pending, staged, target, deaths, renames>>

PublishBackup ==
    /\ At("publish") /\ active' = staged /\ staged' = Absent
    /\ To("verify_previous")
    /\ UNCHANGED <<rel, before, pending, previous, target, deaths, renames>>

\* The rename fails: the previous backup goes back, or stays where the next
\* attempt finds it.
PublishFails ==
    /\ At("publish") /\ renames < MaxRenameFailures /\ renames' = renames + 1
    /\ To("error")
    /\ \/ Exists(previous) /\ active' = previous /\ previous' = Absent
       \/ UNCHANGED <<active, previous>>
    /\ UNCHANGED <<rel, before, pending, staged, target, deaths>>

VerifyThenDrop ==
    /\ At("verify_previous") /\ To(IF Matches(active) THEN "clean_previous" ELSE "error")
    /\ UNCHANGED <<rel, before, pending, active, staged, previous, target, deaths, renames>>

-----------------------------------------------------------------------------
(* remove_permanent_backup.                                                *)

Consume ==
    /\ At("consume")
    /\ To(CASE ~Exists(active) -> "finalized"
            [] active = Whole(rel) -> "consuming"
            [] OTHER -> "error")
    /\ UNCHANGED <<rel, before, pending, active, staged, previous, target, deaths, renames>>

Consuming ==
    /\ RemoveTree("consuming", active, active', "finalized")
    /\ UNCHANGED <<rel, before, pending, staged, previous, target, deaths, renames>>

\* An error is reported; the next recovery finalizes again.
Report ==
    /\ At("error") /\ To("idle")
    /\ UNCHANGED <<rel, before, pending, active, staged, previous, target, deaths, renames>>

Death ==
    /\ ~At("idle") /\ deaths < MaxDeaths /\ deaths' = deaths + 1 /\ To("idle")
    /\ At("consuming") => ConsumeCrash
    /\ UNCHANGED <<rel, before, pending, active, staged, previous, target, renames>>

Finalization ==
    \/ FinalizeBegin \/ Finalized \/ Promote \/ CleanStaged \/ CleanPrevious \/ CompleteRotation
    \/ DropPrevious \/ VerifyPromoted \/ StageDecide \/ Unstage \/ Fill \/ SetAside
    \/ PublishBackup \/ VerifyThenDrop \/ Consume \/ Consuming \/ Report

BackupNext == CommitUpgrade \/ CommitRollback \/ Finalization \/ PublishFails \/ Death

\* Recovery is run by every later `ah`, so finalization is tried again and again.
BackupSpec == BackupInit /\ [][BackupNext]_backupVars /\ WF_backupVars(Finalization)

-----------------------------------------------------------------------------
(* Properties.                                                             *)

\* With nothing pending the backup is exactly the release before the last
\* upgrade; while a promotion is under way a whole backup exists somewhere, of
\* that release or of the one it replaces.
Candidates == {active, staged, previous}
RollbackTargetKept ==
    /\ pending = "none" => /\ active = (IF target = 0 THEN Absent ELSE Whole(target))
                           /\ staged = Absent /\ previous = Absent
    /\ pending = "upgrade" /\ (\E d \in Candidates : Exists(d) /\ d.release < before)
         => \E d \in Candidates : d.whole

\* Whatever interrupts it, a committed transaction is finalized in the end.
FinalizationCompletes == (pending # "none") ~> (pending = "none")
=============================================================================
