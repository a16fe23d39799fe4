-------------------------- MODULE UpdatePathProofs --------------------------
(***************************************************************************)
(* Proofs about the update path: the quiescence of the installation's      *)
(* processes, the rotation of the permanent backup, the discovery of a     *)
(* release and what becomes of its artifacts.                              *)
(***************************************************************************)
EXTENDS MCUpdatePath, SequenceTheorems, TLAPS

-----------------------------------------------------------------------------
(* Quiescence.  A process id is reused, but a start time is not: what the  *)
(* helper knows of a process is a pair of both, and stays true of that     *)
(* pair whatever process has the id later.                                 *)

Process == [start : Nat, image : Images, holds : BOOLEAN, dying : BOOLEAN]

\* An identity some observation may hold: of a process started by now.
Known == Pids \X (1 .. births)

\* Every process was started by now; what was classified as this
\* installation's still is, if it is still there at all; and only what was
\* so classified is waiting to be terminated.
QuietInv ==
    /\ births \in Nat
    /\ running \in [Pids -> Process]
    /\ \A p \in Pids : running[p].start <= births
    /\ listed \subseteq Known /\ todo \subseteq Known /\ own \subseteq Known
    /\ \A id \in own : running[id[1]].start = id[2] => running[id[1]].image = "own"
    /\ quietAt = "terminate" => todo \subseteq own
    /\ KillsOnlyOwn

\* The invariant holds when the quiescence begins.
LEMMA QuietInitInv == QuietInit => QuietInv
  BY DEF QuietInit, QuietInv, Process, Known, Nobody, Images, KillsOnlyOwn

\* The system's own steps: a birth takes a start time no identity holds.
LEMMA SystemInv == QuietInv /\ System => QuietInv'
<1> SUFFICES ASSUME QuietInv, System PROVE QuietInv'
  OBVIOUS
<1>1. CASE GraceOver
  BY <1>1 DEF GraceOver, QuietInv, Known, KillsOnlyOwn
<1>2. ASSUME NEW p \in Pids, Born(p) PROVE QuietInv'
  <2>1. PICK i \in Images, h \in BOOLEAN :
          running' = [running EXCEPT ![p] = [start |-> births + 1, image |-> i, holds |-> h, dying |-> FALSE]]
    BY <1>2 DEF Born
  <2>2. births' = births + 1 /\ births \in Nat
    BY <1>2 DEF Born, QuietInv
  <2>3. running' \in [Pids -> Process] /\ \A q \in Pids : running'[q].start <= births'
    BY <2>1, <2>2 DEF QuietInv, Process
  <2>4. Known \subseteq Known'
    BY <2>2 DEF Known
  <2>5. \A id \in own : running'[id[1]].start = id[2] => running'[id[1]].image = "own"
    BY <2>1, <2>2 DEF QuietInv, Known, Process
  <2> QED
    BY <1>2, <2>2, <2>3, <2>4, <2>5 DEF Born, QuietInv, KillsOnlyOwn
<1>3. ASSUME NEW p \in Pids, Ends(p) PROVE QuietInv'
  <2>1. running' \in [Pids -> Process] /\ \A q \in Pids : running'[q].start <= births
    BY <1>3 DEF Ends, QuietInv, Process, Nobody, Images
  <2>2. \A id \in own : running'[id[1]].start = id[2] => running'[id[1]].image = "own"
    BY <1>3 DEF Ends, QuietInv, Nobody, Known, Process
  <2> QED
    BY <1>3, <2>1, <2>2 DEF Ends, QuietInv, Known, KillsOnlyOwn
<1> QED
  BY <1>1, <1>2, <1>3 DEF System

\* A step of the helper keeps the invariant.
LEMMA HelperInv == QuietInv /\ HelperMoves => QuietInv'
<1> SUFFICES ASSUME QuietInv, HelperMoves PROVE QuietInv'
  OBVIOUS
<1>1. CASE StartSession \/ SessionRetry \/ SessionFails \/ MoreData \/ ChangedTooOften \/ Reject \/ InspectAgain
  BY <1>1 DEF StartSession, SessionRetry, SessionFails, MoreData, ChangedTooOften, Reject, InspectAgain,
              QuietInv, Known, KillsOnlyOwn
<1>2. CASE Complete
  <2>1. listed' \subseteq Known'
    BY <1>2 DEF Complete, Identity, Blockers, Alive, Known, QuietInv, Process
  <2> QED
    BY <1>2, <2>1 DEF Complete, QuietInv, KillsOnlyOwn, Known
<1>3. CASE Classified
  BY <1>3 DEF Classified, QuietInv, Known, KillsOnlyOwn
<1>4. ASSUME NEW id \in todo, Classify(id) PROVE QuietInv'
  BY <1>4 DEF Classify, Inspect, QuietInv, Known, KillsOnlyOwn
<1>5. ASSUME NEW id \in todo, Terminate(id) PROVE QuietInv'
  <2>1. id \in own /\ id[1] \in Pids
    BY <1>5 DEF Terminate, QuietInv, Known
  <2>2. KillsOnlyOwn'
    BY <1>5, <2>1 DEF Terminate, QuietInv, KillsOnlyOwn
  <2>3. /\ running' \in [Pids -> Process]
        /\ \A q \in Pids : running'[q].start = running[q].start /\ running'[q].image = running[q].image
    BY <1>5, <2>1 DEF Terminate, QuietInv, Process
  <2> QED
    BY <1>5, <2>1, <2>2, <2>3 DEF Terminate, QuietInv, Known
<1>6. ASSUME NEW id \in todo, TerminateFails(id) PROVE QuietInv'
  BY <1>6 DEF TerminateFails, QuietInv, Known, KillsOnlyOwn
<1> QED
  BY <1>1, <1>2, <1>3, <1>4, <1>5, <1>6 DEF HelperMoves

\* quiesce_transaction_blockers terminates processes of this installation
\* only, for every number of process ids, however ids are reused between the
\* listing, the classification and the kill.
THEOREM OnlyOwnKilled == QuietSpec => []KillsOnlyOwn
<1>1. QuietInv /\ [QuietNext]_quietVars => QuietInv'
  <2>1. QuietInv /\ UNCHANGED quietVars => QuietInv'
    BY DEF quietVars, QuietInv, Known, KillsOnlyOwn
  <2> QED
    BY <2>1, SystemInv, HelperInv DEF QuietNext
<1>2. QuietInv => KillsOnlyOwn
  BY DEF QuietInv
<1> QED
  BY QuietInitInv, <1>1, <1>2, PTL DEF QuietSpec

-----------------------------------------------------------------------------
(* The permanent backup.  While a committed upgrade is finalized the three *)
(* directories are in one of three shapes, and a process that dies in any  *)
(* step leaves one of them to the next recovery.                           *)

Older(d) == \E r \in Nat \ {0} : r < before /\ d = Whole(r)

\* Nothing has moved yet: the old backup, if any, is where it was, and the
\* stage is missing, half written or whole.
ShapeStaging ==
    /\ active = Absent \/ Older(active)
    /\ staged \in {Absent, Partial(Whole(before)), Whole(before)}
    /\ previous = Absent

\* The old backup is out of the way, the new one not yet in its place.
ShapeAside == active = Absent /\ staged = Whole(before) /\ Older(previous)

\* The new backup is published; of the old one something may remain.
ShapePublished ==
    /\ active = Whole(before) /\ staged = Absent
    /\ previous = Absent \/ \E r \in Nat \ {0} : previous \in {Whole(r), Partial(Whole(r))}

\* What each step of the finalization of an upgrade may rely on.
PromotionAt ==
    /\ step \in {"idle", "promote", "error", "clean_staged", "clean_previous", "complete", "drop_previous",
                  "verify", "verify_previous", "stage", "unstage", "fill", "set_aside", "publish", "finalized"}
    /\ step \in {"idle", "promote", "error"} => ShapeStaging \/ ShapeAside \/ ShapePublished
    /\ step \in {"clean_staged", "clean_previous", "drop_previous", "verify", "verify_previous", "finalized"}
         => ShapePublished
    /\ step \in {"verify", "finalized"} => previous = Absent
    /\ step = "complete" => ShapeAside
    /\ step \in {"stage", "unstage", "fill", "set_aside"} => ShapeStaging
    /\ step = "set_aside" => staged = Whole(before)
    /\ step = "publish" => ShapeAside \/ (ShapeStaging /\ active = Absent /\ staged = Whole(before))

\* The backup a committed rollback has used is removed and nothing else.
ConsumptionAt ==
    /\ step \in {"idle", "consume", "consuming", "finalized", "error"}
    /\ active \in {Absent, Whole(rel), Partial(Whole(rel))}
    /\ step = "finalized" => active = Absent
    /\ staged = Absent /\ previous = Absent

BackupInv ==
    /\ rel \in Nat \ {0} /\ before \in Nat \ {0} /\ target \in Nat
    /\ pending \in {"none", "upgrade", "rollback"}
    /\ pending = "none" =>
         /\ step = "idle" /\ target < rel
         /\ active = (IF target = 0 THEN Absent ELSE Whole(target))
         /\ staged = Absent /\ previous = Absent
    /\ pending = "upgrade" => target = before /\ rel = before + 1 /\ PromotionAt
    /\ pending = "rollback" => target = 0 /\ ConsumptionAt

\* The directories of the three shapes are told apart by release and wholeness.
LEMMA DirFacts ==
    ASSUME NEW r \in Nat \ {0}
    PROVE /\ Whole(r) # Absent /\ Partial(Whole(r)) # Absent /\ Partial(Whole(r)) # Whole(r)
          /\ Whole(r).whole = TRUE /\ Whole(r).release = r
          /\ Partial(Whole(r)).whole = FALSE /\ Partial(Whole(r)).release = r
          /\ Absent.whole = FALSE /\ Absent.release = 0
          /\ Partial(Partial(Whole(r))) = Partial(Whole(r)) /\ Partial(Absent) = Absent
          /\ \A q \in Nat \ {0} : Whole(q) = Whole(r) => q = r
          /\ \A q \in Nat \ {0} : Whole(q) # Partial(Whole(r))
<1>1. Whole(r).whole = TRUE /\ Whole(r).release = r /\ Absent.whole = FALSE /\ Absent.release = 0
  BY DEF Whole, Absent
<1>2. Partial(Whole(r)) = [release |-> r, whole |-> FALSE]
  BY DEF Whole, Partial
<1>3. Partial(Partial(Whole(r))) = Partial(Whole(r))
  BY <1>2 DEF Partial
<1>4. Partial(Absent) = Absent
  BY DEF Absent, Partial
<1>5. \A q \in Nat \ {0} : Whole(q) = Whole(r) => q = r
  BY DEF Whole
<1>6. Partial(Whole(r)).whole = FALSE /\ Partial(Whole(r)).release = r
  BY <1>2
<1>7. \A q \in Nat \ {0} : Whole(q) # Partial(Whole(r))
  BY <1>2 DEF Whole
<1>8. Whole(r) # Absent
  BY DEF Whole, Absent
<1>9. Partial(Whole(r)) # Absent
  BY <1>2 DEF Absent
<1> QED
  BY <1>1, <1>3, <1>4, <1>5, <1>6, <1>7, <1>8, <1>9

\* The invariant holds before the first rotation.
LEMMA BackupInitInv == BackupInit => BackupInv
  BY DEF BackupInit, BackupInv, Absent

\* A transaction that commits opens its finalization.
LEMMA CommitInv == BackupInv /\ (CommitUpgrade \/ CommitRollback) => BackupInv'
<1> SUFFICES ASSUME BackupInv, CommitUpgrade \/ CommitRollback PROVE BackupInv'
  OBVIOUS
<1>1. CASE CommitUpgrade
  <2>1. ShapeStaging'
    BY <1>1 DEF CommitUpgrade, BackupInv, ShapeStaging, Older
  <2> QED
    BY <1>1, <2>1 DEF CommitUpgrade, BackupInv, PromotionAt
<1>2. CASE CommitRollback
  <2>1. target # 0 /\ active = Whole(target) /\ active.release = target
    BY <1>2, DirFacts DEF CommitRollback, BackupInv, Exists
  <2> QED
    BY <1>2, <2>1 DEF CommitRollback, BackupInv, ConsumptionAt
<1> QED
  BY <1>1, <1>2

\* The steps that end an attempt, well or badly, keep the shape.
LEMMA EndsInv == BackupInv /\ (FinalizeBegin \/ Finalized \/ Report \/ Death) => BackupInv'
<1> SUFFICES ASSUME BackupInv, FinalizeBegin \/ Finalized \/ Report \/ Death PROVE BackupInv'
  OBVIOUS
<1> USE DEF At, To
<1>1. CASE FinalizeBegin
  BY <1>1 DEF FinalizeBegin, BackupInv, PromotionAt, ConsumptionAt, ShapeStaging, ShapeAside, ShapePublished, Older
<1>2. CASE Finalized
  BY <1>2 DEF Finalized, BackupInv, PromotionAt, ConsumptionAt, ShapePublished
<1>3. CASE Report
  BY <1>3 DEF Report, BackupInv, PromotionAt, ConsumptionAt, ShapeStaging, ShapeAside, ShapePublished, Older
<1>4. CASE Death
  BY <1>4 DEF Death, BackupInv, PromotionAt, ConsumptionAt, ShapeStaging, ShapeAside, ShapePublished, Older
<1> QED
  BY <1>1, <1>2, <1>3, <1>4

\* The steps that only decide where to go on.
Decides == Promote \/ VerifyPromoted \/ StageDecide \/ VerifyThenDrop
\* A decision about the directories keeps the invariant.
LEMMA DecidesInv == BackupInv /\ Decides => BackupInv'
<1> SUFFICES ASSUME BackupInv, Decides PROVE BackupInv'
  OBVIOUS
<1> USE DEF At, To
<1>0. /\ pending = "upgrade" /\ pending' = pending /\ PromotionAt /\ before \in Nat \ {0}
      /\ UNCHANGED <<rel, before, active, staged, previous, target>>
  BY DEF Decides, Promote, VerifyPromoted, StageDecide, VerifyThenDrop, BackupInv, ConsumptionAt
<1>1. /\ ShapeStaging => ShapeStaging'
      /\ ShapeAside => ShapeAside'
      /\ ShapePublished => ShapePublished'
  BY <1>0 DEF ShapeStaging, ShapeAside, ShapePublished, Older
<1> SUFFICES PromotionAt'
  BY <1>0 DEF BackupInv
<1>2. CASE Promote
  <2>1. ShapeStaging => active # Whole(before) /\ ~Exists(previous) /\ (Exists(active) => Loads(active))
    <3>1. Older(active) => active # Whole(before)
      BY <1>0 DEF Older, Whole
    <3>2. Older(active) => Loads(active)
      BY DEF Older, Loads, Whole
    <3>3. active = Absent => active # Whole(before)
      BY <1>0, DirFacts
    <3> QED
      BY <3>1, <3>2, <3>3 DEF ShapeStaging, Exists
  <2>2. ShapeAside => active # Whole(before) /\ ~Exists(active) /\ Exists(staged) /\ Exists(previous)
    BY <1>0, DirFacts DEF ShapeAside, Older, Exists
  <2>3. ShapePublished => active = Whole(before) /\ Loads(active)
    BY <1>0, DirFacts DEF ShapePublished, Loads
  <2>4. ShapeStaging => step' = "stage"
    BY <1>2, <2>1 DEF Promote, Matches, Resumption
  <2>5. ShapeAside => step' = "complete"
    BY <1>2, <2>2 DEF Promote, Matches, Resumption
  <2>6. ShapePublished => step' = "clean_staged"
    BY <1>2, <2>3 DEF Promote, Matches
  <2> QED
    BY <1>0, <1>1, <1>2, <2>4, <2>5, <2>6 DEF Promote, PromotionAt
<1>3. CASE VerifyPromoted
  BY <1>0, <1>1, <1>3 DEF VerifyPromoted, PromotionAt, Matches, ShapePublished
<1>4. CASE VerifyThenDrop
  BY <1>0, <1>1, <1>4 DEF VerifyThenDrop, PromotionAt, Matches, ShapePublished
<1>5. CASE StageDecide
  BY <1>0, <1>1, <1>5 DEF StageDecide, PromotionAt, Matches
<1> QED
  BY <1>2, <1>3, <1>4, <1>5 DEF Decides

\* The steps that write, move or remove a directory during a promotion.
Moves == \/ CleanStaged \/ CleanPrevious \/ CompleteRotation \/ DropPrevious \/ Unstage \/ Fill \/ SetAside
         \/ PublishBackup \/ PublishFails
\* A rename keeps the invariant.
LEMMA MovesInv == BackupInv /\ Moves => BackupInv'
<1> SUFFICES ASSUME BackupInv, Moves PROVE BackupInv'
  OBVIOUS
<1> USE DEF At, To
<1>0. /\ pending = "upgrade" /\ pending' = pending /\ PromotionAt /\ before \in Nat \ {0}
      /\ UNCHANGED <<rel, before, target>>
  BY DEF Moves, CleanStaged, CleanPrevious, CompleteRotation, DropPrevious, Unstage, Fill, SetAside,
         PublishBackup, PublishFails, RemoveTree, BackupInv, ConsumptionAt
<1> SUFFICES PromotionAt'
  BY <1>0 DEF BackupInv
<1>1. CASE CleanStaged
  <2>1. ShapePublished /\ staged = Absent /\ ~staged.whole
    BY <1>0, <1>1, DirFacts DEF CleanStaged, RemoveTree, PromotionAt, ShapePublished
  <2> QED
    BY <1>0, <1>1, <2>1 DEF CleanStaged, RemoveTree, PromotionAt, ShapePublished
<1>2. CASE CleanPrevious \/ DropPrevious
  <2>1. ShapePublished
    BY <1>0, <1>2 DEF CleanPrevious, DropPrevious, RemoveTree, PromotionAt
  <2>2. UNCHANGED <<active, staged>>
    BY <1>2 DEF CleanPrevious, DropPrevious
  <2>3. \/ previous.whole /\ previous' = Partial(previous) /\ step' = step
        \/ previous' = Absent /\ step' \in {"verify", "finalized"}
    BY <1>2 DEF CleanPrevious, DropPrevious, RemoveTree
  <2>4. previous.whole => \E r \in Nat \ {0} : previous = Whole(r)
    BY <1>0, <2>1, DirFacts DEF ShapePublished
  <2>5. ShapePublished'
    BY <1>0, <2>1, <2>2, <2>3, <2>4 DEF ShapePublished
  <2> QED
    BY <1>0, <1>2, <2>3, <2>5 DEF CleanPrevious, DropPrevious, RemoveTree, PromotionAt
<1>3. CASE CompleteRotation
  <2>1. ShapePublished'
    BY <1>0, <1>3 DEF CompleteRotation, PromotionAt, ShapeAside, ShapePublished, Older
  <2> QED
    BY <1>3, <2>1 DEF CompleteRotation, PromotionAt
<1>4. CASE Unstage
  <2>1. ShapeStaging
    BY <1>0, <1>4 DEF Unstage, RemoveTree, PromotionAt
  <2>2. UNCHANGED <<active, previous>> /\ staged' \in {Absent, Partial(Whole(before))}
    BY <1>0, <1>4, <2>1, DirFacts DEF Unstage, RemoveTree, ShapeStaging
  <2>3. ShapeStaging'
    BY <1>0, <2>1, <2>2 DEF ShapeStaging, Older
  <2> QED
    BY <1>4, <2>3 DEF Unstage, RemoveTree, PromotionAt
<1>5. CASE Fill
  <2>1. ShapeStaging'
    BY <1>0, <1>5 DEF Fill, PromotionAt, ShapeStaging, Older
  <2> QED
    BY <1>0, <1>5, <2>1 DEF Fill, PromotionAt
<1>6. CASE SetAside
  <2>1. ShapeStaging /\ staged = Whole(before) /\ before' = before /\ staged' = staged
    BY <1>0, <1>6 DEF SetAside, PromotionAt
  <2>2. Older(active) => Exists(active) /\ Loads(active)
    BY DirFacts DEF Older, Exists, Loads
  <2>3. active = Absent => ~Exists(active) /\ ~Loads(active)
    BY DEF Absent, Exists, Loads
  <2>4. CASE active = Absent
    BY <1>0, <1>6, <2>1, <2>3, <2>4 DEF SetAside, PromotionAt, ShapeStaging
  <2>5. CASE Older(active)
    <3>1. previous' = active /\ active' = Absent /\ step' = "publish"
      BY <1>6, <2>2, <2>5 DEF SetAside
    <3>2. ShapeAside'
      BY <2>1, <2>5, <3>1 DEF ShapeAside, Older
    <3> QED
      BY <3>1, <3>2 DEF PromotionAt
  <2> QED
    BY <2>1, <2>4, <2>5 DEF ShapeStaging
<1>7. CASE PublishBackup
  <2>1. ShapePublished'
    BY <1>0, <1>7 DEF PublishBackup, PromotionAt, ShapeAside, ShapeStaging, ShapePublished, Older
  <2> QED
    BY <1>7, <2>1 DEF PublishBackup, PromotionAt
<1>8. CASE PublishFails
  <2>1. ShapeAside \/ (ShapeStaging /\ active = Absent /\ staged = Whole(before))
    BY <1>0, <1>8 DEF PublishFails, PromotionAt
  <2>2. step' = "error" /\ staged' = staged /\ before' = before
    BY <1>0, <1>8 DEF PublishFails
  <2>3. CASE UNCHANGED <<active, previous>>
    <3>1. ShapeAside' \/ ShapeStaging'
      BY <2>1, <2>2, <2>3 DEF ShapeAside, ShapeStaging, Older
    <3> QED
      BY <2>2, <3>1 DEF PromotionAt
  <2>4. CASE Exists(previous) /\ active' = previous /\ previous' = Absent
    <3>1. ShapeStaging'
      BY <2>1, <2>2, <2>4 DEF ShapeAside, ShapeStaging, Older, Exists
    <3> QED
      BY <2>2, <3>1 DEF PromotionAt
  <2> QED
    BY <1>8, <2>3, <2>4 DEF PublishFails
<1> QED
  BY <1>1, <1>2, <1>3, <1>4, <1>5, <1>6, <1>7, <1>8 DEF Moves

\* The consumption of the backup by a rollback keeps the invariant.
LEMMA ConsumptionInv == BackupInv /\ (Consume \/ Consuming) => BackupInv'
<1> SUFFICES ASSUME BackupInv, Consume \/ Consuming PROVE BackupInv'
  OBVIOUS
<1> USE DEF At, To
<1>0. pending = "rollback" /\ ConsumptionAt /\ rel \in Nat \ {0}
  BY DEF Consume, Consuming, RemoveTree, BackupInv, PromotionAt
<1>1. CASE Consume
  BY <1>0, <1>1, DirFacts DEF Consume, BackupInv, ConsumptionAt, Exists
<1>2. CASE Consuming
  <2>1. active' \in {Absent, Partial(Whole(rel))} /\ (step' = "finalized" => active' = Absent)
    BY <1>0, <1>2, DirFacts DEF Consuming, RemoveTree, ConsumptionAt
  <2> QED
    BY <1>0, <1>2, <2>1 DEF Consuming, RemoveTree, BackupInv, ConsumptionAt
<1> QED
  BY <1>1, <1>2

\* Whatever dies or fails while the backup is rotated, an installation with
\* nothing pending has exactly the backup of the release before its last
\* upgrade, and a promotion under way never leaves it without a whole one
\* (promote_permanent_backup, remove_permanent_backup); for every number of
\* releases, deaths and failing renames.
THEOREM BackupKept == BackupSpec => []RollbackTargetKept
<1>1. BackupInv /\ [BackupNext]_backupVars => BackupInv'
  <2>1. BackupInv /\ UNCHANGED backupVars => BackupInv'
    BY DEF backupVars, BackupInv, PromotionAt, ConsumptionAt, ShapeStaging, ShapeAside, ShapePublished, Older
  <2> QED
    BY <2>1, CommitInv, EndsInv, DecidesInv, MovesInv, ConsumptionInv
       DEF BackupNext, Finalization, Decides, Moves
<1>2. BackupInv => RollbackTargetKept
  <2> SUFFICES ASSUME BackupInv, pending = "upgrade", NEW d \in Candidates, Exists(d), d.release < before
               PROVE \E c \in Candidates : c.whole
    BY DEF BackupInv, RollbackTargetKept
  <2>0. before \in Nat \ {0} /\ (ShapeStaging \/ ShapeAside \/ ShapePublished)
    BY DEF BackupInv, PromotionAt
  <2>1. ShapeAside => staged.whole
    BY <2>0, DirFacts DEF ShapeAside
  <2>2. ShapePublished => active.whole
    BY <2>0, DirFacts DEF ShapePublished
  <2>3. ShapeStaging => active.whole
    <3> SUFFICES ASSUME ShapeStaging PROVE active.whole
      OBVIOUS
    <3>1. d = active
      <4>1. Whole(before).release = before /\ Partial(Whole(before)).release = before
        BY <2>0, DirFacts
      <4> QED
        BY <2>0, <4>1 DEF ShapeStaging, Candidates, Exists
    <3> QED
      BY <3>1, DirFacts DEF ShapeStaging, Older, Exists
  <2> QED
    BY <2>0, <2>1, <2>2, <2>3 DEF Candidates
<1> QED
  BY BackupInitInv, <1>1, <1>2, PTL DEF BackupSpec

-----------------------------------------------------------------------------
(* Discovery.                                                              *)

\* The place a page begins after.
Read == (page - 1) * PageSize

\* Until the listing is complete, a release that was there from the beginning
\* has been collected or stands after the pages read so far; then it has been
\* collected.
DiscoveryInv ==
    /\ listing \in Seq(AnyRelease) /\ got \in Seq(AnyRelease) /\ page \in Nat \ {0}
    /\ find = "listing" =>
         \A r \in original : r \in Members(got) \/ \E i \in DOMAIN listing : i > Read /\ listing[i] = r
    /\ find = "select" => original \subseteq Members(got)
    /\ find \in {"listing", "select"} => choice = 0
    /\ SelectionComplete

LEMMA DiscoveryInitInv == DiscoveryInit => DiscoveryInv
<1> SUFFICES ASSUME DiscoveryInit PROVE DiscoveryInv
  OBVIOUS
<1>1. listing \in Seq(AnyRelease) /\ got \in Seq(AnyRelease) /\ Read = 0
  BY DiscoveryAssumption, EmptySeq DEF DiscoveryInit, Read
<1>2. \A r \in original : \E i \in DOMAIN listing : i > Read /\ listing[i] = r
  BY <1>1, LenProperties DEF DiscoveryInit, Members
<1> QED
  BY <1>1, <1>2 DEF DiscoveryInit, DiscoveryInv, SelectionComplete

\* A page keeps every release after the ones read so far, or collects it; a page that is
\* not full collects them all.
LEMMA PageCollects ==
  ASSUME listing \in Seq(AnyRelease), page \in Nat \ {0}, NEW i \in DOMAIN listing, i > Read
  PROVE  /\ PageOf(page) \in Seq(AnyRelease)
         /\ i > Read + PageSize \/ listing[i] \in Members(PageOf(page))
         /\ Len(PageOf(page)) < PageSize => listing[i] \in Members(PageOf(page))
<1> DEFINE n == Len(listing)
           from == Read + 1
           to == Least(Read + PageSize, n)
           p == SubSeq(listing, from, to)
<1>0. PageSize \in Nat \ {0} /\ n \in Nat /\ DOMAIN listing = 1..n
  BY DiscoveryAssumption, LenProperties
<1>1. Read \in Nat /\ page * PageSize = Read + PageSize
  BY <1>0 DEF Read
<1>2. PageOf(page) = p
  BY <1>1 DEF PageOf, Read
<1> HIDE DEF n
<1>3. i \in Nat /\ i <= n /\ from \in 1..n + 1 /\ to \in 0..n /\ to >= Read /\ from - 1 <= to
  BY <1>0, <1>1 DEF Least
<1>4. p \in Seq(AnyRelease) /\ Len(p) = to - from + 1 /\ DOMAIN p = 1..Len(p)
      /\ \A k \in 1..Len(p) : p[k] = listing[from + k - 1]
  <2>1. from \in 1..Len(listing) + 1 /\ to \in from - 1..Len(listing)
    BY <1>0, <1>1, <1>3 DEF n
  <2> HIDE DEF from, to
  <2>2. p \in Seq(AnyRelease) /\ Len(p) = to - from + 1 /\ \A k \in 1..to - from + 1 : p[k] = listing[from + k - 1]
    BY <2>1, SubSeqProperties
  <2> QED
    BY <2>2, LenProperties
<1> HIDE DEF p
<1>5. CASE i <= to
  <2> HIDE DEF to
  <2>a. to \in Nat /\ i \in Nat /\ Read \in Nat
    BY <1>0, <1>1, <1>3
  <2>b. Len(p) = to - (Read + 1) + 1
    BY <1>4
  <2>c. from + (i - Read) - 1 = i
    BY <2>a
  <2>0. Len(p) = to - Read /\ from + (i - Read) - 1 = i
    BY <2>a, <2>b, <2>c
  <2> HIDE DEF from
  <2>1. i - Read \in 1..Len(p) /\ from + (i - Read) - 1 = i
    BY <1>1, <1>3, <1>5, <2>a, <2>0
  <2>2. p[i - Read] = listing[i]
    BY <1>4, <2>1
  <2> QED
    BY <1>2, <1>4, <2>1, <2>2 DEF Members
<1>6. CASE i > to
  <2>1. to = Read + PageSize
    BY <1>0, <1>1, <1>3, <1>6 DEF Least
  <2>2. Len(p) = PageSize /\ i > Read + PageSize
    BY <1>0, <1>1, <1>4, <1>6, <2>1
  <2> QED
    BY <1>0, <1>2, <1>4, <2>2
<1> QED
  BY <1>0, <1>1, <1>3, <1>5, <1>6

LEMMA FetchStep == ASSUME DiscoveryInv, FetchPage PROVE DiscoveryInv'
<1> DEFINE p == PageOf(page)
<1>0. /\ listing \in Seq(AnyRelease) /\ got \in Seq(AnyRelease) /\ page \in Nat \ {0} /\ PageSize \in Nat \ {0}
      /\ find = "listing" /\ choice = 0
      /\ \A r \in original : r \in Members(got) \/ \E i \in DOMAIN listing : i > Read /\ listing[i] = r
  BY DiscoveryAssumption DEF DiscoveryInv, FetchPage
<1>1. /\ find' = PageOutcome(p) /\ got' = got \o p /\ page' = page + 1
      /\ UNCHANGED <<listing, original, request, choice>>
  BY DEF FetchPage
<1>2. p \in Seq(AnyRelease)
  <2> DEFINE m == (page - 1) * PageSize + 1
             n == Least(page * PageSize, Len(listing))
  <2>1. m \in Nat \ {0} /\ n \in Nat /\ n <= Len(listing) /\ Len(listing) \in Nat
    BY <1>0, LenProperties DEF Least
  <2> HIDE DEF m, n
  <2>2. \A i \in m..n : listing[i] \in AnyRelease
    BY <1>0, <2>1, ElementOfSeq
  <2>3. SubSeq(listing, m, n) \in Seq(AnyRelease)
    BY <2>1, <2>2, SubSeqProperties
  <2> QED
    BY <2>3 DEF PageOf, m, n
<1>3. Read' = Read + PageSize /\ Read \in Nat
  BY <1>0, <1>1 DEF Read
<1>4. \A i \in DOMAIN listing : i > Read =>
         /\ i > Read + PageSize \/ listing[i] \in Members(p)
         /\ Len(p) < PageSize => listing[i] \in Members(p)
  BY <1>0, PageCollects
<1>5. got' \in Seq(AnyRelease) /\ Members(got') = Members(got) \cup Members(p)
  <2> HIDE DEF p
  <2>1. /\ got \o p \in Seq(AnyRelease) /\ Len(got \o p) = Len(got) + Len(p)
        /\ \A i \in 1..Len(got) + Len(p) : (got \o p)[i] = IF i <= Len(got) THEN got[i] ELSE p[i - Len(got)]
    BY <1>0, <1>2, ConcatProperties
  <2>2. /\ Len(got) \in Nat /\ Len(p) \in Nat /\ DOMAIN got = 1..Len(got) /\ DOMAIN p = 1..Len(p)
        /\ DOMAIN (got \o p) = 1..Len(got) + Len(p)
    BY <1>0, <1>2, <2>1, LenProperties
  <2>3. \A i \in DOMAIN got : (got \o p)[i] = got[i] /\ i \in DOMAIN (got \o p)
    BY <2>1, <2>2
  <2>4. \A i \in DOMAIN p : (got \o p)[i + Len(got)] = p[i] /\ i + Len(got) \in DOMAIN (got \o p)
    BY <2>1, <2>2
  <2>5. \A i \in DOMAIN (got \o p) : (i \in DOMAIN got /\ (got \o p)[i] = got[i])
                                  \/ (i - Len(got) \in DOMAIN p /\ (got \o p)[i] = p[i - Len(got)])
    BY <2>1, <2>2
  <2>6. Members(got) \cup Members(p) \subseteq Members(got \o p)
    BY <2>3, <2>4 DEF Members
  <2>7. Members(got \o p) \subseteq Members(got) \cup Members(p)
    BY <2>5 DEF Members
  <2> QED
    BY <1>1, <2>1, <2>6, <2>7 DEF p
<1>6. find' = "select" => Len(p) < PageSize
  BY <1>1 DEF PageOutcome
<1> HIDE DEF p
<1>7. ASSUME find' = "listing", NEW r \in original
      PROVE  r \in Members(got') \/ \E i \in DOMAIN listing : i > Read' /\ listing[i] = r
  <2>1. CASE r \in Members(got)
    BY <1>5, <2>1
  <2>2. CASE \E i \in DOMAIN listing : i > Read /\ listing[i] = r
    BY <1>3, <1>4, <1>5, <2>2
  <2> QED
    BY <1>0, <2>1, <2>2
<1>8. find' = "select" => original \subseteq Members(got')
  BY <1>0, <1>4, <1>5, <1>6
<1>9. SelectionComplete'
  BY <1>0, <1>1 DEF SelectionComplete
<1> QED
  BY <1>0, <1>1, <1>5, <1>7, <1>8, <1>9 DEF DiscoveryInv

LEMMA PublishStep == ASSUME DiscoveryInv, Publish PROVE DiscoveryInv'
<1>0. /\ listing \in Seq(AnyRelease) /\ find = "listing" /\ page \in Nat \ {0} /\ PageSize \in Nat
      /\ UNCHANGED <<original, request, page, got, find, choice>>
      /\ \A r \in original : r \in Members(got) \/ \E i \in DOMAIN listing : i > Read /\ listing[i] = r
  BY DiscoveryAssumption DEF DiscoveryInv, Publish
<1>1. PICK r \in NewReleases : listing' = <<r>> \o listing
  BY DEF Publish
<1>2. r \in AnyRelease /\ Read \in Nat /\ Read' = Read
  BY <1>0, DiscoveryAssumption DEF Read
<1>3. /\ listing' \in Seq(AnyRelease) /\ \A i \in DOMAIN listing : i + 1 \in DOMAIN listing' /\ listing'[i + 1] = listing[i]
      /\ DOMAIN listing \subseteq Nat
  <2> DEFINE one == <<r>>
  <2>1. one \in Seq(AnyRelease) /\ Len(one) = 1
    BY <1>2
  <2> HIDE DEF one
  <2>c. /\ one \o listing \in Seq(AnyRelease) /\ Len(one \o listing) = Len(one) + Len(listing)
        /\ \A i \in 1..Len(one) + Len(listing) :
             (one \o listing)[i] = IF i <= Len(one) THEN one[i] ELSE listing[i - Len(one)]
    BY <1>0, <2>1, ConcatProperties
  <2>2. /\ one \o listing \in Seq(AnyRelease) /\ Len(one \o listing) = 1 + Len(listing)
        /\ \A i \in 1..1 + Len(listing) : (one \o listing)[i] = IF i <= 1 THEN one[i] ELSE listing[i - 1]
    BY <2>1, <2>c
  <2>3. Len(listing) \in Nat /\ DOMAIN listing = 1..Len(listing) /\ DOMAIN (one \o listing) = 1..1 + Len(listing)
    BY <1>0, <2>2, LenProperties
  <2>4. \A i \in DOMAIN listing : i + 1 \in DOMAIN (one \o listing) /\ (one \o listing)[i + 1] = listing[i]
    BY <2>2, <2>3
  <2>5. listing' = one \o listing
    BY <1>1 DEF one
  <2> QED
    BY <2>2, <2>3, <2>4, <2>5
<1>4. \A s \in original : s \in Members(got) \/ \E i \in DOMAIN listing' : i > Read /\ listing'[i] = s
  <2> SUFFICES ASSUME NEW s \in original, s \notin Members(got)
               PROVE  \E i \in DOMAIN listing' : i > Read /\ listing'[i] = s
    OBVIOUS
  <2>1. PICK i \in DOMAIN listing : i > Read /\ listing[i] = s
    BY <1>0
  <2>2. i + 1 > Read
    BY <1>2, <1>3, <2>1
  <2> QED
    BY <1>3, <2>1, <2>2
<1> QED
  BY <1>0, <1>2, <1>3, <1>4 DEF DiscoveryInv, SelectionComplete, Members

LEMMA SelectStep == ASSUME DiscoveryInv, SelectRelease PROVE DiscoveryInv'
<1>0. /\ find = "select" /\ choice = 0 /\ original \subseteq Members(got) /\ got \in Seq(AnyRelease)
      /\ UNCHANGED <<listing, original, request, page, got>>
  BY DEF DiscoveryInv, SelectRelease
<1>1. CASE find' = "refused" /\ choice' = choice
  BY <1>0, <1>1 DEF DiscoveryInv, SelectionComplete, Read
<1>2. CASE find' = "download" /\ \E r \in Selected(got, request) : choice' = r.ver
  <2>1. PICK k \in Listed(got) : /\ choice' = got[k].ver
                                 /\ IF request = 0 THEN \A j \in Listed(got) : got[j].ver <= got[k].ver
                                                   ELSE got[k].ver = request
    BY <1>2 DEF Selected
  <2>2. ASSUME request = 0, NEW r \in original, r.kind = "stable" PROVE r.ver <= choice'
    <3>1. PICK j \in DOMAIN got : got[j] = r
      BY <1>0, <2>2 DEF Members
    <3>2. j \in Listed(got)
      BY <2>2, <3>1 DEF Listed
    <3> QED
      BY <2>1, <2>2, <3>1, <3>2
  <2>3. SelectionComplete'
    BY <1>0, <2>1, <2>2 DEF SelectionComplete
  <2> QED
    BY <1>0, <1>2, <2>3 DEF DiscoveryInv
<1> QED
  BY <1>1, <1>2 DEF SelectRelease

LEMMA DiscoveryStep == ASSUME DiscoveryInv, [DiscoveryNext]_discoveryVars PROVE DiscoveryInv'
<1>1. CASE UNCHANGED discoveryVars
  BY <1>1 DEF discoveryVars, DiscoveryInv, SelectionComplete, Read, Members
<1>2. CASE FetchPageFails
  BY <1>2 DEF FetchPageFails, DiscoveryInv, SelectionComplete, Read, Members
<1>3. CASE Download
  <2>1. /\ find = "download" /\ find' \in {"download", "refused", "verify"}
        /\ UNCHANGED <<listing, original, request, page, got, choice>>
    BY <1>3 DEF Download, Redirect, Body
  <2> QED
    BY <2>1 DEF DiscoveryInv, SelectionComplete
<1> QED
  BY <1>1, <1>2, <1>3, FetchStep, PublishStep, SelectStep DEF DiscoveryNext, DiscoverStep

-----------------------------------------------------------------------------
(* The artifacts.                                                          *)

Signed == [p \in Profiles |-> BuildManifest(p, 2, metadata.minimum, stagedSet[p])]
Written == {<<fetched[i].name, fetched[i].sha>> : i \in Files(fetched) \ left}

ToolInv ==
    /\ metadata \in ToolCalls /\ assets \in [Profiles -> Builds]
    /\ stagedSet \in [Profiles -> Builds \cup {None}]
    /\ sign \in {"signed", "published"} => ArchiveSetAccepted(stagedSet) /\ sheet = Signed

\* From the verified manifest on everything is this release's, for this target.
TakeInv ==
    /\ take # "verify" => sign = "published"
    /\ take \in {"download", "preflight", "extract", "plan", "ready"} => manifest = sheet["windows"]
    /\ take \in {"preflight", "extract", "plan", "ready"} => fetched = stagedSet["windows"]
    /\ take \in {"verify", "download", "preflight"} => root = {}
    /\ take \in {"extract", "plan", "ready"} => left \subseteq Files(fetched) /\ root = Written
    /\ take \in {"plan", "ready"} => left = {}
    /\ SignedInstalls

ArtifactInv == ToolInv /\ TakeInv

LEMMA ArtifactInitInv == ArtifactInit => ArtifactInv
  BY DEF ArtifactInit, ArtifactInv, ToolInv, TakeInv, SignedInstalls

\* Steps of the tool up to the publication: the updater has not begun.
LEMMA ToolStepInv == ASSUME ArtifactInv, ToolStep PROVE ArtifactInv'
<1>0. /\ metadata \in ToolCalls /\ assets \in [Profiles -> Builds] /\ stagedSet \in [Profiles -> Builds \cup {None}]
      /\ UNCHANGED <<metadata, take, operation, manifest, fetched, honest, left, root>>
  BY DEF ArtifactInv, ToolInv, ToolStep, CheckSet, SignSet, VerifyStagedSet, Rebuild, CopyArchive, takeVars
<1>1. sign # "published"
  BY DEF ToolStep, CheckSet, SignSet, VerifyStagedSet, Rebuild, CopyArchive
<1>2. take = "verify" /\ root = {}
  BY <1>1 DEF ArtifactInv, TakeInv
<1>3. TakeInv'
  BY <1>0, <1>2 DEF TakeInv, SignedInstalls
<1>4. ToolInv'
  <2>1. CASE CheckSet
    BY <1>0, <2>1 DEF CheckSet, ToolInv
  <2>2. CASE SignSet
    <3>1. UNCHANGED <<assets, stagedSet>>
      BY <2>2 DEF SignSet
    <3>2. CASE ArchiveSetAccepted(stagedSet)
      BY <1>0, <2>2, <3>1, <3>2 DEF SignSet, ToolInv, Signed
    <3>3. CASE ~ArchiveSetAccepted(stagedSet)
      BY <1>0, <2>2, <3>1, <3>3 DEF SignSet, ToolInv
    <3> QED
      BY <3>2, <3>3
  <2>3. CASE VerifyStagedSet
    BY <1>0, <2>3 DEF VerifyStagedSet, ArtifactInv, ToolInv, Signed
  <2>4. ASSUME NEW p \in Profiles, Rebuild(p) PROVE ToolInv'
    BY <1>0, <2>4 DEF Rebuild, ToolInv
  <2>5. ASSUME NEW p \in Profiles, CopyArchive(p) PROVE ToolInv'
    BY <1>0, <2>5 DEF CopyArchive, ToolInv
  <2> QED
    BY <2>1, <2>2, <2>3, <2>4, <2>5 DEF ToolStep
<1> QED
  BY <1>3, <1>4 DEF ArtifactInv

\* What the tool publishes for this target.
LEMMA PublishedSheet ==
  ASSUME ToolInv, sign = "published"
  PROVE  /\ stagedSet["windows"] \in Seq(AnyEntry)
         /\ ToolAccepts("windows", stagedSet["windows"])
         /\ sheet["windows"] = BuildManifest("windows", 2, metadata.minimum, stagedSet["windows"])
         /\ sheet["linux"] = BuildManifest("linux", 2, metadata.minimum, stagedSet["linux"])
         /\ metadata.minimum \in Nat
<1>1. "windows" \in Profiles /\ "linux" \in Profiles
  BY DEF Profiles
<1>2. ArchiveSetAccepted(stagedSet) /\ sheet = Signed /\ metadata \in ToolCalls
  BY DEF ToolInv
<1>3. stagedSet["windows"] # None /\ ToolAccepts("windows", stagedSet["windows"])
  BY <1>1, <1>2 DEF ArchiveSetAccepted
<1>4. stagedSet["windows"] \in Builds
  BY <1>1, <1>3 DEF ToolInv
<1> QED
  BY <1>1, <1>2, <1>3, <1>4, ArtifactAssumption DEF Signed

\* A verified manifest is this release's, for this target.
LEMMA VerifiedIsSheet ==
  ASSUME ToolInv, sign = "published", NEW m, SignatureGenuine(m), IdentityMatches(m, 2)
  PROVE  m = sheet["windows"]
<1>1. m.version = 2 /\ m.target = "windows"
  BY DEF IdentityMatches
<1>2. sheet["linux"].target = "linux"
  BY PublishedSheet DEF BuildManifest
<1>3. OldManifest.version = 1
  BY DEF OldManifest, BuildManifest
<1>4. m \in {sheet["windows"], sheet["linux"], OldManifest}
  BY DEF SignatureGenuine
<1> QED
  BY <1>1, <1>2, <1>3, <1>4

\* The published manifest passes, unless its floor is above the running version.
LEMMA SheetPasses ==
  ASSUME ToolInv, sign = "published"
  PROVE  LET m == sheet["windows"]
         IN  /\ SignatureGenuine(m) /\ ManifestValid(m)
             /\ IdentityMatches(m, 2) \/ OldManifest.version < m.minimum
<1> DEFINE m == sheet["windows"]
           a == stagedSet["windows"]
<1>0. m = BuildManifest("windows", 2, metadata.minimum, a) /\ ToolAccepts("windows", a) /\ metadata.minimum \in Nat
  BY PublishedSheet
<1>1. SignatureGenuine(m)
  BY <1>0 DEF SignatureGenuine, KeyTrusted, BuildManifest
<1>2. m.files = {[path |-> a[i].name, size |-> a[i].size, sha |-> a[i].sha, purpose |-> Purposes[a[i].name]] : i \in Files(a)}
  BY <1>0 DEF BuildManifest
<1>3. m.version = 2 /\ m.target = "windows" /\ m.minimum = metadata.minimum
  BY <1>0 DEF BuildManifest
<1>4. OldManifest.version = 1
  BY DEF OldManifest, BuildManifest
<1>5. PICK i \in Files(a) : a[i].name = "exe"
  <2>1. "exe" \in {a[i].name : i \in Files(a)}
    BY <1>0 DEF ToolAccepts, Managed
  <2> QED
    BY <2>1
<1> HIDE DEF m, a
<1>6. ManifestValid(m)
  <2>1. \E f \in m.files : f.purpose = "executable"
    <3> DEFINE f == [path |-> a[i].name, size |-> a[i].size, sha |-> a[i].sha, purpose |-> Purposes[a[i].name]]
    <3>1. f \in m.files
      BY <1>2
    <3>2. f.purpose = "executable"
      BY <1>5 DEF Purposes
    <3> QED
      BY <3>1, <3>2
  <2>2. \A f, g \in m.files : Folded(f.path) = Folded(g.path) => f = g
    <3> SUFFICES ASSUME NEW f \in m.files, NEW g \in m.files, Folded(f.path) = Folded(g.path) PROVE f = g
      OBVIOUS
    <3>1. PICK j \in Files(a) : f = [path |-> a[j].name, size |-> a[j].size, sha |-> a[j].sha, purpose |-> Purposes[a[j].name]]
      BY <1>2
    <3>2. PICK k \in Files(a) : g = [path |-> a[k].name, size |-> a[k].size, sha |-> a[k].sha, purpose |-> Purposes[a[k].name]]
      BY <1>2
    <3>3. f.path = a[j].name /\ g.path = a[k].name /\ j \in DOMAIN a /\ k \in DOMAIN a
      BY <3>1, <3>2 DEF Files
    <3>4. j = k
      BY <1>0, <3>3 DEF ToolAccepts, NoCollisions
    <3> QED
      BY <3>1, <3>2, <3>4
  <2> QED
    BY <2>1, <2>2 DEF ManifestValid
<1>7. IdentityMatches(m, 2) \/ OldManifest.version < m.minimum
  BY <1>0, <1>3, <1>4 DEF IdentityMatches
<1> QED
  BY <1>1, <1>6, <1>7 DEF m

\* The published archive passes too, unless a directory entry has content.
LEMMA ArchivePasses ==
  ASSUME ToolInv, sign = "published"
  PROVE  LET m == sheet["windows"]
             a == stagedSet["windows"]
         IN  /\ PreflightAccepts(a, m) \/ \E i \in DOMAIN a : a[i].name \in Directories /\ a[i].size > 0
             /\ \A i \in Files(a) : ExtractedMatches(a[i], m)
             /\ {<<a[i].name, a[i].sha>> : i \in Files(a)} = {<<f.path, f.sha>> : f \in m.files}
<1> DEFINE m == sheet["windows"]
           a == stagedSet["windows"]
           made(i) == [path |-> a[i].name, size |-> a[i].size, sha |-> a[i].sha, purpose |-> Purposes[a[i].name]]
<1>0. /\ a \in Seq(AnyEntry) /\ ToolAccepts("windows", a)
      /\ m = BuildManifest("windows", 2, metadata.minimum, a)
  BY PublishedSheet
<1>1. m.files = {made(i) : i \in Files(a)}
  BY <1>0 DEF BuildManifest
<1>2. \A i \in DOMAIN a : a[i] \in AnyEntry
  BY <1>0, ElementOfSeq, LenProperties
<1> HIDE DEF m, a
<1>3. \A i \in Files(a) : /\ i \in DOMAIN a /\ a[i].name \in {"exe", "helper", "plugin"}
                          /\ a[i].read = a[i].size /\ a[i].read <= MaxFileBytes
  BY <1>0 DEF ToolAccepts, Managed, HashedWhole, Files
<1>4. \A i \in Files(a) : made(i).path = a[i].name /\ made(i).size = a[i].size /\ made(i).sha = a[i].sha
  OBVIOUS
<1>5. \A i \in Files(a) : \E f \in m.files : f.path = a[i].name /\ f.size = a[i].size /\ f.sha = a[i].sha
  BY <1>1, <1>4
<1>6. \A f \in m.files : \E i \in Files(a) : f.path = a[i].name /\ f.size = a[i].size /\ f.sha = a[i].sha
  BY <1>1, <1>4
<1>7. PICK q \in Files(a) : a[q].name = "plugin"
  <2>1. "plugin" \in {a[i].name : i \in Files(a)}
    BY <1>0 DEF ToolAccepts, Managed
  <2> QED
    BY <2>1
<1>8. made(q) \in m.files /\ made(q).purpose = "plugin"
  BY <1>1, <1>7 DEF Purposes
<1> HIDE DEF made
<1>9. ASSUME ~\E i \in DOMAIN a : a[i].name \in Directories /\ a[i].size > 0 PROVE PreflightAccepts(a, m)
  <2>1. InventoryBounded(a, m)
    <3>1. \A f \in m.files : f.size <= MaxFileBytes
      BY <1>3, <1>6
    <3> QED
      BY <1>0, <3>1 DEF InventoryBounded, ToolAccepts
  <2>2. \A i \in DOMAIN a : CandidateEntrySound(a[i])
    <3> SUFFICES ASSUME NEW i \in DOMAIN a PROVE CandidateEntrySound(a[i])
      OBVIOUS
    <3>1. a[i].plain
      BY <1>0 DEF ToolAccepts, ToolEntrySound
    <3>2. a[i].name \in {"exe", "helper", "plugin", "plugins"}
      BY <1>3 DEF Files, Directories
    <3> QED
      BY <3>1, <3>2 DEF CandidateEntrySound
  <2>3. NoCollisions(a)
    BY <1>0 DEF ToolAccepts
  <2>4. \A i \in DOMAIN a \ Files(a) : a[i].size = 0
    BY <1>2, <1>9 DEF Files, AnyEntry
  <2>5. {a[i].name : i \in Files(a)} = {f.path : f \in m.files}
    BY <1>5, <1>6
  <2> QED
    BY <1>5, <1>8, <2>1, <2>2, <2>3, <2>4, <2>5 DEF PreflightAccepts
<1>10. \A i \in Files(a) : ExtractedMatches(a[i], m)
  BY <1>3, <1>5 DEF ExtractedMatches
<1>11. {<<a[i].name, a[i].sha>> : i \in Files(a)} = {<<f.path, f.sha>> : f \in m.files}
  BY <1>5, <1>6
<1> QED
  BY <1>9, <1>10, <1>11 DEF m, a

LEMMA TakeStepInv == ASSUME ArtifactInv, TakeStep PROVE ArtifactInv'
<1>0. UNCHANGED <<metadata, assets, sign, stagedSet, sheet>> /\ ToolInv /\ TakeInv
  BY DEF TakeStep, Verify, DownloadArchive, Preflight, SmokeRun, PlanOperations, Extract, toolVars, ArtifactInv
<1>1. ToolInv'
  BY <1>0 DEF ToolInv, Signed
<1>2. sign = "published"
  BY <1>0 DEF TakeStep, Verify, DownloadArchive, Preflight, SmokeRun, PlanOperations, Extract, TakeInv
<1>3. TakeInv'
  <2>1. CASE Verify
    <3>0. take = "verify" /\ root = {} /\ UNCHANGED <<fetched, left, root>>
      BY <1>0, <2>1 DEF Verify, TakeInv
    <3>1. PICK m \in Delivered :
            IF SignatureGenuine(m) /\ ManifestValid(m) /\ IdentityMatches(m, 2)
            THEN take' = "download" /\ manifest' = m /\ honest' = (m = sheet["windows"])
            ELSE take' = "refused" /\ honest' = (m = sheet["windows"])
      BY <2>1 DEF Verify
    <3>2. CASE SignatureGenuine(m) /\ ManifestValid(m) /\ IdentityMatches(m, 2)
      <4>1. m = sheet["windows"]
        BY <1>0, <1>2, <3>2, VerifiedIsSheet
      <4> QED
        BY <1>0, <1>2, <3>0, <3>1, <3>2, <4>1 DEF TakeInv, SignedInstalls
    <3>3. CASE ~(SignatureGenuine(m) /\ ManifestValid(m) /\ IdentityMatches(m, 2))
      <4>1. m = sheet["windows"] => OldManifest.version < sheet["windows"].minimum
        BY <1>0, <1>2, <3>3, SheetPasses
      <4>2. honest' => OldManifest.version < sheet["windows"].minimum
        BY <3>1, <3>3, <4>1
      <4>3. OldManifest' = OldManifest
        BY DEF OldManifest, BuildManifest, Files
      <4>4. SignedInstalls'
        BY <1>0, <4>2, <4>3 DEF SignedInstalls
      <4> QED
        BY <1>0, <1>2, <3>0, <3>1, <3>3, <4>4 DEF TakeInv
    <3> QED
      BY <3>2, <3>3
  <2>2. CASE DownloadArchive
    <3>0. take = "download" /\ manifest = sheet["windows"] /\ root = {} /\ UNCHANGED <<manifest, left, root>>
      BY <1>0, <2>2 DEF DownloadArchive, TakeInv
    <3>1. PICK a : /\ take' = IF a = manifest.archive THEN "preflight" ELSE "refused"
                   /\ fetched' = a /\ honest' = (honest /\ a = stagedSet["windows"])
      BY <2>2 DEF DownloadArchive
    <3>2. manifest.archive = stagedSet["windows"]
      BY <1>0, <1>2, <3>0, PublishedSheet DEF BuildManifest
    <3>3. take' = "refused" => ~honest'
      BY <3>1, <3>2
    <3>4. take' = "preflight" => fetched' = stagedSet["windows"]
      BY <3>1, <3>2
    <3>5. take' \in {"preflight", "refused"}
      BY <3>1
    <3> QED
      BY <1>0, <1>2, <3>0, <3>3, <3>4, <3>5 DEF TakeInv, SignedInstalls
  <2>3. CASE Preflight
    <3>0. /\ take = "preflight" /\ manifest = sheet["windows"] /\ fetched = stagedSet["windows"] /\ root = {}
          /\ UNCHANGED <<manifest, fetched, honest, root>>
      BY <1>0, <2>3 DEF Preflight, TakeInv
    <3>1. CASE PreflightAccepts(fetched, manifest)
      <4>1. take' = "extract" /\ left' = Files(fetched)
        BY <2>3, <3>1 DEF Preflight
      <4>2. Written' = {}
        BY <3>0, <4>1 DEF Written, Files
      <4>3. left' \subseteq Files(fetched)'
        BY <3>0, <4>1 DEF Files
      <4> QED
        BY <1>0, <1>2, <3>0, <4>1, <4>2, <4>3 DEF TakeInv, SignedInstalls
    <3>2. CASE ~PreflightAccepts(fetched, manifest)
      <4>1. take' = "refused"
        BY <2>3, <3>2 DEF Preflight
      <4>2. \E i \in DOMAIN fetched : fetched[i].name \in Directories /\ fetched[i].size > 0
        BY <1>0, <1>2, <3>0, <3>2, ArchivePasses
      <4> QED
        BY <1>0, <1>2, <3>0, <4>1, <4>2 DEF TakeInv, SignedInstalls
    <3> QED
      BY <3>1, <3>2
  <2>4. ASSUME NEW i \in left, Extract(i) PROVE TakeInv'
    <3> DEFINE a == fetched
    <3>0. /\ take = "extract" /\ manifest = sheet["windows"] /\ a = stagedSet["windows"] /\ root = Written
          /\ left \subseteq Files(a) /\ left' = left \ {i} /\ root' = root \cup {<<a[i].name, a[i].sha>>}
          /\ take' = IF ExtractedMatches(a[i], manifest) THEN take ELSE "refused"
          /\ UNCHANGED <<manifest, fetched, honest>>
      BY <1>0, <2>4 DEF Extract, TakeInv
    <3>1. ExtractedMatches(a[i], manifest)
      BY <1>0, <1>2, <2>4, <3>0, ArchivePasses
    <3>2. take' = "extract"
      BY <3>0, <3>1
    <3>3. Files(fetched)' = Files(a)
      BY <3>0 DEF Files
    <3>4. Files(a) \ left' = (Files(a) \ left) \cup {i}
      BY <2>4, <3>0
    <3>5. root' = {<<a[j].name, a[j].sha>> : j \in Files(a) \ left'}
      BY <3>0, <3>4 DEF Written
    <3>6. root' = Written'
      BY <3>0, <3>3, <3>5 DEF Written
    <3> QED
      BY <1>0, <1>2, <3>0, <3>2, <3>3, <3>6 DEF TakeInv, SignedInstalls
  <2>5. CASE SmokeRun
    <3>1. /\ take = "extract" /\ left = {} /\ take' \in {"plan", "smoke_failed"}
          /\ UNCHANGED <<manifest, fetched, honest, left, root>>
      BY <2>5 DEF SmokeRun
    <3> QED
      BY <1>0, <1>2, <3>1 DEF TakeInv, SignedInstalls, Written, Files
  <2>6. CASE PlanOperations
    <3>1. /\ take = "plan" /\ take' \in {"ready", "refused_plan"}
          /\ UNCHANGED <<manifest, fetched, honest, left, root>>
      BY <2>6 DEF PlanOperations
    <3> QED
      BY <1>0, <1>2, <3>1 DEF TakeInv, SignedInstalls, Written, Files
  <2> QED
    BY <2>1, <2>2, <2>3, <2>4, <2>5, <2>6 DEF TakeStep
<1> QED
  BY <1>1, <1>3 DEF ArtifactInv

LEMMA ArtifactStep == ASSUME ArtifactInv, [ArtifactNext]_artifactVars PROVE ArtifactInv'
<1>1. CASE UNCHANGED artifactVars
  <2>1. UNCHANGED <<metadata, assets, sign, stagedSet, sheet, take, manifest, fetched, honest, left, root>>
    BY <1>1 DEF artifactVars
  <2>2. ToolInv'
    BY <2>1 DEF ArtifactInv, ToolInv, Signed
  <2>3. TakeInv'
    BY <2>1 DEF ArtifactInv, TakeInv, SignedInstalls, Written, Files
  <2> QED
    BY <2>2, <2>3 DEF ArtifactInv
<1> QED
  BY <1>1, ToolStepInv, TakeStepInv DEF ArtifactNext

LEMMA ArtifactInvSound == ASSUME ArtifactInv PROVE ReleaseSound
<1>1. SignedInstalls
  BY DEF ArtifactInv, TakeInv
<1>2. ASSUME take = "ready" PROVE root = {<<f.path, f.sha>> : f \in sheet["windows"].files}
  <2>1. /\ sign = "published" /\ fetched = stagedSet["windows"] /\ left = {} /\ root = Written
    BY <1>2 DEF ArtifactInv, TakeInv
  <2>2. root = {<<fetched[i].name, fetched[i].sha>> : i \in Files(fetched)}
    BY <2>1 DEF Written
  <2> QED
    BY <2>1, <2>2, ArchivePasses DEF ArtifactInv
<1> QED
  BY <1>1, <1>2 DEF ReleaseSound, InstallsWhatWasSigned

-----------------------------------------------------------------------------

\* However many releases are published between two pages and whatever artifacts are
\* rebuilt, mixed up or sent in place of others: the release chosen is no older than any
\* stable release that was there when the client began, what is made ready holds exactly
\* the files signed for this target and version, and nothing the tool was right to sign is
\* refused (list_releases, verify_discovered_release, prepare_candidate).
THEOREM ReleasePathIsSound == PathSpec => []ReleasePathSound
<1> DEFINE Inv == DiscoveryInv /\ ArtifactInv
<1>1. PathInit => Inv
  BY DiscoveryInitInv, ArtifactInitInv DEF PathInit
<1>2. Inv /\ [PathNext]_pathVars => Inv'
  <2> SUFFICES ASSUME Inv, [PathNext]_pathVars PROVE Inv'
    OBVIOUS
  <2>1. [DiscoveryNext]_discoveryVars /\ [ArtifactNext]_artifactVars
    BY DEF PathNext, pathVars, Turn
  <2> QED
    BY <2>1, DiscoveryStep, ArtifactStep
<1>3. Inv => ReleasePathSound
  BY ArtifactInvSound DEF DiscoveryInv, ReleasePathSound
<1> HIDE DEF Inv
<1> QED
  BY <1>1, <1>2, <1>3, PTL DEF PathSpec
=============================================================================
