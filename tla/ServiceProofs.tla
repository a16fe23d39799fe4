---------------------------- MODULE ServiceProofs ----------------------------
(***************************************************************************)
(* Proofs about the managed MCP service: its lifecycle, for any number of  *)
(* definitions, launches, retries and faults, and its registration with    *)
(* the operating system, for any number of commands and edits; and about   *)
(* registering it with an agent (AgentInstall), for any documents, rules   *)
(* files, requests, runs and edits.                                        *)
(***************************************************************************)
EXTENDS ServiceLifecycle, ServiceRegistration, AgentInstall, TLAPS, FiniteSetTheorems, SequenceTheorems,
        WellFoundedInduction

-----------------------------------------------------------------------------
(* The inductive invariant.                                                *)

InstallPoints == {"i_define", "i_register", "i_point", "i_clean", "i_replace", "i_post", "i_wait"}
StartPoints == {"s_read", "s_probe", "s_run", "s_poll", "s_look"}
StopPoints == {"p_read", "p_probe", "p_lease", "p_post", "p_grace", "p_fall", "p_kill", "p_wait"}
OrphanPoints == {"o_lease", "o_probe", "o_post", "o_wait"}
RemovalPoints == {"u_task", "u_rt", "u_defs", "u_cur"}

\* The command and the processes keep the fields of their records.
Shape ==
  /\ DOMAIN ctl = DOMAIN Idle
  /\ DOMAIN proc = Pids
  /\ \A n \in Pids : DOMAIN proc[n] = DOMAIN Gone

\* What names a definition names one that was written.
DiskInv ==
  /\ made \in Seq([set : Settings, svc : 1..MaxDefs]) /\ Len(made) <= MaxDefs
  /\ defs \subseteq DOMAIN made /\ lost \subseteq DOMAIN made
  /\ cur \in {0} \cup DOMAIN made
  /\ task \in {NoTask, Foreign} \cup [kind : {"owned"}, cfg : DOMAIN made, drift : BOOLEAN]
  /\ rt.cfg \in {0} \cup DOMAIN made
  /\ \A n \in Pids : proc[n].st \in {"run", "backoff"} => proc[n].cfg \in DOMAIN made
  /\ ctl.pc = "i_define" => Len(made) < MaxDefs /\ ctl.set \in Settings
  /\ ctl.pc \in {"i_register", "i_point"} => ctl.target \in DOMAIN made

\* A launcher runs its child, a live child past its first write has an instance
\* id, and a queued instance has read no configuration.
ProcInv ==
  /\ ids \in Nat
  /\ \A n \in Pids :
       /\ proc[n].st \in {"none", "queued", "run", "backoff"}
       /\ proc[n].child \in Live \cup {"none", "boot"}
       /\ proc[n].child # "none" => proc[n].st = "run"
       /\ proc[n].st = "queued" => proc[n].cfg = 0
       /\ proc[n].st = "none" => ~proc[n].stop
       /\ proc[n].tries \in 0..Retries
       /\ proc[n].id \in 0..ids
       /\ proc[n].id # 0 <=> proc[n].child \in Live \ {"leased"}

\* A live runner holds the lease; from the proof that the service is stopped to
\* the last file of a removal the command does.
LeaseInv ==
  /\ lease \in {Free, Ctl, Peek} \cup Pids
  /\ \A n \in Pids : proc[n].child \in Live => lease = n
  /\ ctl.pc \in {"stopped"} \cup RemovalPoints => lease = Ctl

\* Which command is at which point.
PhaseInv ==
  /\ ctl.pc \in InstallPoints => ctl.op = "install" /\ ctl.ready = Quiet
  /\ ctl.pc \in StartPoints => \/ ctl.op \in {"start", "install"}
                               \/ ctl.op \in {"restart", "update"} /\ ctl.ran
  /\ ctl.pc = "g_verify" => ctl.op = "update" /\ ctl.ran
  /\ ctl.pc = "g_capture" => ctl.op = "update"
  /\ ctl.pc = "ctx" => ctl.op \in {"start", "stop", "restart", "update"}
  /\ ctl.ran => ctl.op # "stop"
  /\ ctl.pc \in StopPoints \cup OrphanPoints \cup {"stopped"} =>
       ctl.op \in {"stop", "restart", "update", "uninstall"}
  /\ ctl.pc \in {"u_scan", "u_prove"} \cup RemovalPoints => ctl.op = "uninstall"
  /\ ctl.out # "none" => ctl.pc = "done"

\* The registration and the pointer resolve; an install carries both from the
\* old definition to the new one; a removal has deregistered first.
IndexInv ==
  /\ TaskResolvable
  /\ ctl.pc \in {"i_register", "i_point", "i_clean"} => ctl.target \in defs \cup lost
  /\ ctl.pc = "i_register" =>
       /\ cur \in {0} \cup defs \cup lost
       /\ ctl.drift \/ (Registered => task.cfg = ctl.target)
  /\ ctl.pc \in {"i_point", "i_clean"} /\ Registered => task.cfg = ctl.target
  /\ ctl.pc = "i_clean" => cur = ctl.target
  /\ ctl.pc \in {"u_rt", "u_defs", "u_cur"} => ~Registered
  /\ ctl.op = "uninstall" /\ ctl.pc \notin {"u_scan", "done"} /\ ~ctl.own => ~Registered

\* In p, the process with instance id runs definition d, if there still is one.
NamedBy(p, id, d) == \A n \in Pids : p[n].id # 0 /\ p[n].id = id => p[n].cfg = d

\* What a runtime document says of its runner is true as long as that runs, and
\* its process id is not used again.
Describes(p, last, doc) ==
  /\ doc.inst \in 0..last
  /\ NamedBy(p, doc.inst, doc.cfg)
  /\ doc.pid \in {0} \cup Pids
  /\ doc.pid # 0 => /\ p[doc.pid].cfg # 0
                    /\ p[doc.pid].st # "none" => p[doc.pid].cfg = doc.cfg

\* The runtime document, and what the command read of it, are exact.
DocInv == Describes(proc, ids, rt) /\ Describes(proc, ids, ctl.seen)

\* Once a command has seen the service stopped, every instance is newer than it.
MarkInv ==
  /\ ctl.mark \in 0..ids
  /\ ctl.ran => \A n \in Pids : proc[n].id # 0 => proc[n].id > ctl.mark

\* What a command is about to stop runs the definition the command is about.
AimInv ==
  /\ ctl.oldId \in 0..ids
  /\ ctl.pc = "i_post" => NamedBy(proc, ctl.oldId, ctl.old)
  /\ ctl.pc \in {"p_lease", "p_post", "o_post"} => NamedBy(proc, ctl.oldId, ctl.target)
  /\ ctl.pc = "p_kill" => ctl.tgt \in Pids
  /\ ctl.pc = "p_kill" /\ ~ctl.obs =>
       /\ proc[ctl.tgt].cfg # 0
       /\ proc[ctl.tgt].st # "none" => proc[ctl.tgt].cfg = ctl.target

\* What a command that ended well says it started.
ReadyInv ==
  /\ ctl.ready.id \in 0..ids
  /\ ctl.out = "ok" /\ ctl.op \in {"start", "install", "restart"} =>
       NamedBy(proc, ctl.ready.id, ctl.target)
  /\ ctl.out = "ok" /\ (ctl.op = "restart" \/ (ctl.op = "update" /\ ctl.run)) =>
       ctl.ready.id > ctl.mark

\* A command that may start the service has a launch left to do it with.
FreshInv ==
  /\ ctl.op \in {"install", "start", "restart", "update"}
  /\ ctl.pc \notin {"s_poll", "s_look", "g_verify", "done", "idle"}
  => Fresh # {}

\* The faults stay in their bound.
TallyInv ==
  faults \in 0..MaxFaults /\ life \in {"missing", "active", "completed", "failed"}

ServiceInv ==
  /\ Shape /\ DiskInv /\ ProcInv /\ LeaseInv /\ PhaseInv /\ IndexInv
  /\ DocInv /\ MarkInv /\ AimInv /\ ReadyInv /\ FreshInv /\ TallyInv

-----------------------------------------------------------------------------
(* What the steps of a command do to it.  The effect of an action says,    *)
(* field by field, what the later proofs need of it.                       *)

\* Of the command's fields only those in F change.
Only(F) ==
  /\ DOMAIN ctl' = DOMAIN Idle
  /\ "op" \notin F => ctl'.op = ctl.op
  /\ "out" \notin F => ctl'.out = ctl.out
  /\ "set" \notin F => ctl'.set = ctl.set
  /\ "old" \notin F => ctl'.old = ctl.old
  /\ "target" \notin F => ctl'.target = ctl.target
  /\ "seen" \notin F => ctl'.seen = ctl.seen
  /\ "ready" \notin F => ctl'.ready = ctl.ready
  /\ "obs" \notin F => ctl'.obs = ctl.obs
  /\ "drift" \notin F => ctl'.drift = ctl.drift
  /\ "tgt" \notin F => ctl'.tgt = ctl.tgt
  /\ "own" \notin F => ctl'.own = ctl.own
  /\ "oldId" \notin F => ctl'.oldId = ctl.oldId
  /\ "mark" \notin F => ctl'.mark = ctl.mark
  /\ "run" \notin F => ctl'.run = ctl.run
  /\ "ran" \notin F => ctl'.ran = ctl.ran

\* Nothing outside the command, the lifecycle document and the lease changes.
Kept == UNCHANGED <<task, disk, rt, proc, ids, faults>>

\* The command is over.
Closed(out, ready) ==
  /\ DOMAIN ctl' = DOMAIN Idle
  /\ ctl'.pc = "done" /\ ctl'.op = ctl.op /\ ctl'.out = out /\ ctl'.ready = ready
  /\ ctl'.target = ctl.target /\ ctl'.mark = ctl.mark /\ ctl'.run = ctl.run
  /\ ctl'.seen = NoRt /\ ctl'.oldId = 0 /\ ctl'.ran = FALSE
  /\ lease' = Release

Reasons == {"state", "restart_required", "not_installed", "drift", "mismatch", "start_timeout",
            "restart_failed", "scheduler", "task_changed", "stop_unsafe", "stop_timeout",
            "conflict"}

Refused == \E reason \in Reasons : Refuse(reason)

\* The fields of a command.
LEMMA Fields ==
  ASSUME Shape
  PROVE  {"pc", "op", "out", "set", "nostart", "old", "target", "seen", "ready", "obs", "drift",
          "tgt", "own", "del", "oldId", "mark", "prev", "run", "ran"} = DOMAIN ctl
BY DEF Shape, Idle

\* Goto changes the point the command is at and nothing else of it.
LEMMA GotoEffect ==
  ASSUME Shape, NEW to, Goto(to)
  PROVE  Only({"pc"}) /\ ctl'.pc = to
BY Fields DEF Only, Goto, Shape

\* Done keeps what the command was about and resets the rest.
LEMMA DoneEffect ==
  ASSUME NEW c, NEW out, ctl' = Done(c, out), lease' = Release,
         c.op = ctl.op, c.target = ctl.target, c.mark = ctl.mark, c.run = ctl.run
  PROVE  Closed(out, c.ready)
BY DEF Closed, Done, Idle

\* The command, but for what it says of the running instance.
LEMMA Answered ==
  ASSUME Shape, NEW r, NEW c, c = [ctl EXCEPT !.ready = r]
  PROVE  /\ c.op = ctl.op /\ c.target = ctl.target /\ c.mark = ctl.mark /\ c.run = ctl.run
         /\ c.ready = r
BY Fields

\* A refusal ends the command with a reason, and changes only the two leases
\* and the lifecycle document.
LEMMA RefusedEffect ==
  ASSUME Shape, Refused
  PROVE  /\ Kept /\ Closed(ctl'.out, Quiet) /\ ctl'.out \in Reasons
         /\ life' \in {life, "failed"}
<1>1. PICK reason \in Reasons : Refuse(reason)
  BY DEF Refused
<1> DEFINE c == [ctl EXCEPT !.ready = Quiet]
<1>2. ctl' = Done(c, reason) /\ lease' = Release /\ Kept /\ life' \in {life, "failed"}
  BY <1>1 DEF Refuse, Kept
<1>3. /\ c.op = ctl.op /\ c.target = ctl.target /\ c.mark = ctl.mark /\ c.run = ctl.run
      /\ c.ready = Quiet
  BY Answered
<1>4. Closed(reason, Quiet)
  <2> HIDE DEF c
  <2> QED BY <1>2, <1>3, DoneEffect
<1> QED BY <1>1, <1>2, <1>4 DEF Closed

\* The command ends well, naming instance r.
LEMMA FinishEffect ==
  ASSUME Shape, NEW r, Finish([ctl EXCEPT !.ready = r])
  PROVE  /\ Closed("ok", r)
         /\ life' \in {life, "missing", "completed"}
<1> DEFINE c == [ctl EXCEPT !.ready = r]
<1>1. ctl' = Done(c, "ok") /\ lease' = Release /\ life' \in {life, "missing", "completed"}
  BY DEF Finish
<1>2. /\ c.op = ctl.op /\ c.target = ctl.target /\ c.mark = ctl.mark /\ c.run = ctl.run
      /\ c.ready = r
  BY Answered
<1> HIDE DEF c
<1> QED BY <1>1, <1>2, DoneEffect

\* A command that ends well without a probe keeps what it knew.
LEMMA FinishAsIs ==
  ASSUME Finish(ctl)
  PROVE  /\ Closed("ok", ctl.ready)
         /\ life' \in {life, "missing", "completed"}
BY DoneEffect DEF Finish

\* A probe that reads ready found a serving runner, the one the document names.
Found(d, doc, r) ==
  /\ doc.cfg = d /\ doc.inst = r.id
  /\ \E n \in Pids : proc[n].child = "serving" /\ proc[n].id = r.id

\* What HttpReadinessProbe::inspect calls ready is the instance expected.
LEMMA ProbeFound ==
  ASSUME NEW d, NEW doc, NEW r \in Probe(d, doc, FALSE), r.st = "ready"
  PROVE  Found(d, doc, r)
BY DEF Found, Probe, Answering, Quiet

\* A command begins with nothing noted but the last instance id given out.
LEMMA BeginEffect ==
  ASSUME NEW op \in Ops, NEW set, NEW nostart, Begin(op, set, nostart)
  PROVE  /\ ctl.pc = "idle" /\ DOMAIN ctl' = DOMAIN Idle
         /\ ctl'.op = op /\ ctl'.set = set /\ ctl'.mark = ids
         /\ ctl'.out = "none" /\ ctl'.seen = NoRt /\ ctl'.ready = Quiet
         /\ ctl'.oldId = 0 /\ ctl'.ran = FALSE
         /\ ctl'.pc = CASE op = "install" -> "i_define" [] op = "uninstall" -> "u_scan"
                        [] op = "update" -> "g_capture" [] OTHER -> "ctx"
         /\ op \in {"install", "start", "restart", "update"} => Fresh # {}
         /\ op = "install" => Len(made) < MaxDefs
         /\ Kept /\ lease' = lease /\ life' \in {life, "active"}
BY DEF Begin, Idle, Kept

\* The updater's guard notes whether the service was running.
LEMMA GuardCaptureEffect ==
  ASSUME Shape, GuardCapture
  PROVE  /\ ctl.pc = "g_capture" /\ ctl'.pc = "ctx" /\ Only({"pc", "run", "prev"})
         /\ Kept /\ UNCHANGED <<life, lease>>
<1>1. ctl.pc = "g_capture" /\ Kept /\ UNCHANGED <<life, lease>>
  BY DEF GuardCapture, Kept
<1>2. \/ ctl' = [ctl EXCEPT !.pc = "ctx", !.run = Instances # {}]
      \/ \E r : ctl' = [ctl EXCEPT !.pc = "ctx", !.run = WasRunning(r),
                                !.prev = IF ~WasRunning(r) THEN 0
                                         ELSE IF r.id # 0 THEN r.id ELSE rt.inst]
  BY DEF GuardCapture
<1> QED BY <1>1, <1>2, Fields DEF Only, Shape

\* A restore ends well only on an instance the probe found.
LEMMA GuardVerifyEffect ==
  ASSUME Shape, GuardVerify
  PROVE  /\ ctl.pc = "g_verify"
         /\ \/ Refused
            \/ /\ Kept /\ life' \in {life, "missing", "completed"}
               /\ \E r : Closed("ok", r) /\ Found(task.cfg, rt, r)
<1>1. PICK r \in IF Registered /\ task.cfg \in defs THEN Probe(task.cfg, rt, FALSE) ELSE {Quiet} :
        IF r.st = "ready" /\ r.id # ctl.prev
        THEN Finish([ctl EXCEPT !.ready = r]) /\ Kept
        ELSE Refuse("restart_failed")
  BY DEF GuardVerify, Kept
<1>2. CASE r.st = "ready" /\ r.id # ctl.prev
  <2>1. r \in Probe(task.cfg, rt, FALSE)
    <3>1. r # Quiet
      BY <1>2 DEF Quiet
    <3>2. CASE Registered /\ task.cfg \in defs
      BY <3>2
    <3>3. CASE ~(Registered /\ task.cfg \in defs)
      BY <3>1, <3>3
    <3> QED BY <3>2, <3>3
  <2> QED BY <1>1, <1>2, <2>1, ProbeFound, FinishEffect DEF GuardVerify
<1>3. CASE ~(r.st = "ready" /\ r.id # ctl.prev)
  BY <1>1, <1>3 DEF Refused, Reasons, GuardVerify
<1> QED BY <1>2, <1>3

\* An install keeps the definition it found or adds one; unless the task differs
\* from it, the task already names the target.
LEMMA InstallDefineEffect ==
  ASSUME Shape, InstallDefine
  PROVE  /\ ctl.pc = "i_define"
         /\ \/ Refused
            \/ /\ Only({"pc", "old", "target", "drift"}) /\ ctl'.pc = "i_register"
               /\ Registered => task.cfg \in defs
               /\ ~Registered /\ cur # 0 => cur \in defs
               /\ \/ /\ made' = made /\ defs' = defs
                     /\ ctl'.target = Existing /\ Existing # 0
                  \/ /\ made' = Append(made, [set |-> ctl.set,
                                              svc |-> IF Existing = 0 THEN Len(made) + 1
                                                      ELSE made[Existing].svc])
                     /\ defs' = defs \cup {Len(made) + 1}
                     /\ ctl'.target = Len(made) + 1
               /\ ctl'.drift \/ (Registered /\ ctl'.target = task.cfg)
               /\ UNCHANGED <<task, lost, cur, rt, life, lease, proc, ids, faults>>
<1>1. CASE Refuse("state")
  BY <1>1 DEF Refused, Reasons, InstallDefine
<1>2. CASE ~Refuse("state")
  <2> DEFINE same == Existing # 0 /\ made[Existing].set = ctl.set
  <2>1. /\ ctl' = [ctl EXCEPT !.pc = "i_register", !.old = Existing,
                              !.target = IF same THEN Existing ELSE Len(made) + 1,
                              !.drift = ~same \/ ~Registered \/ task.drift]
        /\ made' = IF same THEN made
                   ELSE Append(made, [set |-> ctl.set,
                                      svc |-> IF Existing = 0 THEN Len(made) + 1
                                              ELSE made[Existing].svc])
        /\ defs' = IF same THEN defs ELSE defs \cup {Len(made) + 1}
    BY <1>2 DEF InstallDefine
  <2>2. /\ Registered => task.cfg \in defs
        /\ ~Registered /\ cur # 0 => cur \in defs
        /\ ctl.pc = "i_define"
        /\ UNCHANGED <<task, lost, cur, rt, life, lease, proc, ids, faults>>
    BY <1>2 DEF InstallDefine
  <2>3. Only({"pc", "old", "target", "drift"}) /\ ctl'.pc = "i_register"
    BY <2>1, Fields DEF Only, Shape
  <2>4. /\ ctl'.target = IF same THEN Existing ELSE Len(made) + 1
        /\ ctl'.drift = (~same \/ ~Registered \/ task.drift)
    BY <2>1, Fields
  <2>5. ctl'.drift \/ (Registered /\ ctl'.target = task.cfg)
    BY <2>4 DEF Existing
  <2> QED BY <2>1, <2>2, <2>3, <2>4, <2>5
<1> QED BY <1>1, <1>2

\* The cleanup keeps the pointer's definition and the runtime document's.
LEMMA InstallCleanEffect ==
  ASSUME Shape, InstallClean
  PROVE  /\ ctl.pc = "i_clean" /\ defs' = defs \cap {cur, rt.cfg}
         /\ UNCHANGED <<task, made, lost, cur, rt, proc, ids, faults>>
         /\ \/ Closed("ok", ctl.ready) /\ life' \in {life, "missing", "completed"}
            \/ /\ Only({"pc"}) /\ ctl'.pc \in {"i_replace", "s_read"}
               /\ UNCHANGED <<life, lease>>
BY FinishAsIs, GotoEffect DEF InstallClean, Retained

\* A replacement aims at the instance of the old definition the probe found.
LEMMA InstallReplaceEffect ==
  ASSUME Shape, InstallReplace
  PROVE  /\ ctl.pc = "i_replace"
         /\ \/ Refused
            \/ /\ Only({"pc"}) /\ ctl'.pc = "s_read" /\ Kept /\ UNCHANGED <<life, lease>>
            \/ /\ Only({"pc", "oldId"}) /\ ctl'.pc = "i_post" /\ Kept /\ UNCHANGED <<life, lease>>
               /\ \E r : ctl'.oldId = r.id /\ Found(ctl.old, rt, r)
<1>1. CASE ~OldActive
  BY <1>1, GotoEffect DEF InstallReplace, Kept
<1>2. CASE OldActive
  <2>1. PICK r \in Probe(ctl.old, rt, FALSE) :
          \/ r.st # "ready" /\ Refuse("restart_required")
          \/ /\ r.st = "ready"
             /\ ctl' = [ctl EXCEPT !.pc = "i_post", !.oldId = r.id]
             /\ Kept /\ UNCHANGED <<life, lease>>
    BY <1>2 DEF InstallReplace, Kept
  <2>2. CASE Refuse("restart_required")
    BY <2>2 DEF InstallReplace, Refused, Reasons
  <2>3. CASE /\ r.st = "ready"
             /\ ctl' = [ctl EXCEPT !.pc = "i_post", !.oldId = r.id]
             /\ Kept /\ UNCHANGED <<life, lease>>
    <3>1. Found(ctl.old, rt, r)
      BY <2>3, ProbeFound
    <3>2. Only({"pc", "oldId"}) /\ ctl'.pc = "i_post" /\ ctl'.oldId = r.id
      BY <2>3, Fields DEF Only, Shape
    <3> QED BY <2>3, <3>1, <3>2 DEF InstallReplace
  <2> QED BY <2>1, <2>2, <2>3
<1> QED BY <1>1, <1>2

\* A control shutdown that is accepted drains the instance asked for.
Shutdown(from, to) ==
  /\ ctl.pc = from /\ Only({"pc"}) /\ ctl'.pc = to
  /\ proc' = Drained(Asked(ctl.oldId))
  /\ UNCHANGED <<task, disk, rt, life, lease, ids, faults>>

\* An accepted control shutdown, field by field.
LEMMA ShutdownEffect ==
  ASSUME Shape, NEW from, NEW to, ctl.pc = from, ctl' = [ctl EXCEPT !.pc = to],
         proc' = Drained(Asked(ctl.oldId)),
         UNCHANGED <<task, disk, rt, life, lease, ids, faults>>
  PROVE  Shutdown(from, to)
BY Fields DEF Shutdown, Only, Shape

\* An install asks the old instance to stop, or gives up.
LEMMA InstallPostEffect ==
  ASSUME Shape, InstallPost
  PROVE  ctl.pc = "i_post" /\ (Refused \/ Shutdown("i_post", "i_wait"))
BY ShutdownEffect DEF InstallPost, Post, Refused, Reasons

\* A stop asks the instance to stop, or falls back to the scheduler.
LEMMA StopPostEffect ==
  ASSUME Shape, StopPost
  PROVE  /\ ctl.pc = "p_post"
         /\ \/ Shutdown("p_post", "p_grace")
            \/ Only({"pc"}) /\ ctl'.pc = "p_fall" /\ Kept /\ UNCHANGED <<life, lease>>
BY ShutdownEffect, GotoEffect DEF StopPost, Post, Kept

\* The stop of an orphan asks the instance to stop, or gives up.
LEMMA OrphanPostEffect ==
  ASSUME Shape, OrphanPost
  PROVE  ctl.pc = "o_post" /\ (Refused \/ Shutdown("o_post", "o_wait"))
BY ShutdownEffect DEF OrphanPost, Post, Refused, Reasons

\* An install goes on to the start, or gives up.
LEMMA InstallWaitEffect ==
  ASSUME Shape, InstallWait
  PROVE  /\ ctl.pc = "i_wait"
         /\ \/ Refused
            \/ Only({"pc"}) /\ ctl'.pc = "s_read" /\ Kept /\ UNCHANGED <<life, lease>>
BY GotoEffect DEF InstallWait, Refused, Reasons, Kept

\* With a context, a command goes on to its start or its stop.
LEMMA ContextEffect ==
  ASSUME Shape, Context
  PROVE  /\ ctl.pc = "ctx"
         /\ \/ Refused
            \/ /\ Only({"pc"}) /\ ctl'.pc = "o_lease" /\ ctl.op = "update"
               /\ Kept /\ UNCHANGED <<life, lease>>
            \/ /\ Only({"pc", "target", "obs", "drift", "own"})
               /\ ctl'.pc = IF ctl.op = "start" \/ ctl.ran THEN "s_read" ELSE "p_read"
               /\ ctl'.own = TRUE /\ lease' = Release /\ Kept /\ UNCHANGED life
<1>1. CASE Refuse(ContextError) /\ ContextError # "none"
  <2>1. ContextError \in Reasons
    BY <1>1 DEF ContextError, Reasons
  <2> QED BY <1>1, <2>1 DEF Context, Refused
<1>2. CASE Goto("o_lease") /\ ctl.op = "update" /\ Kept /\ UNCHANGED <<life, lease>>
  BY <1>2, GotoEffect DEF Context
<1>3. CASE /\ ctl' = [ctl EXCEPT
                     !.pc = IF ctl.op = "start" \/ ctl.ran THEN "s_read" ELSE "p_read",
                     !.target = cur, !.obs = Instances # {}, !.drift = task.drift,
                     !.own = TRUE]
           /\ lease' = Release /\ Kept /\ UNCHANGED life
  <2>1. /\ Only({"pc", "target", "obs", "drift", "own"}) /\ ctl'.own = TRUE
        /\ ctl'.pc = IF ctl.op = "start" \/ ctl.ran THEN "s_read" ELSE "p_read"
    BY <1>3, Fields DEF Only, Shape
  <2> QED BY <1>3, <2>1 DEF Context
<1> QED BY <1>1, <1>2, <1>3 DEF Context, Kept

\* A start reads the runtime document before every probe.
LEMMA StartReadEffect ==
  ASSUME Shape, StartRead
  PROVE  /\ \/ ctl.pc = "s_read" /\ ctl'.pc = "s_probe"
            \/ ctl.pc = "s_poll" /\ ctl'.pc = "s_look"
         /\ Only({"pc", "seen"}) /\ ctl'.seen = rt /\ Kept /\ UNCHANGED <<life, lease>>
<1>1. ctl' = [ctl EXCEPT !.pc = IF ctl.pc = "s_read" THEN "s_probe" ELSE "s_look", !.seen = rt]
  BY DEF StartRead
<1>2. /\ Only({"pc", "seen"}) /\ ctl'.seen = rt
      /\ ctl'.pc = IF ctl.pc = "s_read" THEN "s_probe" ELSE "s_look"
  BY <1>1, Fields DEF Only, Shape
<1> QED BY <1>2 DEF StartRead, Kept

\* A start ends well only on an instance the probe found.
LEMMA StartProbeEffect ==
  ASSUME Shape, StartProbe
  PROVE  /\ ctl.pc \in {"s_probe", "s_look"}
         /\ \/ Refused
            \/ /\ Only({"pc"}) /\ Kept /\ UNCHANGED <<life, lease>>
               /\ ctl'.pc = IF ctl.pc = "s_probe" THEN "s_run" ELSE "s_poll"
            \/ /\ Only({"pc"}) /\ Kept /\ UNCHANGED <<life, lease>>
               /\ ctl'.pc = "g_verify" /\ ctl.op = "update"
            \/ /\ Kept /\ life' \in {life, "missing", "completed"} /\ ctl.op # "update"
               /\ \E r : Closed("ok", r) /\ Found(ctl.target, ctl.seen, r)
<1>1. PICK r \in Probe(ctl.target, ctl.seen, FALSE) :
        \/ r.st = "ready" /\ Started(r)
        \/ r.st = "mismatch" /\ Refuse("mismatch")
        \/ /\ r.st = "not_ready"
           /\ Goto(IF ctl.pc = "s_probe" THEN "s_run" ELSE "s_poll")
           /\ Kept /\ UNCHANGED <<life, lease>>
  BY DEF StartProbe, Kept
<1>2. CASE r.st = "ready" /\ Started(r)
  <2>1. CASE ctl.op = "restart" /\ ctl.oldId # 0 /\ r.id = ctl.oldId
    BY <1>2, <2>1 DEF Started, Refused, Reasons, StartProbe
  <2>2. CASE ~(ctl.op = "restart" /\ ctl.oldId # 0 /\ r.id = ctl.oldId) /\ ctl.op = "update"
    BY <1>2, <2>2, GotoEffect DEF Started, Kept, StartProbe
  <2>3. CASE ~(ctl.op = "restart" /\ ctl.oldId # 0 /\ r.id = ctl.oldId) /\ ctl.op # "update"
    <3>1. Finish([ctl EXCEPT !.ready = r]) /\ Kept
      BY <1>2, <2>3 DEF Started, Kept
    <3> QED BY <1>2, <2>3, <3>1, FinishEffect, ProbeFound DEF StartProbe
  <2> QED BY <2>1, <2>2, <2>3
<1>3. CASE r.st = "mismatch" /\ Refuse("mismatch")
  BY <1>3 DEF Refused, Reasons, StartProbe
<1>4. CASE /\ Goto(IF ctl.pc = "s_probe" THEN "s_run" ELSE "s_poll")
           /\ Kept /\ UNCHANGED <<life, lease>>
  BY <1>4, GotoEffect DEF StartProbe
<1> QED BY <1>1, <1>2, <1>3, <1>4

\* A start that runs out of time is refused.
LEMMA StartTimeoutEffect ==
  ASSUME StartTimeout
  PROVE  Refused
BY DEF StartTimeout, Refused, Reasons

\* A start queues at most one instance.
LEMMA StartRunEffect ==
  ASSUME Shape, StartRun
  PROVE  /\ ctl.pc = "s_run"
         /\ \/ Refused
            \/ /\ Only({"pc"}) /\ ctl'.pc = "s_poll"
               /\ proc' = proc \/ proc' = Queued(proc, NextPid)
               /\ UNCHANGED <<task, disk, rt, life, lease, ids, faults>>
BY GotoEffect DEF StartRun, Refused, Reasons

\* A stop reads the runtime document before the probe.
LEMMA StopReadEffect ==
  ASSUME Shape, StopRead
  PROVE  /\ ctl.pc = "p_read" /\ Only({"pc", "seen"}) /\ ctl'.pc = "p_probe"
         /\ ctl'.seen = rt /\ Kept /\ UNCHANGED <<life, lease>>
<1>1. ctl' = [ctl EXCEPT !.pc = "p_probe", !.seen = rt]
  BY DEF StopRead
<1>2. Only({"pc", "seen"}) /\ ctl'.seen = rt /\ ctl'.pc = "p_probe"
  BY <1>1, Fields DEF Only, Shape
<1> QED BY <1>2 DEF StopRead, Kept

\* A stop aims at the instance the probe found, if it found one.
LEMMA StopProbeEffect ==
  ASSUME Shape, StopProbe
  PROVE  /\ ctl.pc = "p_probe" /\ Only({"pc", "ready", "oldId"}) /\ ctl'.pc = "p_lease"
         /\ Kept /\ UNCHANGED <<life, lease>>
         /\ ctl'.ready.id = 0 \/ \E n \in Pids : ctl'.ready.id = proc[n].id
         /\ ctl'.oldId = 0 \/ \E r : ctl'.oldId = r.id /\ Found(ctl.target, ctl.seen, r)
<1>1. PICK r \in Probe(ctl.target, ctl.seen, FALSE) :
        ctl' = [ctl EXCEPT !.pc = "p_lease", !.ready = r,
                           !.oldId = IF r.st = "ready" THEN r.id ELSE 0]
  BY DEF StopProbe
<1>2. /\ Only({"pc", "ready", "oldId"}) /\ ctl'.pc = "p_lease" /\ ctl'.ready = r
      /\ ctl'.oldId = IF r.st = "ready" THEN r.id ELSE 0
  BY <1>1, Fields DEF Only, Shape
<1>3. r.id = 0 \/ \E n \in Pids : r.id = proc[n].id
  BY DEF Probe, Quiet, Answering
<1>4. r.st = "ready" => Found(ctl.target, ctl.seen, r)
  BY ProbeFound
<1> QED BY <1>2, <1>3, <1>4 DEF StopProbe, Kept

\* A stop that is over at once has taken a free lease.
LEMMA StopLeaseEffect ==
  ASSUME Shape, StopLease
  PROVE  /\ ctl.pc = "p_lease"
         /\ \/ Refused
            \/ /\ Only({"pc"}) /\ ctl'.pc \in {"stopped", "p_post", "p_fall"}
               /\ lease' = IF lease = Free THEN Ctl ELSE lease
               /\ ctl'.pc = "stopped" => lease = Free
               /\ Kept /\ UNCHANGED life
<1>1. CASE Refuse("task_changed")
  BY <1>1 DEF StopLease, Refused, Reasons
<1>2. CASE ~Refuse("task_changed")
  <2> DEFINE to == IF lease = Free /\ ~ctl.obs /\ Instances = {} /\ ctl.ready.st # "ready"
                   THEN "stopped"
                   ELSE IF lease # Free /\ ctl.ready.st = "ready" THEN "p_post" ELSE "p_fall"
  <2>1. /\ Goto(to) /\ ctl.pc = "p_lease" /\ lease' = IF lease = Free THEN Ctl ELSE lease
        /\ Kept /\ UNCHANGED life
    BY <1>2 DEF StopLease, Kept
  <2>2. to \in {"stopped", "p_post", "p_fall"} /\ (to = "stopped" => lease = Free)
    OBVIOUS
  <2> HIDE DEF to
  <2> QED BY <2>1, <2>2, GotoEffect
<1> QED BY <1>1, <1>2

\* A wait for quiescence that is over, or that has taken the lease and goes on.
LEMMA StopWaitEffect ==
  ASSUME Shape, NEW from, StopWait(from)
  PROVE  /\ ctl.pc = from
         /\ \/ Refused
            \/ /\ Only({"pc"}) /\ ctl'.pc = "stopped" /\ lease \in {Free, Ctl} /\ lease' = Ctl
               /\ Kept /\ UNCHANGED life
            \/ /\ UNCHANGED ctl /\ lease = Free /\ lease' = Ctl /\ Kept /\ UNCHANGED life
BY GotoEffect DEF StopWait, Quiesced, Refused, Reasons, Kept

\* The grace period is a wait, or ends and lets the lease go.
LEMMA StopGraceEffect ==
  ASSUME Shape, StopGrace
  PROVE  /\ ctl.pc = "p_grace"
         /\ \/ StopWait("p_grace")
            \/ Only({"pc"}) /\ ctl'.pc = "p_fall" /\ lease' = Release /\ Kept /\ UNCHANGED life
BY GotoEffect DEF StopGrace, StopWait, Kept

\* The wait after a forced stop ends, or times out.
LEMMA StopForcedEffect ==
  ASSUME StopForced
  PROVE  ctl.pc = "p_wait" /\ (Refused \/ StopWait("p_wait"))
BY DEF StopForced, StopWait, Refused, Reasons

\* select_stop_target takes a queued instance, or the one the document names.
LEMMA StopFallbackEffect ==
  ASSUME Shape, StopFallback
  PROVE  /\ ctl.pc = "p_fall"
         /\ \/ Refused
            \/ /\ Only({"pc", "tgt", "obs"}) /\ ctl'.pc = "p_kill"
               /\ Kept /\ UNCHANGED <<life, lease>>
               /\ ctl'.tgt \in Pids
               /\ \/ ctl'.obs
                  \/ /\ proc[ctl'.tgt].st \in {"run", "backoff"}
                     /\ ctl.seen.cfg = ctl.target /\ ctl.seen.pid = ctl'.tgt
<1>1. CASE Refuse("stop_unsafe")
  BY <1>1 DEF StopFallback, Refused, Reasons
<1>2. CASE ~Refuse("stop_unsafe")
  <2>1. PICK n \in StopTarget :
          ctl' = [ctl EXCEPT !.pc = "p_kill", !.tgt = n, !.obs = proc[n].st = "queued"]
    BY <1>2 DEF StopFallback
  <2>2. ctl.pc = "p_fall" /\ Kept /\ UNCHANGED <<life, lease>>
    BY <1>2 DEF StopFallback, Kept
  <2>3. /\ Only({"pc", "tgt", "obs"}) /\ ctl'.pc = "p_kill" /\ ctl'.tgt = n
        /\ ctl'.obs = (proc[n].st = "queued")
    BY <2>1, Fields DEF Only, Shape
  <2>4. n \in RunningTarget \/ n \in QueuedTarget
    BY <2>1 DEF StopTarget
  <2> QED BY <2>2, <2>3, <2>4 DEF RunningTarget, QueuedTarget, Instances
<1> QED BY <1>1, <1>2

\* stop_instance reaches the selected instance in the state it was selected in.
LEMMA StopKillEffect ==
  ASSUME Shape, StopKill
  PROVE  /\ ctl.pc = "p_kill"
         /\ \/ Refused
            \/ /\ Only({"pc"}) /\ ctl'.pc = "p_wait"
               /\ UNCHANGED <<task, disk, rt, life, lease, ids, faults>>
               /\ \/ proc' = proc
                  \/ /\ proc' = [proc EXCEPT ![ctl.tgt].stop = TRUE]
                     /\ ctl.tgt \in Instances
                     /\ (proc[ctl.tgt].st = "queued") = ctl.obs
BY GotoEffect DEF StopKill, Refused, Reasons

\* With the proof that the service is stopped a stop ends; a restart, an update
\* and an uninstall go on, the uninstall with the lease.
LEMMA StoppedEffect ==
  ASSUME Shape, Stopped
  PROVE  /\ ctl.pc = "stopped" /\ Kept
         /\ \/ /\ Closed("ok", ctl.ready) /\ life' \in {life, "missing", "completed"}
               /\ ctl.op = "stop" \/ (ctl.op = "update" /\ ~ctl.run)
            \/ /\ Only({"pc", "ran"}) /\ ctl'.ran = TRUE /\ ctl.op # "stop"
               /\ ctl'.pc = IF ctl.op = "uninstall" THEN (IF ctl.own THEN "u_task" ELSE "u_rt")
                            ELSE "ctx"
               /\ lease' = IF ctl.op = "update" THEN Release ELSE lease
               /\ UNCHANGED life
<1>1. CASE ctl.op = "stop" \/ (ctl.op = "update" /\ ~ctl.run)
  BY <1>1, FinishAsIs DEF Stopped, Kept
<1>2. CASE ~(ctl.op = "stop" \/ (ctl.op = "update" /\ ~ctl.run))
  <2> DEFINE to == IF ctl.op = "uninstall" THEN (IF ctl.own THEN "u_task" ELSE "u_rt") ELSE "ctx"
  <2>1. ctl' = [ctl EXCEPT !.pc = to, !.ran = TRUE]
    BY <1>2 DEF Stopped
  <2>2. Only({"pc", "ran"}) /\ ctl'.ran = TRUE /\ ctl'.pc = to
    <3> HIDE DEF to
    <3> QED BY <2>1, Fields DEF Only, Shape
  <2> QED BY <1>2, <2>2 DEF Stopped, Kept, KeptGuard
<1> QED BY <1>1, <1>2

\* Without a registration a free lease is proof enough.
LEMMA OrphanLeaseEffect ==
  ASSUME Shape, OrphanLease
  PROVE  /\ ctl.pc = "o_lease"
         /\ \/ Refused
            \/ /\ Only({"pc"}) /\ ctl'.pc = "stopped" /\ lease = Free /\ lease' = Ctl
               /\ Kept /\ UNCHANGED life
            \/ /\ Only({"pc", "target", "seen"}) /\ ctl'.pc = "o_probe" /\ ctl'.seen = rt
               /\ Kept /\ UNCHANGED <<life, lease>>
<1>1. CASE Refuse("stop_unsafe")
  BY <1>1 DEF OrphanLease, Refused, Reasons
<1>2. CASE /\ ctl' = [ctl EXCEPT !.pc = "o_probe", !.target = cur, !.seen = rt]
           /\ Kept /\ UNCHANGED <<life, lease>>
  <2>1. Only({"pc", "target", "seen"}) /\ ctl'.pc = "o_probe" /\ ctl'.seen = rt
    BY <1>2, Fields DEF Only, Shape
  <2> QED BY <1>2, <2>1 DEF OrphanLease
<1> QED BY <1>1, <1>2, GotoEffect DEF OrphanLease, Kept

\* The stop of an orphan aims at the instance the probe found.
LEMMA OrphanProbeEffect ==
  ASSUME Shape, OrphanProbe
  PROVE  /\ ctl.pc = "o_probe"
         /\ \/ Refused
            \/ /\ Only({"pc", "oldId"}) /\ ctl'.pc = "o_post" /\ Kept /\ UNCHANGED <<life, lease>>
               /\ \E r : ctl'.oldId = r.id /\ Found(ctl.target, ctl.seen, r)
<1>1. PICK r \in Probe(ctl.target, ctl.seen, FALSE) :
        \/ r.st # "ready" /\ Refuse("stop_unsafe")
        \/ /\ r.st = "ready"
           /\ ctl' = [ctl EXCEPT !.pc = "o_post", !.oldId = r.id]
           /\ Kept /\ UNCHANGED <<life, lease>>
  BY DEF OrphanProbe, Kept
<1>2. CASE Refuse("stop_unsafe")
  BY <1>2 DEF OrphanProbe, Refused, Reasons
<1>3. CASE /\ r.st = "ready"
           /\ ctl' = [ctl EXCEPT !.pc = "o_post", !.oldId = r.id]
           /\ Kept /\ UNCHANGED <<life, lease>>
  <2>1. Only({"pc", "oldId"}) /\ ctl'.pc = "o_post" /\ ctl'.oldId = r.id
    BY <1>3, Fields DEF Only, Shape
  <2> QED BY <1>3, <2>1, ProbeFound DEF OrphanProbe
<1> QED BY <1>1, <1>2, <1>3

\* The wait for an orphan ends with its lease, or times out.
LEMMA OrphanWaitEffect ==
  ASSUME Shape, OrphanWait
  PROVE  /\ ctl.pc = "o_wait"
         /\ \/ Refused
            \/ /\ Only({"pc"}) /\ ctl'.pc = "stopped" /\ lease = Free /\ lease' = Ctl
               /\ Kept /\ UNCHANGED life
BY GotoEffect DEF OrphanWait, Refused, Reasons, Kept

\* An uninstall notes whether it owns the registration.
LEMMA UninstallScanEffect ==
  ASSUME Shape, UninstallScan
  PROVE  /\ ctl.pc = "u_scan"
         /\ \/ Refused
            \/ /\ Only({"pc", "del", "own", "target", "obs", "drift"})
               /\ ctl'.pc \in {"o_lease", "p_read", "u_prove"}
               /\ ctl'.own = Registered /\ Kept /\ UNCHANGED <<life, lease>>
<1>1. CASE Refuse("conflict")
  BY <1>1 DEF UninstallScan, Refused, Reasons
<1>2. CASE ~Refuse("conflict")
  <2>1. ctl' = [ctl EXCEPT !.del = DeletionSet, !.own = Registered,
                           !.target = task.cfg, !.obs = Instances # {},
                           !.drift = task.drift,
                           !.pc = IF ~Registered THEN "o_lease"
                                  ELSE IF task.cfg \in defs THEN "p_read" ELSE "u_prove"]
    BY <1>2 DEF UninstallScan
  <2>2. /\ Only({"pc", "del", "own", "target", "obs", "drift"}) /\ ctl'.own = Registered
        /\ ctl'.pc \in {"o_lease", "p_read", "u_prove"}
    BY <2>1, Fields DEF Only, Shape
  <2> QED BY <1>2, <2>2 DEF UninstallScan, Kept
<1> QED BY <1>1, <1>2

\* Without a definition an uninstall goes on only with a free lease.
LEMMA UninstallProveEffect ==
  ASSUME Shape, UninstallProve
  PROVE  /\ ctl.pc = "u_prove"
         /\ \/ Refused
            \/ /\ Only({"pc"}) /\ ctl'.pc = "stopped" /\ lease = Free /\ lease' = Ctl
               /\ Kept /\ UNCHANGED life
BY GotoEffect DEF UninstallProve, Refused, Reasons, Kept

\* The pointer is the last thing an uninstall removes.
LEMMA UninstallCurrentEffect ==
  ASSUME UninstallCurrent
  PROVE  /\ ctl.pc = "u_cur" /\ cur' = 0
         /\ UNCHANGED <<task, made, defs, lost, rt, proc, ids, faults>>
         /\ Closed("ok", ctl.ready) /\ life' \in {life, "missing", "completed"}
BY FinishAsIs DEF UninstallCurrent

-----------------------------------------------------------------------------
(* What the steps do to the processes.                                     *)

\* No process but n changes.
Others(n) == DOMAIN proc' = Pids /\ \A m \in Pids \ {n} : proc'[m] = proc[m]

\* Process n ends.
Ends(n) == Others(n) /\ proc'[n] = Ended

\* Of the fields of process n only those in F change.
Alike(n, F) ==
  /\ DOMAIN proc'[n] = DOMAIN Gone
  /\ "st" \notin F => proc'[n].st = proc[n].st
  /\ "owned" \notin F => proc'[n].owned = proc[n].owned
  /\ "cfg" \notin F => proc'[n].cfg = proc[n].cfg
  /\ "tries" \notin F => proc'[n].tries = proc[n].tries
  /\ "stop" \notin F => proc'[n].stop = proc[n].stop
  /\ "child" \notin F => proc'[n].child = proc[n].child
  /\ "id" \notin F => proc'[n].id = proc[n].id

\* The fields of a process.
LEMMA ProcFields ==
  {"st", "owned", "cfg", "tries", "stop", "child", "id"} = DOMAIN Gone
BY DEF Gone

\* What is left of a process that ended.
LEMMA EndedFields ==
  /\ DOMAIN Ended = DOMAIN Gone /\ Ended.st = "none" /\ Ended.cfg = MaxDefs + 1
  /\ Ended.tries = 0 /\ Ended.stop = FALSE /\ Ended.child = "none" /\ Ended.id = 0
BY DEF Ended, Gone

\* The end of a process concerns no other.
LEMMA EndsEffect ==
  ASSUME Shape, NEW n \in Pids, proc' = [proc EXCEPT ![n] = Ended]
  PROVE  Ends(n)
BY DEF Shape, Ends, Others

\* A queued instance starts what the registration names then, or ends.
LEMMA LaunchEffect ==
  ASSUME Shape, NEW n \in Pids, Launch(n)
  PROVE  /\ proc[n].st = "queued" /\ UNCHANGED <<task, disk, rt, life, lease, ids, ctl, faults>>
         /\ \/ Ends(n)
            \/ /\ Others(n) /\ Alike(n, {"st", "cfg", "child"}) /\ Registered
               /\ proc'[n].st = "run" /\ proc'[n].cfg = task.cfg /\ proc'[n].child = "boot"
<1>1. CASE Registered /\ proc[n].owned
  <2>1. Others(n) /\ proc'[n] = [proc[n] EXCEPT !.st = "run", !.cfg = task.cfg, !.child = "boot"]
    BY <1>1 DEF Launch, Shape, Others
  <2>2. /\ Alike(n, {"st", "cfg", "child"}) 
        /\ proc'[n].st = "run" /\ proc'[n].cfg = task.cfg /\ proc'[n].child = "boot"
    BY <2>1, ProcFields DEF Shape, Alike
  <2> QED BY <1>1, <2>1, <2>2 DEF Launch
<1>2. CASE ~(Registered /\ proc[n].owned)
  BY <1>2, EndsEffect DEF Launch
<1> QED BY <1>1, <1>2

\* The launcher starts its child again.
LEMMA RetryEffect ==
  ASSUME Shape, NEW n \in Pids, Retry(n)
  PROVE  /\ proc[n].st = "backoff" /\ Others(n) /\ Alike(n, {"st", "child"})
         /\ proc'[n].st = "run" /\ proc'[n].child = "boot"
         /\ UNCHANGED <<task, disk, rt, life, lease, ids, ctl, faults>>
<1>1. proc' = [proc EXCEPT ![n] = [proc[n] EXCEPT !.st = "run", !.child = "boot"]]
  BY DEF Retry, Shape
<1>2. Others(n) /\ proc'[n] = [proc[n] EXCEPT !.st = "run", !.child = "boot"]
  BY <1>1 DEF Shape, Others
<1>3. Alike(n, {"st", "child"}) /\ proc'[n].st = "run" /\ proc'[n].child = "boot"
  BY <1>2, ProcFields DEF Shape, Alike
<1> QED BY <1>2, <1>3 DEF Retry

\* A child that failed is retried or ends its launcher.
Fails(n) ==
  \/ Ends(n)
  \/ /\ Others(n) /\ Alike(n, {"st", "tries", "child", "id"}) /\ proc[n].tries < Retries
     /\ proc'[n].st = "backoff" /\ proc'[n].tries = proc[n].tries + 1
     /\ proc'[n].child = "none" /\ proc'[n].id = 0

\* ChildFailed, field by field.
LEMMA FailsEffect ==
  ASSUME Shape, NEW n \in Pids, proc' = [proc EXCEPT ![n] = ChildFailed(n)]
  PROVE  Fails(n)
<1>1. CASE proc[n].tries < Retries
  <2>1. Others(n) /\ proc'[n] = [proc[n] EXCEPT !.st = "backoff", !.tries = proc[n].tries + 1,
                                                !.child = "none", !.id = 0]
    BY <1>1 DEF Shape, Others, ChildFailed
  <2>2. /\ Alike(n, {"st", "tries", "child", "id"})
        /\ proc'[n].st = "backoff" /\ proc'[n].tries = proc[n].tries + 1
        /\ proc'[n].child = "none" /\ proc'[n].id = 0
    BY <2>1, ProcFields DEF Shape, Alike
  <2> QED BY <1>1, <2>1, <2>2 DEF Fails
<1>2. CASE ~(proc[n].tries < Retries)
  BY <1>2, EndsEffect DEF ChildFailed, Fails
<1> QED BY <1>1, <1>2

\* The child of process n goes on.
ChildGoes(n, from, to) ==
  /\ proc[n].child = from /\ Others(n) /\ Alike(n, {"child"}) /\ proc'[n].child = to

\* A step of the child changes nothing else.
LEMMA ChildEffect ==
  ASSUME Shape, NEW n \in Pids, NEW from, NEW to, proc[n].child = from,
         proc' = [proc EXCEPT ![n].child = to]
  PROVE  ChildGoes(n, from, to)
<1>1. Others(n) /\ proc'[n] = [proc[n] EXCEPT !.child = to]
  BY DEF Shape, Others
<1> QED BY <1>1, ProcFields DEF Shape, Alike, ChildGoes

\* Preflight takes a free lease, or fails.
LEMMA PreflightEffect ==
  ASSUME Shape, NEW n \in Pids, Preflight(n)
  PROVE  /\ proc[n].child = "boot" /\ UNCHANGED <<task, disk, rt, life, ids, ctl, faults>>
         /\ \/ Fails(n) /\ lease' = lease
            \/ ChildGoes(n, "boot", "leased") /\ lease = Free /\ lease' = n
<1>1. CASE proc' = [proc EXCEPT ![n] = ChildFailed(n)] /\ lease' = lease
  BY <1>1, FailsEffect DEF Preflight
<1>2. CASE proc' = [proc EXCEPT ![n] = Ended] /\ lease' = lease
  BY <1>2, EndsEffect DEF Preflight, Fails
<1>3. CASE proc' = [proc EXCEPT ![n].child = "leased"] /\ lease = Free /\ lease' = n
  BY <1>3, ChildEffect DEF Preflight
<1> QED BY <1>1, <1>2, <1>3 DEF Preflight

\* The first document of a runner names a new instance id.
LEMMA WriteStartingEffect ==
  ASSUME Shape, NEW n \in Pids, WriteStarting(n)
  PROVE  /\ proc[n].child = "leased" /\ Others(n) /\ Alike(n, {"child", "id"})
         /\ proc'[n].child = "starting" /\ proc'[n].id = ids + 1 /\ ids' = ids + 1
         /\ rt' = [cfg |-> proc[n].cfg, inst |-> ids + 1, pid |-> n, phase |-> "starting"]
         /\ UNCHANGED <<task, disk, life, lease, ctl, faults>>
<1>1. proc' = [proc EXCEPT ![n] = [proc[n] EXCEPT !.child = "starting", !.id = ids + 1]]
  BY DEF WriteStarting, Shape
<1>2. Others(n) /\ proc'[n] = [proc[n] EXCEPT !.child = "starting", !.id = ids + 1]
  BY <1>1 DEF Shape, Others
<1>3. Alike(n, {"child", "id"}) /\ proc'[n].child = "starting" /\ proc'[n].id = ids + 1
  BY <1>2, ProcFields DEF Shape, Alike
<1> QED BY <1>2, <1>3 DEF WriteStarting

\* mark_ready, mark_stopping and mark_stopped.
Marks(n) ==
  /\ \/ ChildGoes(n, "starting", "serving")
     \/ ChildGoes(n, "draining", "stopping")
     \/ ChildGoes(n, "stopping", "exiting")
  /\ rt'.cfg = proc[n].cfg /\ rt'.inst = proc[n].id /\ rt'.pid = n
  /\ UNCHANGED <<task, disk, life, lease, ids, ctl, faults>>

\* The later documents of a runner name its own id and configuration.
LEMMA MarksEffect ==
  ASSUME Shape, NEW n \in Pids, MarkReady(n) \/ MarkStopping(n) \/ MarkStopped(n)
  PROVE  Marks(n)
BY ChildEffect DEF MarkReady, MarkStopping, MarkStopped, RunnerStep, Marks, Mark

\* A process that was told to stop, or whose child is done, ends.
LEMMA EndEffect ==
  ASSUME Shape, NEW n \in Pids, Killed(n) \/ Exit(n)
  PROVE  /\ proc[n].stop \/ proc[n].child = "exiting"
         /\ Ends(n) /\ lease' = Freed(n)
         /\ UNCHANGED <<task, disk, rt, life, ids, ctl, faults>>
BY EndsEffect DEF Killed, Exit

\* A runner that fails records itself, or nothing.
LEMMA RunnerFailsEffect ==
  ASSUME Shape, NEW n \in Pids, RunnerFails(n)
  PROVE  /\ proc[n].child \in Live /\ Fails(n) /\ lease' = Freed(n)
         /\ \/ rt' = rt
            \/ /\ proc[n].child \in {"starting", "serving", "draining"}
               /\ rt'.cfg = proc[n].cfg /\ rt'.inst = proc[n].id /\ rt'.pid = n
         /\ faults < MaxFaults /\ faults' = faults + 1
         /\ UNCHANGED <<task, disk, life, ids, ctl>>
<1>1. /\ proc[n].child \in Live /\ lease' = Freed(n) /\ UNCHANGED <<task, disk, life, ids, ctl>>
      /\ faults < MaxFaults /\ faults' = faults + 1
  BY DEF RunnerFails, Fault
<1>2. Fails(n)
  BY FailsEffect DEF RunnerFails
<1>3. rt' = rt \/ (proc[n].child \in {"starting", "serving", "draining"} /\ rt' = Mark(n, "failed"))
  BY DEF RunnerFails
<1> QED BY <1>1, <1>2, <1>3 DEF Mark

\* A process takes a number that was not used.
Enqueued ==
  \E n \in Fresh :
    /\ \A m \in Fresh : n <= m
    /\ Others(n) /\ DOMAIN proc'[n] = DOMAIN Gone
    /\ proc'[n].st = "queued" /\ proc'[n].cfg = 0 /\ proc'[n].tries = 0
    /\ proc'[n].stop = FALSE /\ proc'[n].child = "none" /\ proc'[n].id = 0

\* The number of the next launch is the smallest one not used.
LEMMA SmallestFresh ==
  ASSUME Fresh # {}
  PROVE  NextPid \in Fresh /\ \A m \in Fresh : NextPid <= m
<1>1. Fresh \subseteq Nat
  BY ServiceAssumption DEF Fresh, Pids
<1>2. PICK n \in Fresh : \A m \in Fresh : ~(<<m, n>> \in OpToRel(<, Nat))
  BY <1>1, NatLessThanWellFounded, WFMin
<1>3. \A m, k \in Nat : m < k => <<m, k>> \in OpToRel(<, Nat)
  BY DEF OpToRel
<1>4. ASSUME NEW m \in Fresh PROVE n <= m
  <2>1. m \in Nat /\ n \in Nat
    BY <1>1
  <2>2. ~(m < n)
    BY <1>2, <1>3, <2>1
  <2> QED BY <2>1, <2>2
<1> QED BY <1>4 DEF NextPid

\* Queued, field by field.
LEMMA EnqueuedEffect ==
  ASSUME Shape, Fresh # {}, proc' = Queued(proc, NextPid)
  PROVE  Enqueued
<1>1. NextPid \in Fresh /\ NextPid \in Pids /\ \A m \in Fresh : NextPid <= m
  BY SmallestFresh DEF Fresh
<1> DEFINE q == [Gone EXCEPT !.st = "queued", !.owned = TRUE]
<1>2. Others(NextPid) /\ proc'[NextPid] = q
  BY <1>1 DEF Queued, Shape, Others
<1>3. /\ DOMAIN q = DOMAIN Gone /\ q.st = "queued" /\ q.cfg = 0 /\ q.tries = 0
      /\ q.stop = FALSE /\ q.child = "none" /\ q.id = 0
  BY DEF Gone
<1> HIDE DEF q
<1> QED BY <1>1, <1>2, <1>3 DEF Enqueued

\* The instance asked for drains, the others go on.
LEMMA DrainedEffect ==
  ASSUME Shape, proc' = Drained(Asked(ctl.oldId))
  PROVE  /\ DOMAIN proc' = Pids
         /\ \A n \in Pids :
              \/ proc'[n] = proc[n]
              \/ /\ proc[n].child = "serving" /\ proc[n].id = ctl.oldId
                 /\ Alike(n, {"child"}) /\ proc'[n].child = "draining"
<1>1. DOMAIN proc' = Pids
  BY DEF Drained
<1>2. ASSUME NEW n \in Pids
      PROVE  \/ proc'[n] = proc[n]
             \/ /\ proc[n].child = "serving" /\ proc[n].id = ctl.oldId
                /\ Alike(n, {"child"}) /\ proc'[n].child = "draining"
  <2>1. CASE n \in Asked(ctl.oldId)
    <3>1. proc'[n] = [proc[n] EXCEPT !.child = "draining"]
      BY <2>1 DEF Drained
    <3>2. Alike(n, {"child"}) /\ proc'[n].child = "draining"
      BY <3>1, ProcFields DEF Shape, Alike
    <3> QED BY <2>1, <3>2 DEF Asked
  <2>2. CASE n \notin Asked(ctl.oldId)
    BY <2>2 DEF Drained
  <2> QED BY <2>1, <2>2
<1> QED BY <1>1, <1>2

\* Without a registration its instances belong to nobody.
LEMMA DetachedEffect ==
  ASSUME Shape, NEW stop \in BOOLEAN, proc' = Detached(stop)
  PROVE  /\ DOMAIN proc' = Pids
         /\ \A n \in Pids :
              \/ proc'[n] = proc[n]
              \/ /\ proc[n].st # "none" /\ Alike(n, {"owned", "stop"})
                 /\ proc'[n].stop = (proc[n].stop \/ stop)
<1>1. DOMAIN proc' = Pids
  BY DEF Detached
<1>2. ASSUME NEW n \in Pids
      PROVE  \/ proc'[n] = proc[n]
             \/ /\ proc[n].st # "none" /\ Alike(n, {"owned", "stop"})
                /\ proc'[n].stop = (proc[n].stop \/ stop)
  <2>1. CASE n \in Instances
    <3>1. proc'[n] = [proc[n] EXCEPT !.owned = FALSE, !.stop = proc[n].stop \/ stop]
      BY <2>1 DEF Detached
    <3>2. Alike(n, {"owned", "stop"}) /\ proc'[n].stop = (proc[n].stop \/ stop)
      BY <3>1, ProcFields DEF Shape, Alike
    <3> QED BY <2>1, <3>2 DEF Instances
  <2>2. CASE n \notin Instances
    BY <2>2 DEF Detached
  <2> QED BY <2>1, <2>2
<1> QED BY <1>1, <1>2

\* A process is told to stop.
LEMMA StopSetEffect ==
  ASSUME Shape, NEW n \in Pids, proc' = [proc EXCEPT ![n].stop = TRUE]
  PROVE  Others(n) /\ Alike(n, {"stop"}) /\ proc'[n].stop = TRUE
<1>1. Others(n) /\ proc'[n] = [proc[n] EXCEPT !.stop = TRUE]
  BY DEF Shape, Others
<1> QED BY <1>1, ProcFields DEF Shape, Alike

-----------------------------------------------------------------------------
(* The life of one process: what any step of the system may do to it.      *)

ChildTurn(from, to) ==
  \/ from = "starting" /\ to = "serving"
  \/ from = "draining" /\ to = "stopping"
  \/ from = "stopping" /\ to = "exiting"

Turn(n) ==
  \/ proc'[n] = proc[n]
  \/ /\ n \in Fresh /\ \A m \in Fresh : n <= m /\ (m # n => proc'[m] = proc[m])
     /\ ctl'.pc = "s_poll" \/ (ctl' = ctl /\ Cardinality(Fresh) > 1)
     /\ DOMAIN proc'[n] = DOMAIN Gone
     /\ proc'[n].st = "queued" /\ proc'[n].cfg = 0 /\ proc'[n].tries = 0
     /\ proc'[n].stop = FALSE /\ proc'[n].child = "none" /\ proc'[n].id = 0
  \/ /\ proc[n].st = "queued" /\ Alike(n, {"st", "cfg", "child"}) /\ Registered
     /\ proc'[n].st = "run" /\ proc'[n].cfg = task.cfg /\ proc'[n].child = "boot"
  \/ /\ proc[n].st = "backoff" /\ Alike(n, {"st", "child"})
     /\ proc'[n].st = "run" /\ proc'[n].child = "boot"
  \/ proc[n].st # "none" /\ proc'[n] = Ended
  \/ /\ proc[n].child # "none" /\ Alike(n, {"st", "tries", "child", "id"})
     /\ proc[n].tries < Retries /\ proc'[n].tries = proc[n].tries + 1
     /\ proc'[n].st = "backoff" /\ proc'[n].child = "none" /\ proc'[n].id = 0
  \/ /\ proc[n].child = "boot" /\ Alike(n, {"child"})
     /\ proc'[n].child = "leased" /\ lease = Free /\ lease' = n
  \/ Alike(n, {"child"}) /\ ChildTurn(proc[n].child, proc'[n].child)
  \/ /\ proc[n].child = "leased" /\ Alike(n, {"child", "id"})
     /\ proc'[n].child = "starting" /\ proc'[n].id = ids + 1 /\ ids' = ids + 1
  \/ /\ proc[n].child = "serving" /\ Alike(n, {"child"}) /\ proc'[n].child = "draining"
     /\ proc[n].id = ctl.oldId /\ ctl.pc \in {"i_post", "p_post", "o_post"}
  \/ /\ proc[n].st # "none" /\ Alike(n, {"owned", "stop"})
     /\ proc'[n].stop =>
          \/ proc[n].stop
          \/ ctl.pc = "u_task"
          \/ ctl.pc = "p_kill" /\ ctl.tgt = n /\ (proc[n].st = "queued") = ctl.obs

Turns == DOMAIN proc' = Pids /\ (\A n \in Pids : Turn(n)) /\ ids' \in {ids, ids + 1}

\* Every step of the system turns every process this way.
LEMMA TurnsStep ==
  ASSUME ServiceInv, [Next]_vars
  PROVE  Turns
<1> USE DEF ServiceInv
<1>1. ASSUME UNCHANGED <<proc, ids>> PROVE Turns
  BY <1>1 DEF Turns, Turn, Shape
<1>2. ASSUME Refused PROVE Turns
  BY <1>1, <1>2, RefusedEffect DEF Kept
<1>3. ASSUME Enqueued, ids' = ids, ctl'.pc = "s_poll" \/ (ctl' = ctl /\ Cardinality(Fresh) > 1)
      PROVE  Turns
  <2>1. Fresh \subseteq Pids
    BY DEF Fresh
  <2> QED BY <1>3, <2>1 DEF Turns, Turn, Enqueued, Others
<1>4. ASSUME NEW n \in Pids, Ends(n), proc[n].st # "none", ids' = ids PROVE Turns
  BY <1>4 DEF Turns, Turn, Ends, Others
<1>5. ASSUME NEW n \in Pids, Fails(n), proc[n].child # "none", ids' = ids PROVE Turns
  BY <1>5 DEF Turns, Turn, Fails, Ends, Others, ProcInv
<1>6. ASSUME NEW n \in Pids, NEW from, NEW to, ChildTurn(from, to), ChildGoes(n, from, to),
             ids' = ids
      PROVE  Turns
  BY <1>6 DEF Turns, Turn, ChildGoes, Others
<1>7. ASSUME NEW from \in {"i_post", "p_post", "o_post"}, NEW to, Shutdown(from, to) PROVE Turns
  BY <1>7, DrainedEffect DEF Shutdown, Turns, Turn, ChildTurn
<1>8. ASSUME NEW stop \in BOOLEAN, proc' = Detached(stop), ids' = ids, stop => ctl.pc = "u_task"
      PROVE  Turns
  BY <1>8, DetachedEffect DEF Turns, Turn
<1>9. ASSUME NEW op \in Ops, NEW set, NEW nostart, Begin(op, set, nostart) PROVE Turns
  BY <1>1, <1>9 DEF Begin
<1>10. ASSUME Command PROVE Turns
  <2>1. CASE Return \/ GuardCapture \/ InstallRegister \/ InstallPoint \/ InstallClean
    BY <1>1, <2>1 DEF Return, GuardCapture, InstallRegister, InstallPoint, InstallClean
  <2>2. CASE GuardVerify \/ InstallDefine \/ InstallReplace \/ InstallWait \/ Context
    BY <1>1, <1>2, <2>2, GuardVerifyEffect, InstallDefineEffect, InstallReplaceEffect,
       InstallWaitEffect, ContextEffect DEF Kept
  <2>3. CASE StartRead \/ StartProbe \/ StartTimeout \/ StopRead \/ StopProbe \/ StopLease
    BY <1>1, <1>2, <2>3, StartReadEffect, StartProbeEffect, StartTimeoutEffect, StopReadEffect,
       StopProbeEffect, StopLeaseEffect DEF Kept
  <2>4. CASE StopGrace \/ StopForced \/ StopFallback \/ Stopped
    BY <1>1, <1>2, <2>4, StopGraceEffect, StopForcedEffect, StopWaitEffect, StopFallbackEffect,
       StoppedEffect DEF Kept
  <2>5. CASE OrphanLease \/ OrphanProbe \/ OrphanWait \/ UninstallScan \/ UninstallProve
    BY <1>1, <1>2, <2>5, OrphanLeaseEffect, OrphanProbeEffect, OrphanWaitEffect,
       UninstallScanEffect, UninstallProveEffect DEF Kept
  <2>6. CASE UninstallRuntime \/ UninstallDefinition \/ UninstallCurrent
    BY <1>1, <2>6 DEF UninstallRuntime, UninstallDefinition, UninstallCurrent
  <2>7. CASE InstallPost \/ StopPost \/ OrphanPost
    BY <1>1, <1>2, <1>7, <2>7, InstallPostEffect, StopPostEffect, OrphanPostEffect
       DEF Kept
  <2>8. CASE StartRun
    <3>1. Fresh # {}
      BY <2>8 DEF StartRun, PhaseInv, FreshInv, StartPoints
    <3>2. CASE proc' = Queued(proc, NextPid)
      BY <1>2, <1>3, <2>8, <3>1, <3>2, StartRunEffect, EnqueuedEffect
    <3> QED BY <1>1, <1>2, <2>8, <3>2, StartRunEffect
  <2>9. CASE StopKill
    <3>1. ASSUME proc' = [proc EXCEPT ![ctl.tgt].stop = TRUE], ctl.tgt \in Instances, ids' = ids,
                 (proc[ctl.tgt].st = "queued") = ctl.obs
          PROVE  Turns
      <4>1. ctl.tgt \in Pids /\ proc[ctl.tgt].st # "none"
        BY <3>1 DEF Instances
      <4>2. Others(ctl.tgt) /\ Alike(ctl.tgt, {"stop"})
        BY <3>1, <4>1, StopSetEffect
      <4>3. Alike(ctl.tgt, {"owned", "stop"})
        BY <4>2 DEF Alike
      <4> QED BY <2>9, <3>1, <4>1, <4>2, <4>3 DEF Turns, Turn, Others, StopKill
    <3> QED BY <1>1, <1>2, <2>9, <3>1, StopKillEffect
  <2>10. CASE UninstallTask
    BY <1>8, <2>10 DEF UninstallTask
  <2> QED BY <1>10, <2>1, <2>2, <2>3, <2>4, <2>5, <2>6, <2>7, <2>8, <2>9, <2>10 DEF Command
<1>11. ASSUME NEW n \in Pids, Runner(n) PROVE Turns
  <2>1. CASE Launch(n)
    <3>1. CASE Ends(n)
      BY <1>4, <2>1, <3>1, LaunchEffect
    <3>2. CASE ~Ends(n)
      BY <2>1, <3>2, LaunchEffect DEF Turns, Turn, Others
    <3> QED BY <3>1, <3>2
  <2>2. CASE Retry(n)
    BY <2>2, RetryEffect DEF Turns, Turn, Others
  <2>3. CASE Killed(n) \/ Exit(n)
    <3>1. proc[n].st # "none"
      BY <2>3, EndEffect DEF ProcInv
    <3> QED BY <1>4, <2>3, <3>1, EndEffect
  <2>4. CASE Preflight(n)
    <3>1. CASE ChildGoes(n, "boot", "leased") /\ lease = Free /\ lease' = n
      BY <2>4, <3>1, PreflightEffect DEF Turns, Turn, ChildGoes, Others
    <3>2. CASE Fails(n)
      BY <1>5, <2>4, <3>2, PreflightEffect
    <3> QED BY <2>4, <3>1, <3>2, PreflightEffect
  <2>5. CASE WriteStarting(n)
    BY <2>5, WriteStartingEffect DEF Turns, Turn, Others
  <2>6. CASE MarkReady(n) \/ MarkStopping(n) \/ MarkStopped(n)
    <3>1. /\ ChildTurn("starting", "serving") /\ ChildTurn("draining", "stopping")
          /\ ChildTurn("stopping", "exiting")
      BY DEF ChildTurn
    <3>2. Marks(n)
      BY <2>6, MarksEffect
    <3> QED BY <1>6, <3>1, <3>2 DEF Marks
  <2> QED BY <1>11, <2>1, <2>2, <2>3, <2>4, <2>5, <2>6 DEF Runner
<1>12. ASSUME NEW n \in Pids, RunnerFails(n) PROVE Turns
  <2>1. proc[n].child # "none"
    BY <1>12, RunnerFailsEffect DEF Live
  <2> QED BY <1>5, <1>12, <2>1, RunnerFailsEffect
<1>13. ASSUME StatusPeek \/ StatusDrop \/ CommandCrash \/ UserEditsTask PROVE Turns
  BY <1>1, <1>13 DEF StatusPeek, StatusDrop, CommandCrash, UserEditsTask
<1>14. ASSUME Logon PROVE Turns
  <2>1. Fresh # {}
    BY <1>14, FS_EmptySet DEF Logon
  <2> QED BY <1>3, <1>14, <2>1, EnqueuedEffect DEF Logon
<1>15. ASSUME UserRemovesTask PROVE Turns
  BY <1>8, <1>15 DEF UserRemovesTask
<1>16. ASSUME NEW d \in 1..MaxDefs, UserRemovesDefinition(d) PROVE Turns
  BY <1>1, <1>16 DEF UserRemovesDefinition
<1>17. ASSUME UNCHANGED vars PROVE Turns
  BY <1>1, <1>17 DEF vars
<1> QED BY <1>9, <1>10, <1>11, <1>12, <1>13, <1>14, <1>15, <1>16, <1>17 DEF Next, Ops

\* An instance id stays with its process and its configuration and a new one is
\* above the others; the number of a process that has read a configuration is
\* not used again.
Evolves ==
  /\ ids' \in {ids, ids + 1}
  /\ \A n \in Pids :
       /\ proc'[n].id # 0 => \/ proc'[n].id = proc[n].id /\ proc'[n].cfg = proc[n].cfg
                             \/ proc'[n].id = ids + 1 /\ ids' = ids + 1
       /\ proc[n].cfg # 0 =>
            /\ proc'[n].cfg # 0
            /\ proc'[n].st # "none" => proc[n].st # "none" /\ proc'[n].cfg = proc[n].cfg

\* Every step keeps the invariant of the processes and their identities.
LEMMA ProcStep ==
  ASSUME ServiceInv, [Next]_vars
  PROVE  /\ ProcInv' /\ Evolves
         /\ DOMAIN proc' = Pids /\ \A n \in Pids : DOMAIN proc'[n] = DOMAIN Gone
<1> USE ServiceAssumption DEF ServiceInv
<1>1. Turns
  BY TurnsStep
<1>2. ids' \in Nat /\ ids' \in {ids, ids + 1} /\ DOMAIN proc' = Pids
  BY <1>1 DEF Turns, ProcInv
<1>3. ASSUME NEW n \in Pids
      PROVE  /\ DOMAIN proc'[n] = DOMAIN Gone
             /\ proc'[n].st \in {"none", "queued", "run", "backoff"}
             /\ proc'[n].child \in Live \cup {"none", "boot"}
             /\ proc'[n].child # "none" => proc'[n].st = "run"
             /\ proc'[n].st = "queued" => proc'[n].cfg = 0
             /\ proc'[n].st = "none" => ~proc'[n].stop
             /\ proc'[n].tries \in 0..Retries
             /\ proc'[n].id \in 0..ids'
             /\ proc'[n].id # 0 <=> proc'[n].child \in Live \ {"leased"}
  BY <1>1, <1>2, EndedFields DEF Turns, Turn, ChildTurn, Alike, ProcInv, Shape, Live
<1>4. ASSUME NEW n \in Pids
      PROVE  /\ proc'[n].id # 0 => \/ proc'[n].id = proc[n].id /\ proc'[n].cfg = proc[n].cfg
                                   \/ proc'[n].id = ids + 1 /\ ids' = ids + 1
             /\ proc[n].cfg # 0 =>
                  /\ proc'[n].cfg # 0
                  /\ proc'[n].st # "none" => proc[n].st # "none" /\ proc'[n].cfg = proc[n].cfg
  <2>1. n \in Fresh => proc[n].st = "none" /\ proc[n].cfg = 0
    BY DEF Fresh, Pids
  <2>2. Ended.cfg # 0 /\ Ended.st = "none" /\ Ended.id = 0
    BY EndedFields
  <2>3. /\ proc[n].st = "queued" => proc[n].cfg = 0 /\ proc[n].id = 0
        /\ proc[n].child # "none" => proc[n].st # "none"
    BY DEF ProcInv, Live
  <2>4. Turn(n)
    BY <1>1 DEF Turns
  <2> QED BY <1>2, <2>1, <2>2, <2>3, <2>4 DEF Turn, Alike
<1> QED BY <1>2, <1>3, <1>4 DEF ProcInv, Evolves

\* A step leaves a launch that is not used, unless a command takes the last one.
LEMMA FreshLeft ==
  ASSUME ServiceInv, [Next]_vars, Fresh # {}, ctl'.pc # "s_poll"
  PROVE  Fresh' # {}
<1> USE ServiceAssumption DEF ServiceInv
<1>1. \A n \in Pids : Turn(n)
  BY TurnsStep DEF Turns
<1>2. \A n \in Fresh : n \in Pids /\ proc[n].st = "none" /\ proc[n].cfg = 0
  BY DEF Fresh, Pids
<1>3. \A n \in Fresh, m \in Pids : m >= n => m \in Fresh
  BY DEF Fresh, Pids
<1>4. CASE \A n \in Fresh : proc'[n] = proc[n]
  <2>1. PICK n \in Fresh : TRUE
    OBVIOUS
  <2>2. \A m \in Pids : m >= n => proc'[m].st = "none" /\ proc'[m].cfg = 0
    BY <1>2, <1>3, <1>4
  <2> QED BY <1>2, <2>2 DEF Fresh
<1>5. ASSUME NEW n \in Fresh, proc'[n] # proc[n] PROVE Fresh' # {}
  <2>1. n \in Pids /\ proc[n].st = "none" /\ proc[n].child = "none"
    BY <1>2 DEF ProcInv
  <2>2. /\ \A m \in Fresh : n <= m /\ (m # n => proc'[m] = proc[m])
        /\ Cardinality(Fresh) > 1
    BY <1>1, <1>5, <2>1 DEF Turn, ChildTurn
  <2>3. Fresh # {n}
    <3>1. Cardinality({n}) = 1
      BY FS_Singleton
    <3>2. ASSUME Fresh = {n} PROVE FALSE
      <4>1. Cardinality(Fresh) = 1
        BY ONLY <3>1, <3>2
      <4> QED BY <2>2, <4>1
    <3> QED BY <3>2
  <2>4. PICK m \in Fresh : m # n
    BY <2>3
  <2>5. \A k \in Pids : k >= m => proc'[k].st = "none" /\ proc'[k].cfg = 0
    <3>1. m \in Pids /\ n <= m /\ m # n
      BY <1>2, <2>2, <2>4
    <3>2. ASSUME NEW k \in Pids, k >= m PROVE k \in Fresh /\ k # n
      BY <1>3, <2>1, <3>1, <3>2 DEF Pids
    <3> QED BY <1>2, <2>2, <3>2
  <2> QED BY <1>2, <2>5 DEF Fresh
<1> QED BY <1>4, <1>5

\* The lease is free, a command's, a status call's or a process's.
LEMMA Holders ==
  /\ Free # Ctl /\ Free # Peek /\ Ctl # Peek
  /\ Free \notin Pids /\ Ctl \notin Pids /\ Peek \notin Pids
BY ServiceAssumption DEF Free, Ctl, Peek, Pids

\* A runner that is alive held the lease before, or takes it now.
LEMMA LiveStep ==
  ASSUME ServiceInv, [Next]_vars, NEW n \in Pids, proc'[n].child \in Live
  PROVE  lease = n \/ lease' = n
<1>1. Turn(n)
  BY TurnsStep DEF Turns
<1>2. proc[n].child \in Live => lease = n
  BY DEF ServiceInv, LeaseInv
<1> QED BY <1>1, <1>2, EndedFields DEF Turn, Alike, ChildTurn, Live

\* Whom an instance id names does not change.
LEMMA NamesKept ==
  ASSUME ids \in Nat, Evolves, NEW id \in 0..ids, NEW d, NamedBy(proc, id, d)
  PROVE  NamedBy(proc', id, d)
BY DEF NamedBy, Evolves

\* What a document says of its runner stays true.
LEMMA DescribesKept ==
  ASSUME ids \in Nat, Evolves, NEW doc, Describes(proc, ids, doc)
  PROVE  Describes(proc', ids', doc)
<1>1. NamedBy(proc', doc.inst, doc.cfg)
  BY NamesKept DEF Describes
<1>2. doc.inst \in 0..ids'
  BY DEF Describes, Evolves
<1> QED BY <1>1, <1>2 DEF Describes, Evolves

\* A missing document says nothing.
LEMMA NoRtDescribes ==
  ASSUME NEW p, NEW last \in Nat
  PROVE  Describes(p, last, NoRt)
BY DEF Describes, NamedBy, NoRt

\* A point of a command leads only to points of that command.
LEMMA PhaseStep ==
  ASSUME ServiceInv, [Next]_vars
  PROVE  PhaseInv'
<1> USE DEF ServiceInv, PhaseInv, InstallPoints, StartPoints, StopPoints, OrphanPoints,
    RemovalPoints
<1>1. ASSUME Refused PROVE PhaseInv'
  BY <1>1, RefusedEffect DEF Kept, Closed, Reasons
<1>2. ASSUME NEW op \in Ops, NEW set \in Settings \cup {0}, NEW nostart, Begin(op, set, nostart),
            op = "install" => set \in Settings
      PROVE  PhaseInv'
  BY <1>2, BeginEffect DEF Kept, Ops
<1>3. ASSUME Command PROVE PhaseInv'
  <2>1. CASE Return \/ GuardCapture \/ InstallRegister \/ InstallPoint
    BY <1>1, <2>1, GuardCaptureEffect, GotoEffect DEF Only, Kept, Closed, Return, Idle,
       InstallRegister, InstallPoint
  <2>2. CASE GuardVerify \/ InstallDefine \/ InstallClean \/ InstallReplace
    BY <1>1, <2>2, GuardVerifyEffect, InstallDefineEffect, InstallCleanEffect,
       InstallReplaceEffect DEF Only, Kept, Closed
  <2>3. CASE InstallPost \/ InstallWait \/ Context
    BY <1>1, <2>3, InstallPostEffect, InstallWaitEffect, ContextEffect DEF Only, Kept, Closed,
       Shutdown
  <2>4. CASE StartRead \/ StartProbe \/ StartTimeout \/ StartRun
    BY <1>1, <2>4, StartReadEffect, StartProbeEffect, StartTimeoutEffect, StartRunEffect
       DEF Only, Kept, Closed
  <2>5. CASE StopRead \/ StopProbe \/ StopLease \/ StopPost
    BY <1>1, <2>5, StopReadEffect, StopProbeEffect, StopLeaseEffect, StopPostEffect DEF Only,
       Kept, Closed, Shutdown
  <2>6. CASE StopGrace \/ StopForced
    BY <1>1, <2>6, StopGraceEffect, StopWaitEffect, StopForcedEffect DEF Only, Kept, Closed
  <2>7. CASE StopFallback \/ StopKill \/ Stopped
    BY <1>1, <2>7, StopFallbackEffect, StopKillEffect, StoppedEffect DEF Only, Kept, Closed
  <2>8. CASE OrphanLease \/ OrphanProbe \/ OrphanPost \/ OrphanWait
    BY <1>1, <2>8, OrphanLeaseEffect, OrphanProbeEffect, OrphanPostEffect, OrphanWaitEffect
       DEF Only, Kept, Closed, Shutdown
  <2>9. CASE UninstallScan \/ UninstallProve \/ UninstallTask
    BY <1>1, <2>9, UninstallScanEffect, UninstallProveEffect, GotoEffect DEF Only, Kept, Closed,
       UninstallTask
  <2>10. CASE UninstallRuntime
    BY <1>1, <2>10, GotoEffect DEF Only, Kept, Closed, UninstallRuntime
  <2>11. CASE UninstallDefinition
    BY <1>1, <2>11, GotoEffect DEF Only, Kept, Closed, UninstallDefinition
  <2>12. CASE UninstallCurrent
    BY <1>1, <2>12, UninstallCurrentEffect DEF Only, Kept, Closed
  <2> QED BY <1>3, <2>1, <2>2, <2>3, <2>4, <2>5, <2>6, <2>7, <2>8, <2>9, <2>10, <2>11, <2>12
             DEF Command
<1>4. ASSUME NEW n \in Pids, Runner(n) \/ RunnerFails(n) PROVE PhaseInv'
  BY <1>4 DEF Runner, Launch, Retry, Killed, Preflight, WriteStarting, MarkReady, MarkStopping,
     MarkStopped, RunnerStep, Exit, RunnerFails
<1>5. ASSUME StatusPeek \/ StatusDrop \/ Logon \/ UserEditsTask \/ UserRemovesTask PROVE PhaseInv'
  BY <1>5 DEF StatusPeek, StatusDrop, Logon, UserEditsTask, UserRemovesTask
<1>6. ASSUME NEW d \in 1..MaxDefs, UserRemovesDefinition(d) PROVE PhaseInv'
  BY <1>6 DEF UserRemovesDefinition
<1>7. ASSUME UNCHANGED vars PROVE PhaseInv'
  BY <1>7 DEF vars, disk
<1>8. ASSUME CommandCrash PROVE PhaseInv'
  BY <1>8 DEF CommandCrash, Idle
<1> QED BY <1>2, <1>3, <1>4, <1>5, <1>6, <1>7, <1>8 DEF Next, Ops

\* No step changes the fields of a record.
LEMMA ShapeStep ==
  ASSUME ServiceInv, [Next]_vars
  PROVE  Shape'
<1> USE DEF ServiceInv, Shape
<1>1. DOMAIN proc' = Pids /\ \A n \in Pids : DOMAIN proc'[n] = DOMAIN Gone
  BY ProcStep
<1>2. ASSUME Refused PROVE Shape'
  BY <1>1, <1>2, RefusedEffect DEF Kept, Closed, Reasons
<1>3. ASSUME NEW op \in Ops, NEW set \in Settings \cup {0}, NEW nostart, Begin(op, set, nostart),
            op = "install" => set \in Settings
      PROVE  Shape'
  BY <1>1, <1>3, BeginEffect DEF Kept, Ops
<1>4. ASSUME Command PROVE Shape'
  <2>1. CASE Return \/ GuardCapture \/ InstallRegister \/ InstallPoint
    BY <1>1, <1>2, <2>1, GuardCaptureEffect, GotoEffect DEF Only, Kept, Closed, Return, Idle,
       InstallRegister, InstallPoint
  <2>2. CASE GuardVerify \/ InstallDefine \/ InstallClean \/ InstallReplace
    BY <1>1, <1>2, <2>2, GuardVerifyEffect, InstallDefineEffect, InstallCleanEffect,
       InstallReplaceEffect DEF Only, Kept, Closed
  <2>3. CASE InstallPost \/ InstallWait \/ Context
    BY <1>1, <1>2, <2>3, InstallPostEffect, InstallWaitEffect, ContextEffect DEF Only, Kept,
       Closed, Shutdown
  <2>4. CASE StartRead \/ StartProbe \/ StartTimeout \/ StartRun
    BY <1>1, <1>2, <2>4, StartReadEffect, StartProbeEffect, StartTimeoutEffect, StartRunEffect
       DEF Only, Kept, Closed
  <2>5. CASE StopRead \/ StopProbe \/ StopLease \/ StopPost
    BY <1>1, <1>2, <2>5, StopReadEffect, StopProbeEffect, StopLeaseEffect, StopPostEffect
       DEF Only, Kept, Closed, Shutdown
  <2>6. CASE StopGrace \/ StopForced
    BY <1>1, <1>2, <2>6, StopGraceEffect, StopWaitEffect, StopForcedEffect DEF Only, Kept, Closed
  <2>7. CASE StopFallback \/ StopKill \/ Stopped
    BY <1>1, <1>2, <2>7, StopFallbackEffect, StopKillEffect, StoppedEffect DEF Only, Kept, Closed
  <2>8. CASE OrphanLease \/ OrphanProbe \/ OrphanPost \/ OrphanWait
    BY <1>1, <1>2, <2>8, OrphanLeaseEffect, OrphanProbeEffect, OrphanPostEffect, OrphanWaitEffect
       DEF Only, Kept, Closed, Shutdown
  <2>9. CASE UninstallScan \/ UninstallProve \/ UninstallTask
    BY <1>1, <1>2, <2>9, UninstallScanEffect, UninstallProveEffect, GotoEffect DEF Only, Kept,
       Closed, UninstallTask
  <2>10. CASE UninstallRuntime \/ UninstallDefinition \/ UninstallCurrent
    BY <1>1, <1>2, <2>10, GotoEffect, UninstallCurrentEffect DEF Only, Kept, Closed,
       UninstallRuntime, UninstallDefinition
  <2> QED BY <1>4, <2>1, <2>2, <2>3, <2>4, <2>5, <2>6, <2>7, <2>8, <2>9, <2>10 DEF Command
<1>5. ASSUME NEW n \in Pids, Runner(n) \/ RunnerFails(n) PROVE Shape'
  BY <1>1, <1>5 DEF Runner, Launch, Retry, Killed, Preflight, WriteStarting, MarkReady,
     MarkStopping, MarkStopped, RunnerStep, Exit, RunnerFails
<1>6. ASSUME StatusPeek \/ StatusDrop \/ Logon \/ UserEditsTask \/ UserRemovesTask PROVE Shape'
  BY <1>1, <1>6 DEF StatusPeek, StatusDrop, Logon, UserEditsTask, UserRemovesTask
<1>7. ASSUME NEW d \in 1..MaxDefs, UserRemovesDefinition(d) PROVE Shape'
  BY <1>1, <1>7 DEF UserRemovesDefinition
<1>8. ASSUME UNCHANGED vars PROVE Shape'
  BY <1>1, <1>8 DEF vars, disk
<1>9. ASSUME CommandCrash PROVE Shape'
  BY <1>1, <1>9 DEF CommandCrash, Idle
<1> QED BY <1>3, <1>4, <1>5, <1>6, <1>7, <1>8, <1>9 DEF Next, Ops

\* Only a free lease is taken, and only its holder lets it go.
LEMMA LeaseStep ==
  ASSUME ServiceInv, [Next]_vars
  PROVE  LeaseInv'
<1> USE DEF ServiceInv, LeaseInv, RemovalPoints, Release, Freed
<1>1. ASSUME NEW n \in Pids, proc'[n].child \in Live PROVE lease = n \/ lease' = n
  BY <1>1, LiveStep
<1>2. /\ Free # Ctl /\ Free # Peek /\ Ctl # Peek
      /\ Free \notin Pids /\ Ctl \notin Pids /\ Peek \notin Pids
  BY Holders
<1>3. ASSUME Refused PROVE LeaseInv'
  BY <1>1, <1>2, <1>3, RefusedEffect DEF Kept, Closed, Reasons
<1>4. ASSUME NEW op \in Ops, NEW set \in Settings \cup {0}, NEW nostart, Begin(op, set, nostart),
            op = "install" => set \in Settings
      PROVE  LeaseInv'
  BY <1>1, <1>2, <1>4, BeginEffect DEF Kept, Ops
<1>5. ASSUME Command PROVE LeaseInv'
  <2>1. CASE Return \/ GuardCapture \/ InstallRegister \/ InstallPoint
    BY <1>1, <1>2, <1>3, <2>1, GuardCaptureEffect, GotoEffect DEF Only, Kept, Closed, Return,
       Idle, InstallRegister, InstallPoint
  <2>2. CASE GuardVerify \/ InstallDefine \/ InstallClean \/ InstallReplace
    BY <1>1, <1>2, <1>3, <2>2, GuardVerifyEffect, InstallDefineEffect, InstallCleanEffect,
       InstallReplaceEffect DEF Only, Kept, Closed
  <2>3. CASE InstallPost \/ InstallWait \/ Context
    BY <1>1, <1>2, <1>3, <2>3, InstallPostEffect, InstallWaitEffect, ContextEffect DEF Only,
       Kept, Closed, Shutdown
  <2>4. CASE StartRead \/ StartProbe \/ StartTimeout \/ StartRun
    BY <1>1, <1>2, <1>3, <2>4, StartReadEffect, StartProbeEffect, StartTimeoutEffect,
       StartRunEffect DEF Only, Kept, Closed
  <2>5. CASE StopRead \/ StopProbe \/ StopLease \/ StopPost
    BY <1>1, <1>2, <1>3, <2>5, StopReadEffect, StopProbeEffect, StopLeaseEffect, StopPostEffect
       DEF Only, Kept, Closed, Shutdown
  <2>6. CASE StopGrace \/ StopForced
    BY <1>1, <1>2, <1>3, <2>6, StopGraceEffect, StopWaitEffect, StopForcedEffect DEF Only, Kept,
       Closed
  <2>7. CASE StopFallback \/ StopKill \/ Stopped
    BY <1>1, <1>2, <1>3, <2>7, StopFallbackEffect, StopKillEffect, StoppedEffect DEF Only, Kept,
       Closed
  <2>8. CASE OrphanLease \/ OrphanProbe \/ OrphanPost \/ OrphanWait
    BY <1>1, <1>2, <1>3, <2>8, OrphanLeaseEffect, OrphanProbeEffect, OrphanPostEffect,
       OrphanWaitEffect DEF Only, Kept, Closed, Shutdown
  <2>9. CASE UninstallScan \/ UninstallProve \/ UninstallTask
    BY <1>1, <1>2, <1>3, <2>9, UninstallScanEffect, UninstallProveEffect, GotoEffect DEF Only,
       Kept, Closed, UninstallTask
  <2>10. CASE UninstallRuntime \/ UninstallDefinition \/ UninstallCurrent
    BY <1>1, <1>2, <1>3, <2>10, GotoEffect, UninstallCurrentEffect DEF Only, Kept, Closed,
       UninstallRuntime, UninstallDefinition
  <2> QED BY <1>5, <2>1, <2>2, <2>3, <2>4, <2>5, <2>6, <2>7, <2>8, <2>9, <2>10 DEF Command
<1>6. ASSUME NEW n \in Pids, Runner(n) \/ RunnerFails(n) PROVE LeaseInv'
  <2>1. CASE Launch(n) \/ Retry(n)
    BY <2>1, <1>1, <1>2, LaunchEffect, RetryEffect
  <2>2. CASE Killed(n) \/ Exit(n)
    BY <2>2, <1>1, <1>2, EndEffect, EndedFields DEF Ends, Live
  <2>3. CASE Preflight(n)
    <3>1. CASE Fails(n) /\ lease' = lease
      BY <2>3, <3>1, <1>1, <1>2, PreflightEffect
    <3>2. CASE ChildGoes(n, "boot", "leased") /\ lease = Free /\ lease' = n
      BY <2>3, <3>2, <1>1, <1>2, PreflightEffect
    <3> QED BY <2>3, <3>1, <3>2, PreflightEffect
  <2>4. CASE WriteStarting(n)
    BY <2>4, <1>1, <1>2, WriteStartingEffect
  <2>5. CASE MarkReady(n) \/ MarkStopping(n) \/ MarkStopped(n)
    BY <2>5, <1>1, <1>2, MarksEffect DEF Marks
  <2>6. CASE RunnerFails(n)
    BY <2>6, <1>1, <1>2, RunnerFailsEffect, EndedFields DEF Fails, Ends, Live
  <2> QED BY <1>6, <2>1, <2>2, <2>3, <2>4, <2>5, <2>6 DEF Runner
<1>7. ASSUME StatusPeek \/ StatusDrop \/ Logon \/ UserEditsTask \/ UserRemovesTask PROVE LeaseInv'
  BY <1>1, <1>2, <1>7 DEF StatusPeek, StatusDrop, Logon, UserEditsTask, UserRemovesTask
<1>8. ASSUME NEW d \in 1..MaxDefs, UserRemovesDefinition(d) PROVE LeaseInv'
  BY <1>1, <1>2, <1>8 DEF UserRemovesDefinition
<1>9. ASSUME UNCHANGED vars PROVE LeaseInv'
  BY <1>1, <1>2, <1>9 DEF vars, disk
<1>10. ASSUME CommandCrash PROVE LeaseInv'
  BY <1>1, <1>2, <1>10 DEF CommandCrash, Idle
<1> QED BY <1>4, <1>5, <1>6, <1>7, <1>8, <1>9, <1>10 DEF Next, Ops

\* Definitions are only added to those ever written.
LEMMA DiskStep ==
  ASSUME ServiceInv, [Next]_vars
  PROVE  DiskInv'
<1> USE DEF ServiceInv, DiskInv, disk
<1>1. \A n \in Pids : proc'[n].st \in {"run", "backoff"} => proc'[n].cfg \in DOMAIN made
  <2>1. Registered => task.cfg \in DOMAIN made
    BY DEF Registered, NoTask, Foreign
  <2>2. ASSUME NEW n \in Pids, proc'[n].st \in {"run", "backoff"} PROVE proc'[n].cfg \in DOMAIN made
    <3>1. Turn(n)
      BY TurnsStep DEF Turns
    <3> QED BY <2>1, <2>2, <3>1, EndedFields DEF Turn, Alike, ProcInv
  <2> QED BY <2>2
<1>2. ASSUME Refused PROVE DiskInv'
  BY <1>1, <1>2, RefusedEffect DEF Kept, Closed, Reasons
<1>3. ASSUME NEW op \in Ops, NEW set \in Settings \cup {0}, NEW nostart, Begin(op, set, nostart),
            op = "install" => set \in Settings
      PROVE  DiskInv'
  BY <1>1, <1>3, BeginEffect DEF Kept, Ops
<1>4. ASSUME Command PROVE DiskInv'
  <2>1. CASE Return \/ GuardCapture
    BY <1>1, <1>2, <2>1, GuardCaptureEffect DEF Only, Kept, Closed, Return, Idle
  <2>2. CASE InstallRegister
    BY <1>1, <1>2, <2>2, GotoEffect DEF Only, Kept, Closed, InstallRegister
  <2>3. CASE InstallPoint
    BY <1>1, <1>2, <2>3, GotoEffect DEF Only, Kept, Closed, InstallPoint
  <2>4. CASE GuardVerify \/ InstallClean \/ InstallReplace
    BY <1>1, <1>2, <2>4, GuardVerifyEffect, InstallCleanEffect, InstallReplaceEffect DEF Only,
       Kept, Closed
  <2>5. CASE InstallDefine
    <3>1. CASE made' = made /\ defs' = defs /\ ctl'.target = Existing /\ Existing # 0
      BY <1>2, <2>5, <3>1, <1>1, InstallDefineEffect DEF Only, Existing
    <3>2. CASE ~(made' = made /\ defs' = defs /\ ctl'.target = Existing /\ Existing # 0) /\ ~Refused
      <4> DEFINE d == [set |-> ctl.set,
                       svc |-> IF Existing = 0 THEN Len(made) + 1 ELSE made[Existing].svc]
      <4>1. Existing \in {0} \cup DOMAIN made
        BY DEF Existing, Registered, NoTask, Foreign
      <4>2. d \in [set : Settings, svc : 1..MaxDefs]
        <5>1. Len(made) \in Nat /\ Len(made) < MaxDefs /\ ctl.set \in Settings
          BY <2>5, InstallDefineEffect
        <5>2. Len(made) + 1 \in 1..MaxDefs
          BY <5>1, ServiceAssumption
        <5>3. made \in Seq([set : Settings, svc : 1..MaxDefs])
          OBVIOUS
        <5>4. ASSUME NEW e \in DOMAIN made PROVE made[e] \in [set : Settings, svc : 1..MaxDefs]
          <6> DEFINE S == [set : Settings, svc : 1..MaxDefs]
          <6>1. made \in Seq(S) /\ e \in 1..Len(made)
            BY <5>3
          <6> HIDE DEF S
          <6>2. made[e] \in S
            BY ONLY <6>1, ElementOfSeq
          <6> QED BY <6>2 DEF S
        <5>5. Existing # 0 => made[Existing].svc \in 1..MaxDefs
          BY <4>1, <5>4
        <5> QED BY <5>1, <5>2, <5>5
      <4>3. made' = Append(made, d)
        BY <2>5, <3>2, InstallDefineEffect
      <4> HIDE DEF d
      <4>4. /\ made' \in Seq([set : Settings, svc : 1..MaxDefs]) /\ Len(made') = Len(made) + 1
            /\ Len(made') <= MaxDefs
        BY <2>5, <4>2, <4>3, ServiceAssumption, InstallDefineEffect
      <4>5. DOMAIN made' = 1..Len(made) + 1 /\ DOMAIN made = 1..Len(made) /\ Len(made) \in Nat
        BY <4>4
      <4>6. DOMAIN made \subseteq DOMAIN made' /\ Len(made) + 1 \in DOMAIN made'
        BY <4>5
      <4> QED BY <2>5, <3>2, <4>4, <4>6, <1>1, InstallDefineEffect DEF Only
    <3> QED BY <1>2, <3>1, <3>2
  <2>6. CASE InstallPost \/ InstallWait \/ Context
    BY <1>1, <1>2, <2>6, InstallPostEffect, InstallWaitEffect, ContextEffect DEF Only, Kept,
       Closed, Shutdown
  <2>7. CASE StartRead \/ StartProbe \/ StartTimeout \/ StartRun
    BY <1>1, <1>2, <2>7, StartReadEffect, StartProbeEffect, StartTimeoutEffect, StartRunEffect
       DEF Only, Kept, Closed
  <2>8. CASE StopRead \/ StopProbe \/ StopLease \/ StopPost
    BY <1>1, <1>2, <2>8, StopReadEffect, StopProbeEffect, StopLeaseEffect, StopPostEffect
       DEF Only, Kept, Closed, Shutdown
  <2>9. CASE StopGrace \/ StopForced
    BY <1>1, <1>2, <2>9, StopGraceEffect, StopWaitEffect, StopForcedEffect DEF Only, Kept, Closed
  <2>10. CASE StopFallback \/ StopKill \/ Stopped
    BY <1>1, <1>2, <2>10, StopFallbackEffect, StopKillEffect, StoppedEffect DEF Only, Kept,
       Closed
  <2>11. CASE OrphanLease \/ OrphanProbe \/ OrphanPost \/ OrphanWait
    BY <1>1, <1>2, <2>11, OrphanLeaseEffect, OrphanProbeEffect, OrphanPostEffect,
       OrphanWaitEffect DEF Only, Kept, Closed, Shutdown
  <2>12. CASE UninstallScan \/ UninstallProve \/ UninstallTask
    BY <1>1, <1>2, <2>12, UninstallScanEffect, UninstallProveEffect, GotoEffect DEF Only, Kept,
       Closed, UninstallTask
  <2>13. CASE UninstallRuntime
    BY <1>1, <2>13, GotoEffect DEF Only, UninstallRuntime, NoRt
  <2>14. CASE UninstallDefinition
    BY <1>1, <1>2, <2>14, GotoEffect DEF Only, Kept, Closed, UninstallDefinition
  <2>15. CASE UninstallCurrent
    BY <1>1, <1>2, <2>15, UninstallCurrentEffect DEF Only, Kept, Closed
  <2> QED BY <1>4, <2>1, <2>2, <2>3, <2>4, <2>5, <2>6, <2>7, <2>8, <2>9, <2>10, <2>11, <2>12,
             <2>13, <2>14, <2>15 DEF Command
<1>5. ASSUME NEW n \in Pids, Runner(n) \/ RunnerFails(n) PROVE DiskInv'
  <2>1. proc[n].child # "none" => proc[n].cfg \in DOMAIN made
    BY DEF ProcInv
  <2>2. CASE Launch(n) \/ Retry(n)
    BY <2>2, <1>1, LaunchEffect, RetryEffect
  <2>3. CASE Killed(n) \/ Exit(n)
    BY <2>3, <1>1, EndEffect
  <2>4. CASE Preflight(n)
    BY <2>4, <1>1, PreflightEffect
  <2>5. CASE WriteStarting(n)
    BY <2>1, <2>5, <1>1, WriteStartingEffect
  <2>6. CASE MarkReady(n) \/ MarkStopping(n) \/ MarkStopped(n)
    BY <2>1, <2>6, <1>1, MarksEffect DEF Marks, ChildGoes
  <2>7. CASE RunnerFails(n)
    BY <2>1, <2>7, <1>1, RunnerFailsEffect
  <2> QED BY <1>5, <2>2, <2>3, <2>4, <2>5, <2>6, <2>7 DEF Runner
<1>6. ASSUME StatusPeek \/ StatusDrop \/ Logon \/ UserEditsTask \/ UserRemovesTask PROVE DiskInv'
  <2>1. CASE StatusPeek \/ StatusDrop \/ Logon
    BY <1>1, <2>1 DEF StatusPeek, StatusDrop, Logon
  <2>2. CASE UserRemovesTask
    BY <1>1, <2>2 DEF UserRemovesTask
  <2>3. CASE UserEditsTask
    <3>1. task' \in [kind : {"owned"}, cfg : DOMAIN made, drift : BOOLEAN]
      <4> DEFINE T == [kind : {"owned"}, cfg : DOMAIN made, drift : BOOLEAN]
      <4>1. task \in T
        BY <2>3 DEF UserEditsTask, Registered, NoTask, Foreign
      <4>2. task' = [task EXCEPT !.drift = TRUE]
        BY <2>3 DEF UserEditsTask
      <4> QED BY ONLY <4>1, <4>2
    <3> QED BY <1>1, <2>3, <3>1 DEF UserEditsTask
  <2> QED BY <1>6, <2>1, <2>2, <2>3
<1>7. ASSUME NEW d \in 1..MaxDefs, UserRemovesDefinition(d) PROVE DiskInv'
  BY <1>1, <1>7 DEF UserRemovesDefinition, NoTask, Foreign
<1>8. ASSUME UNCHANGED vars PROVE DiskInv'
  BY <1>1, <1>8 DEF vars, disk, NoTask, Foreign
<1>9. ASSUME CommandCrash PROVE DiskInv'
  BY <1>1, <1>9 DEF CommandCrash, Idle, NoTask, Foreign
<1> QED BY <1>3, <1>4, <1>5, <1>6, <1>7, <1>8, <1>9 DEF Next, Ops

\* The registration goes before the definitions, and comes after them.
LEMMA IndexStep ==
  ASSUME ServiceInv, [Next]_vars
  PROVE  IndexInv'
<1> USE DEF ServiceInv, IndexInv, TaskResolvable, disk
<1>1. ctl.pc \in {"i_define", "i_register", "i_point", "i_clean"} => ctl.op = "install"
  BY DEF PhaseInv, InstallPoints
<1>2. Registered => task.cfg # 0
  BY DEF Registered, DiskInv, NoTask, Foreign
<1>3. ASSUME Refused PROVE IndexInv'
  BY <1>1, <1>2, <1>3, RefusedEffect DEF Kept, Closed, Reasons, Registered
<1>4. ASSUME NEW op \in Ops, NEW set \in Settings \cup {0}, NEW nostart, Begin(op, set, nostart),
            op = "install" => set \in Settings
      PROVE  IndexInv'
  BY <1>1, <1>2, <1>4, BeginEffect DEF Kept, Ops, Registered
<1>5. ASSUME Command PROVE IndexInv'
  <2>1. CASE Return \/ GuardCapture
    BY <1>1, <1>2, <1>3, <2>1, GuardCaptureEffect DEF Only, Kept, Closed, Return, Idle,
       Registered
  <2>2. CASE InstallRegister
    BY <1>1, <1>2, <1>3, <2>2, GotoEffect DEF Only, Kept, Closed, InstallRegister, Registered
  <2>3. CASE InstallPoint
    BY <1>1, <1>2, <1>3, <2>3, GotoEffect DEF Only, Kept, Closed, InstallPoint, Registered
  <2>4. CASE GuardVerify \/ InstallReplace
    BY <1>1, <1>2, <1>3, <2>4, GuardVerifyEffect, InstallReplaceEffect DEF Only, Kept, Closed,
       Registered
  <2>5. CASE InstallDefine
    <3>1. CASE Refused
      BY <1>3, <3>1
    <3>2. CASE ~Refused
      <4>1. Existing \in defs \cup {0}
        BY <2>5, <3>2, InstallDefineEffect DEF Existing
      <4>2. defs \subseteq defs' /\ ctl'.target \in defs'
        BY <2>5, <3>2, <4>1, InstallDefineEffect
      <4>3. cur \in {0} \cup defs \cup lost
        BY <2>5, <3>2, InstallDefineEffect
      <4>4. ctl'.drift \/ (Registered => task.cfg = ctl'.target)
        BY <2>5, <3>2, InstallDefineEffect
      <4> QED BY <2>5, <1>1, <1>2, <3>2, <4>2, <4>3, <4>4, InstallDefineEffect DEF Only, Registered
    <3> QED BY <3>1, <3>2
  <2>6. CASE InstallClean
    BY <1>1, <1>2, <1>3, <2>6, InstallCleanEffect DEF Only, Kept, Closed, Registered
  <2>7. CASE InstallPost \/ InstallWait \/ Context
    BY <1>1, <1>2, <1>3, <2>7, InstallPostEffect, InstallWaitEffect, ContextEffect DEF Only,
       Kept, Closed, Shutdown, Registered
  <2>8. CASE StartRead \/ StartProbe \/ StartTimeout \/ StartRun
    BY <1>1, <1>2, <1>3, <2>8, StartReadEffect, StartProbeEffect, StartTimeoutEffect,
       StartRunEffect DEF Only, Kept, Closed, Registered
  <2>9. CASE StopRead \/ StopProbe \/ StopLease \/ StopPost
    BY <1>1, <1>2, <1>3, <2>9, StopReadEffect, StopProbeEffect, StopLeaseEffect, StopPostEffect
       DEF Only, Kept, Closed, Shutdown, Registered
  <2>10. CASE StopGrace \/ StopForced
    BY <1>1, <1>2, <1>3, <2>10, StopGraceEffect, StopWaitEffect, StopForcedEffect DEF Only, Kept,
       Closed, Registered
  <2>11. CASE StopFallback \/ StopKill
    BY <1>1, <1>2, <1>3, <2>11, StopFallbackEffect, StopKillEffect DEF Only, Kept, Closed,
       Registered
  <2>12. CASE Stopped
    BY <1>1, <1>2, <1>3, <2>12, StoppedEffect DEF Only, Kept, Closed, Registered
  <2>13. CASE OrphanLease \/ OrphanProbe \/ OrphanPost \/ OrphanWait
    BY <1>1, <1>2, <1>3, <2>13, OrphanLeaseEffect, OrphanProbeEffect, OrphanPostEffect,
       OrphanWaitEffect DEF Only, Kept, Closed, Shutdown, Registered
  <2>14. CASE UninstallProve
    BY <1>1, <1>2, <1>3, <2>14, UninstallProveEffect DEF Only, Kept, Closed, Registered
  <2>15. CASE UninstallScan
    BY <1>1, <1>2, <1>3, <2>15, UninstallScanEffect DEF Only, Kept, Closed, Registered
  <2>16. CASE UninstallTask
    BY <1>1, <1>2, <2>16, GotoEffect DEF Only, UninstallTask, Registered, NoTask
  <2>17. CASE UninstallRuntime
    BY <1>1, <1>2, <1>3, <2>17, GotoEffect DEF Only, Kept, Closed, UninstallRuntime, Registered
  <2>18. CASE UninstallDefinition
    BY <1>1, <1>2, <1>3, <2>18, GotoEffect DEF Only, Kept, Closed, UninstallDefinition,
       Registered
  <2>19. CASE UninstallCurrent
    BY <1>1, <1>2, <1>3, <2>19, UninstallCurrentEffect DEF Only, Kept, Closed, Registered
  <2> QED BY <1>5, <2>1, <2>2, <2>3, <2>4, <2>5, <2>6, <2>7, <2>8, <2>9, <2>10, <2>11, <2>12,
             <2>13, <2>14, <2>15, <2>16, <2>17, <2>18, <2>19 DEF Command
<1>6. ASSUME NEW n \in Pids, Runner(n) \/ RunnerFails(n) PROVE IndexInv'
  BY <1>1, <1>2, <1>6 DEF Runner, Launch, Retry, Killed, Preflight, WriteStarting, MarkReady,
     MarkStopping, MarkStopped, RunnerStep, Exit, RunnerFails, Registered
<1>7. ASSUME StatusPeek \/ StatusDrop \/ Logon \/ UserEditsTask \/ UserRemovesTask PROVE IndexInv'
  <2>1. CASE StatusPeek \/ StatusDrop \/ Logon
    BY <1>1, <1>2, <2>1 DEF StatusPeek, StatusDrop, Logon, Registered
  <2>2. CASE UserRemovesTask
    BY <1>1, <1>2, <2>2 DEF UserRemovesTask, Registered, NoTask
  <2>3. CASE UserEditsTask
    <3>1. task'.kind = task.kind /\ task'.cfg = task.cfg
      BY <2>3 DEF UserEditsTask
    <3> QED BY <1>1, <1>2, <2>3, <3>1 DEF UserEditsTask, Registered
  <2> QED BY <1>7, <2>1, <2>2, <2>3
<1>8. ASSUME NEW d \in 1..MaxDefs, UserRemovesDefinition(d) PROVE IndexInv'
  BY <1>1, <1>2, <1>8 DEF UserRemovesDefinition, Registered
<1>9. ASSUME UNCHANGED vars PROVE IndexInv'
  BY <1>1, <1>2, <1>9 DEF vars, disk, Registered
<1>10. ASSUME CommandCrash PROVE IndexInv'
  BY <1>1, <1>2, <1>10 DEF CommandCrash, Idle, Registered
<1> QED BY <1>4, <1>5, <1>6, <1>7, <1>8, <1>9, <1>10 DEF Next, Ops

\* A command begins with a launch left, and the last one is kept for it.
LEMMA FreshStep ==
  ASSUME ServiceInv, [Next]_vars
  PROVE  FreshInv'
<1> USE DEF ServiceInv, FreshInv
<1>1. Fresh # {} /\ ctl'.pc # "s_poll" => Fresh' # {}
  BY FreshLeft
<1>2. ASSUME Refused PROVE FreshInv'
  BY <1>1, <1>2, RefusedEffect DEF Kept, Closed, Reasons
<1>3. ASSUME NEW op \in Ops, NEW set \in Settings \cup {0}, NEW nostart, Begin(op, set, nostart),
            op = "install" => set \in Settings
      PROVE  FreshInv'
  BY <1>1, <1>3, BeginEffect DEF Kept, Ops
<1>4. ASSUME Command PROVE FreshInv'
  <2>1. CASE Return \/ GuardCapture \/ InstallRegister \/ InstallPoint
    BY <1>1, <1>2, <2>1, GuardCaptureEffect, GotoEffect DEF Only, Kept, Closed, Return, Idle,
       InstallRegister, InstallPoint
  <2>2. CASE GuardVerify \/ InstallDefine \/ InstallClean \/ InstallReplace
    BY <1>1, <1>2, <2>2, GuardVerifyEffect, InstallDefineEffect, InstallCleanEffect,
       InstallReplaceEffect DEF Only, Kept, Closed
  <2>3. CASE InstallPost \/ InstallWait \/ Context
    BY <1>1, <1>2, <2>3, InstallPostEffect, InstallWaitEffect, ContextEffect DEF Only, Kept,
       Closed, Shutdown
  <2>4. CASE StartRead \/ StartProbe \/ StartTimeout \/ StartRun
    BY <1>1, <1>2, <2>4, StartReadEffect, StartProbeEffect, StartTimeoutEffect, StartRunEffect
       DEF Only, Kept, Closed
  <2>5. CASE StopRead \/ StopProbe \/ StopLease \/ StopPost
    BY <1>1, <1>2, <2>5, StopReadEffect, StopProbeEffect, StopLeaseEffect, StopPostEffect
       DEF Only, Kept, Closed, Shutdown
  <2>6. CASE StopGrace \/ StopForced
    BY <1>1, <1>2, <2>6, StopGraceEffect, StopWaitEffect, StopForcedEffect DEF Only, Kept, Closed
  <2>7. CASE StopFallback \/ StopKill \/ Stopped
    BY <1>1, <1>2, <2>7, StopFallbackEffect, StopKillEffect, StoppedEffect DEF Only, Kept, Closed
  <2>8. CASE OrphanLease \/ OrphanProbe \/ OrphanPost \/ OrphanWait
    BY <1>1, <1>2, <2>8, OrphanLeaseEffect, OrphanProbeEffect, OrphanPostEffect, OrphanWaitEffect
       DEF Only, Kept, Closed, Shutdown
  <2>9. CASE UninstallScan \/ UninstallProve \/ UninstallTask
    BY <1>1, <1>2, <2>9, UninstallScanEffect, UninstallProveEffect, GotoEffect DEF Only, Kept,
       Closed, UninstallTask
  <2>10. CASE UninstallRuntime \/ UninstallDefinition \/ UninstallCurrent
    BY <1>1, <1>2, <2>10, GotoEffect, UninstallCurrentEffect DEF Only, Kept, Closed,
       UninstallRuntime, UninstallDefinition
  <2> QED BY <1>4, <2>1, <2>2, <2>3, <2>4, <2>5, <2>6, <2>7, <2>8, <2>9, <2>10 DEF Command
<1>5. ASSUME NEW n \in Pids, Runner(n) \/ RunnerFails(n) PROVE FreshInv'
  BY <1>1, <1>5 DEF Runner, Launch, Retry, Killed, Preflight, WriteStarting, MarkReady,
     MarkStopping, MarkStopped, RunnerStep, Exit, RunnerFails
<1>6. ASSUME StatusPeek \/ StatusDrop \/ Logon \/ UserEditsTask \/ UserRemovesTask PROVE FreshInv'
  BY <1>1, <1>6 DEF StatusPeek, StatusDrop, Logon, UserEditsTask, UserRemovesTask
<1>7. ASSUME NEW d \in 1..MaxDefs, UserRemovesDefinition(d) PROVE FreshInv'
  BY <1>1, <1>7 DEF UserRemovesDefinition
<1>8. ASSUME UNCHANGED vars PROVE FreshInv'
  BY <1>1, <1>8 DEF vars, disk
<1>9. ASSUME CommandCrash PROVE FreshInv'
  BY <1>1, <1>9 DEF CommandCrash, Idle
<1> QED BY <1>3, <1>4, <1>5, <1>6, <1>7, <1>8, <1>9 DEF Next, Ops

\* A runner describes itself, and its description stays true of it.
LEMMA DocStep ==
  ASSUME ServiceInv, [Next]_vars
  PROVE  DocInv'
<1> USE DEF ServiceInv, DocInv
<1>1. Evolves /\ ids \in Nat /\ ids' \in Nat
  BY ProcStep DEF ProcInv
<1>2. /\ Describes(proc', ids', rt) /\ Describes(proc', ids', ctl.seen)
      /\ Describes(proc', ids', NoRt)
  BY <1>1, DescribesKept, NoRtDescribes
<1>3. ASSUME Refused PROVE DocInv'
  BY <1>1, <1>2, <1>3, RefusedEffect DEF Kept, Closed, Reasons
<1>4. ASSUME NEW op \in Ops, NEW set \in Settings \cup {0}, NEW nostart, Begin(op, set, nostart),
            op = "install" => set \in Settings
      PROVE  DocInv'
  BY <1>1, <1>2, <1>4, BeginEffect DEF Kept, Ops
<1>5. ASSUME Command PROVE DocInv'
  <2>1. CASE Return \/ GuardCapture \/ InstallRegister \/ InstallPoint
    BY <1>1, <1>2, <1>3, <2>1, GuardCaptureEffect, GotoEffect DEF Only, Kept, Closed, Return,
       Idle, InstallRegister, InstallPoint
  <2>2. CASE GuardVerify \/ InstallDefine \/ InstallClean \/ InstallReplace
    BY <1>1, <1>2, <1>3, <2>2, GuardVerifyEffect, InstallDefineEffect, InstallCleanEffect,
       InstallReplaceEffect DEF Only, Kept, Closed
  <2>3. CASE InstallPost \/ InstallWait \/ Context
    BY <1>1, <1>2, <1>3, <2>3, InstallPostEffect, InstallWaitEffect, ContextEffect DEF Only,
       Kept, Closed, Shutdown
  <2>4. CASE StartRead \/ StartProbe \/ StartTimeout \/ StartRun
    BY <1>1, <1>2, <1>3, <2>4, StartReadEffect, StartProbeEffect, StartTimeoutEffect,
       StartRunEffect DEF Only, Kept, Closed
  <2>5. CASE StopRead \/ StopProbe \/ StopLease \/ StopPost
    BY <1>1, <1>2, <1>3, <2>5, StopReadEffect, StopProbeEffect, StopLeaseEffect, StopPostEffect
       DEF Only, Kept, Closed, Shutdown
  <2>6. CASE StopGrace \/ StopForced
    BY <1>1, <1>2, <1>3, <2>6, StopGraceEffect, StopWaitEffect, StopForcedEffect DEF Only, Kept,
       Closed
  <2>7. CASE StopFallback \/ StopKill \/ Stopped
    BY <1>1, <1>2, <1>3, <2>7, StopFallbackEffect, StopKillEffect, StoppedEffect DEF Only, Kept,
       Closed
  <2>8. CASE OrphanLease \/ OrphanProbe \/ OrphanPost \/ OrphanWait
    BY <1>1, <1>2, <1>3, <2>8, OrphanLeaseEffect, OrphanProbeEffect, OrphanPostEffect,
       OrphanWaitEffect DEF Only, Kept, Closed, Shutdown
  <2>9. CASE UninstallScan \/ UninstallProve \/ UninstallTask
    BY <1>1, <1>2, <1>3, <2>9, UninstallScanEffect, UninstallProveEffect, GotoEffect DEF Only,
       Kept, Closed, UninstallTask
  <2>10. CASE UninstallRuntime
    BY <1>1, <1>2, <1>3, <2>10, GotoEffect DEF Only, Kept, Closed, UninstallRuntime
  <2>11. CASE UninstallDefinition
    BY <1>1, <1>2, <1>3, <2>11, GotoEffect DEF Only, Kept, Closed, UninstallDefinition
  <2>12. CASE UninstallCurrent
    BY <1>1, <1>2, <1>3, <2>12, UninstallCurrentEffect DEF Only, Kept, Closed
  <2> QED BY <1>5, <2>1, <2>2, <2>3, <2>4, <2>5, <2>6, <2>7, <2>8, <2>9, <2>10, <2>11, <2>12
             DEF Command
<1>6. ASSUME NEW n \in Pids, Runner(n) \/ RunnerFails(n) PROVE DocInv'
  <2>1. proc[n].child # "none" => proc[n].cfg # 0 /\ proc[n].st = "run"
    BY DEF ProcInv, DiskInv
  <2>2. ASSUME proc[n].child \in Live, Evolves, ids' \in Nat, ids \in Nat, NEW doc,
               doc.cfg = proc[n].cfg, doc.inst = proc[n].id, doc.pid = n
        PROVE  Describes(proc', ids', doc)
    <3>1. \A m \in Pids : m # n => proc[m].id = 0
      BY <2>2 DEF LeaseInv, ProcInv
    <3>2. Describes(proc, ids, doc)
      BY <2>1, <2>2, <3>1 DEF Describes, NamedBy, ProcInv, Live
    <3> QED BY <2>2, <3>2, DescribesKept
  <2>3. CASE Launch(n) \/ Retry(n) \/ Killed(n) \/ Exit(n) \/ Preflight(n)
    BY <2>3, <1>1, <1>2, LaunchEffect, RetryEffect, EndEffect, PreflightEffect
  <2>4. CASE WriteStarting(n)
    <3>1. \A m \in Pids : m # n => proc'[m].id = 0
      BY <2>4, WriteStartingEffect DEF LeaseInv, ProcInv, Live, Others
    <3>2. /\ proc'[n].cfg = proc[n].cfg /\ proc[n].cfg # 0
          /\ rt'.cfg = proc[n].cfg /\ rt'.inst = ids + 1 /\ rt'.pid = n /\ ids' = ids + 1
          /\ ctl' = ctl
      BY <2>1, <2>4, WriteStartingEffect DEF Alike
    <3>3. Describes(proc', ids', rt')
      BY <3>1, <3>2 DEF Describes, NamedBy, ProcInv
    <3> QED BY <1>1, <1>2, <3>2, <3>3
  <2>5. CASE MarkReady(n) \/ MarkStopping(n) \/ MarkStopped(n)
    BY <2>2, <2>5, <1>1, <1>2, MarksEffect DEF Marks, ChildGoes, Live
  <2>6. CASE RunnerFails(n)
    BY <2>2, <2>6, <1>1, <1>2, RunnerFailsEffect
  <2> QED BY <1>6, <2>3, <2>4, <2>5, <2>6 DEF Runner
<1>7. ASSUME StatusPeek \/ StatusDrop \/ Logon \/ UserEditsTask \/ UserRemovesTask PROVE DocInv'
  BY <1>1, <1>2, <1>7 DEF StatusPeek, StatusDrop, Logon, UserEditsTask, UserRemovesTask
<1>8. ASSUME NEW d \in 1..MaxDefs, UserRemovesDefinition(d) PROVE DocInv'
  BY <1>1, <1>2, <1>8 DEF UserRemovesDefinition
<1>9. ASSUME UNCHANGED vars PROVE DocInv'
  BY <1>1, <1>2, <1>9 DEF vars, disk
<1>10. ASSUME CommandCrash PROVE DocInv'
  BY <1>1, <1>2, <1>10 DEF CommandCrash, Idle
<1> QED BY <1>4, <1>5, <1>6, <1>7, <1>8, <1>9, <1>10 DEF Next, Ops

\* No instance is older than the moment a command saw none.
LEMMA MarkStep ==
  ASSUME ServiceInv, [Next]_vars
  PROVE  MarkInv'
<1> USE DEF ServiceInv, MarkInv
<1>1. Evolves /\ ids \in Nat /\ ids' \in Nat
  BY ProcStep DEF ProcInv
<1>2. /\ ctl.mark \in 0..ids' /\ ids \in 0..ids' /\ 0 \in 0..ids'
      /\ ctl.ran => \A n \in Pids : proc'[n].id # 0 => proc'[n].id > ctl.mark
  BY <1>1 DEF Evolves, ProcInv
<1>3. ctl.pc = "stopped" => \A n \in Pids : proc[n].id = 0
  BY Holders DEF LeaseInv, ProcInv
<1>4. ASSUME Refused PROVE MarkInv'
  BY <1>1, <1>2, <1>3, <1>4, RefusedEffect DEF Kept, Closed, Reasons
<1>5. ASSUME NEW op \in Ops, NEW set \in Settings \cup {0}, NEW nostart, Begin(op, set, nostart),
            op = "install" => set \in Settings
      PROVE  MarkInv'
  BY <1>1, <1>2, <1>3, <1>5, BeginEffect DEF Kept, Ops
<1>6. ASSUME Command PROVE MarkInv'
  <2>1. CASE Return \/ GuardCapture \/ InstallRegister \/ InstallPoint
    BY <1>1, <1>2, <1>3, <1>4, <2>1, GuardCaptureEffect, GotoEffect DEF Only, Kept, Closed,
       Return, Idle, InstallRegister, InstallPoint
  <2>2. CASE GuardVerify \/ InstallDefine \/ InstallClean \/ InstallReplace
    BY <1>1, <1>2, <1>3, <1>4, <2>2, GuardVerifyEffect, InstallDefineEffect, InstallCleanEffect,
       InstallReplaceEffect DEF Only, Kept, Closed
  <2>3. CASE InstallPost \/ InstallWait \/ Context
    BY <1>1, <1>2, <1>3, <1>4, <2>3, InstallPostEffect, InstallWaitEffect, ContextEffect
       DEF Only, Kept, Closed, Shutdown
  <2>4. CASE StartRead \/ StartProbe \/ StartTimeout \/ StartRun
    BY <1>1, <1>2, <1>3, <1>4, <2>4, StartReadEffect, StartProbeEffect, StartTimeoutEffect,
       StartRunEffect DEF Only, Kept, Closed
  <2>5. CASE StopRead \/ StopProbe \/ StopLease \/ StopPost
    BY <1>1, <1>2, <1>3, <1>4, <2>5, StopReadEffect, StopProbeEffect, StopLeaseEffect,
       StopPostEffect DEF Only, Kept, Closed, Shutdown
  <2>6. CASE StopGrace \/ StopForced
    BY <1>1, <1>2, <1>3, <1>4, <2>6, StopGraceEffect, StopWaitEffect, StopForcedEffect DEF Only,
       Kept, Closed
  <2>7. CASE StopFallback \/ StopKill \/ Stopped
    BY <1>1, <1>2, <1>3, <1>4, <2>7, StopFallbackEffect, StopKillEffect, StoppedEffect DEF Only,
       Kept, Closed
  <2>8. CASE OrphanLease \/ OrphanProbe \/ OrphanPost \/ OrphanWait
    BY <1>1, <1>2, <1>3, <1>4, <2>8, OrphanLeaseEffect, OrphanProbeEffect, OrphanPostEffect,
       OrphanWaitEffect DEF Only, Kept, Closed, Shutdown
  <2>9. CASE UninstallScan \/ UninstallProve \/ UninstallTask
    BY <1>1, <1>2, <1>3, <1>4, <2>9, UninstallScanEffect, UninstallProveEffect, GotoEffect
       DEF Only, Kept, Closed, UninstallTask
  <2>10. CASE UninstallRuntime
    BY <1>1, <1>2, <1>3, <1>4, <2>10, GotoEffect DEF Only, Kept, Closed, UninstallRuntime
  <2>11. CASE UninstallDefinition
    BY <1>1, <1>2, <1>3, <1>4, <2>11, GotoEffect DEF Only, Kept, Closed, UninstallDefinition
  <2>12. CASE UninstallCurrent
    BY <1>1, <1>2, <1>3, <1>4, <2>12, UninstallCurrentEffect DEF Only, Kept, Closed
  <2> QED BY <1>6, <2>1, <2>2, <2>3, <2>4, <2>5, <2>6, <2>7, <2>8, <2>9, <2>10, <2>11, <2>12
             DEF Command
<1>7. ASSUME NEW n \in Pids, Runner(n) \/ RunnerFails(n) PROVE MarkInv'
  BY <1>1, <1>2, <1>3, <1>7 DEF Runner, Launch, Retry, Killed, Preflight, WriteStarting,
     MarkReady, MarkStopping, MarkStopped, RunnerStep, Exit, RunnerFails
<1>8. ASSUME StatusPeek \/ StatusDrop \/ Logon \/ UserEditsTask \/ UserRemovesTask PROVE MarkInv'
  BY <1>1, <1>2, <1>3, <1>8 DEF StatusPeek, StatusDrop, Logon, UserEditsTask, UserRemovesTask
<1>9. ASSUME NEW d \in 1..MaxDefs, UserRemovesDefinition(d) PROVE MarkInv'
  BY <1>1, <1>2, <1>3, <1>9 DEF UserRemovesDefinition
<1>10. ASSUME UNCHANGED vars PROVE MarkInv'
  BY <1>1, <1>2, <1>3, <1>10 DEF vars, disk
<1>11. ASSUME CommandCrash PROVE MarkInv'
  BY <1>1, <1>2, <1>3, <1>11 DEF CommandCrash, Idle
<1> QED BY <1>5, <1>6, <1>7, <1>8, <1>9, <1>10, <1>11 DEF Next, Ops

\* What a probe found runs the definition asked for, and goes on to.
LEMMA FoundNames ==
  ASSUME ServiceInv, [Next]_vars, NEW d, NEW doc, NEW r, Found(d, doc, r), Describes(proc, ids, doc)
  PROVE  NamedBy(proc', r.id, d) /\ r.id \in 0..ids'
<1>1. Evolves /\ ids \in Nat
  BY ProcStep DEF ServiceInv, ProcInv
<1>2. r.id \in 0..ids /\ NamedBy(proc, r.id, d)
  BY DEF Found, Describes
<1> QED BY <1>1, <1>2, NamesKept DEF Evolves

\* A command aims at what it read, and what it aims at stays what it was.
LEMMA AimStep ==
  ASSUME ServiceInv, [Next]_vars
  PROVE  AimInv'
<1> USE DEF ServiceInv, AimInv
<1>1. Evolves /\ ids \in Nat /\ ids' \in Nat /\ ids' >= ids
  BY ProcStep DEF ProcInv, Evolves
<1>2. 0 \in 0..ids' /\ ctl.oldId \in 0..ids'
  BY <1>1
<1>3. /\ ctl.pc = "i_post" => NamedBy(proc', ctl.oldId, ctl.old)
      /\ ctl.pc \in {"p_lease", "p_post", "o_post"} => NamedBy(proc', ctl.oldId, ctl.target)
  BY <1>1, NamesKept
<1>4. ctl.pc = "p_kill" /\ ~ctl.obs =>
        /\ proc'[ctl.tgt].cfg # 0
        /\ proc'[ctl.tgt].st # "none" => proc'[ctl.tgt].cfg = ctl.target
  BY <1>1 DEF Evolves
<1>5. \A r : Found(ctl.old, rt, r) => NamedBy(proc', r.id, ctl.old) /\ r.id \in 0..ids'
  BY FoundNames DEF DocInv
<1>6. \A r : Found(ctl.target, ctl.seen, r) =>
        NamedBy(proc', r.id, ctl.target) /\ r.id \in 0..ids'
  BY FoundNames DEF DocInv
<1>7. NamedBy(proc', 0, ctl.target)
  BY DEF NamedBy
<1>8. ASSUME Refused PROVE AimInv'
  BY <1>1, <1>2, <1>3, <1>4, <1>5, <1>6, <1>7, <1>8, RefusedEffect DEF Kept, Closed, Reasons
<1>9. ASSUME NEW op \in Ops, NEW set \in Settings \cup {0}, NEW nostart, Begin(op, set, nostart),
            op = "install" => set \in Settings
      PROVE  AimInv'
  BY <1>1, <1>2, <1>3, <1>4, <1>5, <1>6, <1>7, <1>9, BeginEffect DEF Kept, Ops
<1>10. ASSUME Command PROVE AimInv'
  <2>1. CASE Return \/ GuardCapture \/ InstallRegister \/ InstallPoint
    BY <1>1, <1>2, <1>3, <1>4, <1>5, <1>6, <1>7, <1>8, <2>1, GuardCaptureEffect, GotoEffect
       DEF Only, Kept, Closed, Return, Idle, InstallRegister, InstallPoint
  <2>2. CASE GuardVerify \/ InstallDefine \/ InstallClean \/ InstallReplace
    BY <1>1, <1>2, <1>3, <1>4, <1>5, <1>6, <1>7, <1>8, <2>2, GuardVerifyEffect,
       InstallDefineEffect, InstallCleanEffect, InstallReplaceEffect DEF Only, Kept, Closed
  <2>3. CASE InstallPost \/ InstallWait \/ Context
    BY <1>1, <1>2, <1>3, <1>4, <1>5, <1>6, <1>7, <1>8, <2>3, InstallPostEffect,
       InstallWaitEffect, ContextEffect DEF Only, Kept, Closed, Shutdown
  <2>4. CASE StartRead \/ StartProbe \/ StartTimeout \/ StartRun
    BY <1>1, <1>2, <1>3, <1>4, <1>5, <1>6, <1>7, <1>8, <2>4, StartReadEffect, StartProbeEffect,
       StartTimeoutEffect, StartRunEffect DEF Only, Kept, Closed
  <2>5. CASE StopRead \/ StopPost
    BY <1>1, <1>2, <1>3, <1>4, <1>5, <1>6, <1>7, <1>8, <2>5, StopReadEffect, StopPostEffect
       DEF Only, Kept, Closed, Shutdown
  <2>6. CASE StopProbe
    BY <1>1, <1>2, <1>3, <1>4, <1>5, <1>6, <1>7, <1>8, <2>6, StopProbeEffect DEF Only, Kept,
       Closed
  <2>7. CASE StopLease
    BY <1>1, <1>2, <1>3, <1>4, <1>5, <1>6, <1>7, <1>8, <2>7, StopLeaseEffect DEF Only, Kept,
       Closed
  <2>8. CASE StopGrace \/ StopForced
    BY <1>1, <1>2, <1>3, <1>4, <1>5, <1>6, <1>7, <1>8, <2>8, StopGraceEffect, StopWaitEffect,
       StopForcedEffect DEF Only, Kept, Closed
  <2>9. CASE Stopped
    BY <1>1, <1>2, <1>3, <1>4, <1>5, <1>6, <1>7, <1>8, <2>9, StoppedEffect DEF Only, Kept, Closed
  <2>10. CASE StopFallback
    <3>1. CASE Refused
      BY <1>8, <3>1
    <3>2. CASE ~Refused
      <4>1. Describes(proc, ids, ctl.seen)
        BY DEF DocInv
      <4>2. /\ ctl'.tgt \in Pids /\ proc' = proc /\ ctl'.pc = "p_kill"
            /\ ctl'.oldId = ctl.oldId /\ ctl'.target = ctl.target
        BY <2>10, <3>2, StopFallbackEffect DEF Only, Kept
      <4>3. ~ctl'.obs => proc[ctl'.tgt].cfg # 0 /\ proc[ctl'.tgt].cfg = ctl.target
        BY <2>10, <3>2, <4>1, <4>2, StopFallbackEffect, Holders DEF Describes, Pids
      <4> QED BY <1>1, <1>2, <1>3, <1>4, <1>5, <1>6, <1>7, <4>2, <4>3
    <3> QED BY <3>1, <3>2
  <2>11. CASE StopKill
    BY <1>1, <1>2, <1>3, <1>4, <1>5, <1>6, <1>7, <1>8, <2>11, StopKillEffect DEF Only, Kept,
       Closed
  <2>12. CASE OrphanLease \/ OrphanProbe \/ OrphanPost \/ OrphanWait
    BY <1>1, <1>2, <1>3, <1>4, <1>5, <1>6, <1>7, <1>8, <2>12, OrphanLeaseEffect,
       OrphanProbeEffect, OrphanPostEffect, OrphanWaitEffect DEF Only, Kept, Closed, Shutdown
  <2>13. CASE UninstallScan \/ UninstallProve \/ UninstallTask
    BY <1>1, <1>2, <1>3, <1>4, <1>5, <1>6, <1>7, <1>8, <2>13, UninstallScanEffect,
       UninstallProveEffect, GotoEffect DEF Only, Kept, Closed, UninstallTask
  <2>14. CASE UninstallRuntime
    BY <1>1, <1>2, <1>3, <1>4, <1>5, <1>6, <1>7, <1>8, <2>14, GotoEffect DEF Only, Kept, Closed,
       UninstallRuntime
  <2>15. CASE UninstallDefinition
    BY <1>1, <1>2, <1>3, <1>4, <1>5, <1>6, <1>7, <1>8, <2>15, GotoEffect DEF Only, Kept, Closed,
       UninstallDefinition
  <2>16. CASE UninstallCurrent
    BY <1>1, <1>2, <1>3, <1>4, <1>5, <1>6, <1>7, <1>8, <2>16, UninstallCurrentEffect DEF Only,
       Kept, Closed
  <2> QED BY <1>10, <2>1, <2>2, <2>3, <2>4, <2>5, <2>6, <2>7, <2>8, <2>9, <2>10, <2>11, <2>12,
             <2>13, <2>14, <2>15, <2>16 DEF Command
<1>11. ASSUME NEW n \in Pids, Runner(n) \/ RunnerFails(n) PROVE AimInv'
  BY <1>1, <1>2, <1>3, <1>4, <1>5, <1>6, <1>7, <1>11 DEF Runner, Launch, Retry, Killed,
     Preflight, WriteStarting, MarkReady, MarkStopping, MarkStopped, RunnerStep, Exit,
     RunnerFails
<1>12. ASSUME StatusPeek \/ StatusDrop \/ Logon \/ UserEditsTask \/ UserRemovesTask PROVE AimInv'
  BY <1>1, <1>2, <1>3, <1>4, <1>5, <1>6, <1>7, <1>12 DEF StatusPeek, StatusDrop, Logon,
     UserEditsTask, UserRemovesTask
<1>13. ASSUME NEW d \in 1..MaxDefs, UserRemovesDefinition(d) PROVE AimInv'
  BY <1>1, <1>2, <1>3, <1>4, <1>5, <1>6, <1>7, <1>13 DEF UserRemovesDefinition
<1>14. ASSUME UNCHANGED vars PROVE AimInv'
  BY <1>1, <1>2, <1>3, <1>4, <1>5, <1>6, <1>7, <1>14 DEF vars, disk
<1>15. ASSUME CommandCrash PROVE AimInv'
  BY <1>1, <1>2, <1>3, <1>4, <1>5, <1>6, <1>7, <1>15 DEF CommandCrash, Idle
<1> QED BY <1>9, <1>10, <1>11, <1>12, <1>13, <1>14, <1>15 DEF Next, Ops

\* The instance a command names is the one it found.
LEMMA ReadyStep ==
  ASSUME ServiceInv, [Next]_vars
  PROVE  ReadyInv'
<1> USE DEF ServiceInv, ReadyInv
<1>1. Evolves /\ ids \in Nat /\ ids' \in Nat /\ ids' >= ids
  BY ProcStep DEF ProcInv, Evolves
<1>2. 0 \in 0..ids' /\ ctl.ready.id \in 0..ids' /\ Quiet.id = 0
  BY <1>1 DEF Quiet
<1>3. ctl.out = "ok" /\ ctl.op \in {"start", "install", "restart"} =>
        NamedBy(proc', ctl.ready.id, ctl.target)
  BY <1>1, NamesKept
<1>4. \A r : Found(ctl.target, ctl.seen, r) =>
        NamedBy(proc', r.id, ctl.target) /\ r.id \in 0..ids'
  BY FoundNames DEF DocInv
<1>5. \A r : Found(task.cfg, rt, r) => r.id \in 0..ids'
  BY FoundNames DEF DocInv
<1>6. ASSUME NEW d, NEW doc, NEW r, Found(d, doc, r), ctl.ran PROVE r.id > ctl.mark
  BY <1>6 DEF Found, MarkInv, ProcInv, Live
<1>7. \A n \in Pids : proc[n].id \in 0..ids'
  BY <1>1 DEF ProcInv
<1>8. NamedBy(proc', 0, ctl.target)
  BY DEF NamedBy
<1>9. /\ ctl.out = "ok" => ctl.pc = "done"
      /\ ctl.pc = "i_clean" => ctl.op = "install" /\ ctl.ready.id = 0
      /\ ctl.pc \in {"s_probe", "s_look"} =>
           ctl.op \in {"start", "install"} \/ (ctl.op \in {"restart", "update"} /\ ctl.ran)
      /\ ctl.pc = "g_verify" => ctl.op = "update" /\ ctl.ran
      /\ ctl.pc = "u_cur" => ctl.op = "uninstall"
  BY DEF PhaseInv, InstallPoints, StartPoints, RemovalPoints, Quiet
<1>10. ASSUME Refused PROVE ReadyInv'
  BY <1>1, <1>2, <1>3, <1>4, <1>5, <1>6, <1>7, <1>8, <1>9, <1>10, RefusedEffect DEF Kept, Closed,
     Reasons
<1>11. ASSUME NEW op \in Ops, NEW set \in Settings \cup {0}, NEW nostart, Begin(op, set, nostart),
            op = "install" => set \in Settings
      PROVE  ReadyInv'
  BY <1>1, <1>2, <1>3, <1>4, <1>5, <1>6, <1>7, <1>8, <1>9, <1>11, BeginEffect DEF Kept, Ops
<1>12. ASSUME Command PROVE ReadyInv'
  <2>1. CASE Return \/ GuardCapture \/ InstallRegister \/ InstallPoint
    BY <1>1, <1>2, <1>3, <1>4, <1>5, <1>6, <1>7, <1>8, <1>9, <1>10, <2>1, GuardCaptureEffect,
       GotoEffect DEF Only, Kept, Closed, Return, Idle, InstallRegister, InstallPoint
  <2>2. CASE InstallDefine \/ InstallReplace
    BY <1>1, <1>2, <1>3, <1>4, <1>5, <1>6, <1>7, <1>8, <1>9, <1>10, <2>2, InstallDefineEffect,
       InstallReplaceEffect DEF Only, Kept, Closed
  <2>3. CASE GuardVerify
    BY <1>1, <1>2, <1>3, <1>4, <1>5, <1>6, <1>7, <1>8, <1>9, <1>10, <2>3, GuardVerifyEffect
       DEF Only, Kept, Closed
  <2>4. CASE InstallClean
    BY <1>1, <1>2, <1>3, <1>4, <1>5, <1>6, <1>7, <1>8, <1>9, <1>10, <2>4, InstallCleanEffect
       DEF Only, Kept, Closed
  <2>5. CASE InstallPost \/ InstallWait \/ Context
    BY <1>1, <1>2, <1>3, <1>4, <1>5, <1>6, <1>7, <1>8, <1>9, <1>10, <2>5, InstallPostEffect,
       InstallWaitEffect, ContextEffect DEF Only, Kept, Closed, Shutdown
  <2>6. CASE StartRead \/ StartTimeout \/ StartRun
    BY <1>1, <1>2, <1>3, <1>4, <1>5, <1>6, <1>7, <1>8, <1>9, <1>10, <2>6, StartReadEffect,
       StartTimeoutEffect, StartRunEffect DEF Only, Kept, Closed
  <2>7. CASE StartProbe
    BY <1>1, <1>2, <1>3, <1>4, <1>5, <1>6, <1>7, <1>8, <1>9, <1>10, <2>7, StartProbeEffect
       DEF Only, Kept, Closed
  <2>8. CASE StopRead \/ StopProbe \/ StopLease \/ StopPost
    BY <1>1, <1>2, <1>3, <1>4, <1>5, <1>6, <1>7, <1>8, <1>9, <1>10, <2>8, StopReadEffect,
       StopProbeEffect, StopLeaseEffect, StopPostEffect DEF Only, Kept, Closed, Shutdown
  <2>9. CASE StopGrace \/ StopForced
    BY <1>1, <1>2, <1>3, <1>4, <1>5, <1>6, <1>7, <1>8, <1>9, <1>10, <2>9, StopGraceEffect,
       StopWaitEffect, StopForcedEffect DEF Only, Kept, Closed
  <2>10. CASE StopFallback \/ StopKill
    BY <1>1, <1>2, <1>3, <1>4, <1>5, <1>6, <1>7, <1>8, <1>9, <1>10, <2>10, StopFallbackEffect,
       StopKillEffect DEF Only, Kept, Closed
  <2>11. CASE Stopped
    BY <1>1, <1>2, <1>3, <1>4, <1>5, <1>6, <1>7, <1>8, <1>9, <1>10, <2>11, StoppedEffect
       DEF Only, Kept, Closed
  <2>12. CASE OrphanLease \/ OrphanProbe \/ OrphanPost \/ OrphanWait
    BY <1>1, <1>2, <1>3, <1>4, <1>5, <1>6, <1>7, <1>8, <1>9, <1>10, <2>12, OrphanLeaseEffect,
       OrphanProbeEffect, OrphanPostEffect, OrphanWaitEffect DEF Only, Kept, Closed, Shutdown
  <2>13. CASE UninstallScan \/ UninstallProve \/ UninstallTask
    BY <1>1, <1>2, <1>3, <1>4, <1>5, <1>6, <1>7, <1>8, <1>9, <1>10, <2>13, UninstallScanEffect,
       UninstallProveEffect, GotoEffect DEF Only, Kept, Closed, UninstallTask
  <2>14. CASE UninstallRuntime
    BY <1>1, <1>2, <1>3, <1>4, <1>5, <1>6, <1>7, <1>8, <1>9, <1>10, <2>14, GotoEffect DEF Only,
       Kept, Closed, UninstallRuntime
  <2>15. CASE UninstallDefinition
    BY <1>1, <1>2, <1>3, <1>4, <1>5, <1>6, <1>7, <1>8, <1>9, <1>10, <2>15, GotoEffect DEF Only,
       Kept, Closed, UninstallDefinition
  <2>16. CASE UninstallCurrent
    BY <1>1, <1>2, <1>3, <1>4, <1>5, <1>6, <1>7, <1>8, <1>9, <1>10, <2>16, UninstallCurrentEffect
       DEF Only, Kept, Closed
  <2> QED BY <1>12, <2>1, <2>2, <2>3, <2>4, <2>5, <2>6, <2>7, <2>8, <2>9, <2>10, <2>11, <2>12,
             <2>13, <2>14, <2>15, <2>16 DEF Command
<1>13. ASSUME NEW n \in Pids, Runner(n) \/ RunnerFails(n) PROVE ReadyInv'
  BY <1>1, <1>2, <1>3, <1>4, <1>5, <1>6, <1>7, <1>8, <1>9, <1>13 DEF Runner, Launch, Retry,
     Killed, Preflight, WriteStarting, MarkReady, MarkStopping, MarkStopped, RunnerStep, Exit,
     RunnerFails
<1>14. ASSUME StatusPeek \/ StatusDrop \/ Logon \/ UserEditsTask \/ UserRemovesTask PROVE ReadyInv'
  BY <1>1, <1>2, <1>3, <1>4, <1>5, <1>6, <1>7, <1>8, <1>9, <1>14 DEF StatusPeek, StatusDrop,
     Logon, UserEditsTask, UserRemovesTask
<1>15. ASSUME NEW d \in 1..MaxDefs, UserRemovesDefinition(d) PROVE ReadyInv'
  BY <1>1, <1>2, <1>3, <1>4, <1>5, <1>6, <1>7, <1>8, <1>9, <1>15 DEF UserRemovesDefinition
<1>16. ASSUME UNCHANGED vars PROVE ReadyInv'
  BY <1>1, <1>2, <1>3, <1>4, <1>5, <1>6, <1>7, <1>8, <1>9, <1>16 DEF vars, disk
<1>17. ASSUME CommandCrash PROVE ReadyInv'
  BY <1>1, <1>2, <1>3, <1>4, <1>5, <1>6, <1>7, <1>8, <1>9, <1>17 DEF CommandCrash, Idle
<1> QED BY <1>11, <1>12, <1>13, <1>14, <1>15, <1>16, <1>17 DEF Next, Ops

\* No step counts past the bound.
LEMMA TallyStep ==
  ASSUME ServiceInv, [Next]_vars
  PROVE  TallyInv'
<1> USE DEF ServiceInv, TallyInv
<1>1. MaxFaults \in Nat
  BY ServiceAssumption
<1>2. ASSUME Refused PROVE TallyInv'
  BY <1>1, <1>2, RefusedEffect DEF Kept, Closed, Reasons
<1>3. ASSUME NEW op \in Ops, NEW set \in Settings \cup {0}, NEW nostart, Begin(op, set, nostart),
            op = "install" => set \in Settings
      PROVE  TallyInv'
  BY <1>1, <1>3, BeginEffect DEF Kept, Ops
<1>4. ASSUME Command PROVE TallyInv'
  <2>1. CASE Return \/ GuardCapture \/ InstallRegister \/ InstallPoint
    BY <1>1, <1>2, <2>1, GuardCaptureEffect, GotoEffect DEF Only, Kept, Closed, Return, Idle,
       InstallRegister, InstallPoint
  <2>2. CASE GuardVerify \/ InstallDefine \/ InstallClean \/ InstallReplace
    BY <1>1, <1>2, <2>2, GuardVerifyEffect, InstallDefineEffect, InstallCleanEffect,
       InstallReplaceEffect DEF Only, Kept, Closed
  <2>3. CASE InstallPost \/ InstallWait \/ Context
    BY <1>1, <1>2, <2>3, InstallPostEffect, InstallWaitEffect, ContextEffect DEF Only, Kept,
       Closed, Shutdown
  <2>4. CASE StartRead \/ StartProbe \/ StartTimeout \/ StartRun
    BY <1>1, <1>2, <2>4, StartReadEffect, StartProbeEffect, StartTimeoutEffect, StartRunEffect
       DEF Only, Kept, Closed
  <2>5. CASE StopRead \/ StopProbe \/ StopLease \/ StopPost
    BY <1>1, <1>2, <2>5, StopReadEffect, StopProbeEffect, StopLeaseEffect, StopPostEffect
       DEF Only, Kept, Closed, Shutdown
  <2>6. CASE StopGrace \/ StopForced
    BY <1>1, <1>2, <2>6, StopGraceEffect, StopWaitEffect, StopForcedEffect DEF Only, Kept, Closed
  <2>7. CASE StopFallback \/ StopKill \/ Stopped
    BY <1>1, <1>2, <2>7, StopFallbackEffect, StopKillEffect, StoppedEffect DEF Only, Kept, Closed
  <2>8. CASE OrphanLease \/ OrphanProbe \/ OrphanPost \/ OrphanWait
    BY <1>1, <1>2, <2>8, OrphanLeaseEffect, OrphanProbeEffect, OrphanPostEffect, OrphanWaitEffect
       DEF Only, Kept, Closed, Shutdown
  <2>9. CASE UninstallScan \/ UninstallProve \/ UninstallTask
    BY <1>1, <1>2, <2>9, UninstallScanEffect, UninstallProveEffect, GotoEffect DEF Only, Kept,
       Closed, UninstallTask
  <2>10. CASE UninstallRuntime \/ UninstallDefinition \/ UninstallCurrent
    BY <1>1, <1>2, <2>10, GotoEffect, UninstallCurrentEffect DEF Only, Kept, Closed,
       UninstallRuntime, UninstallDefinition
  <2> QED BY <1>4, <2>1, <2>2, <2>3, <2>4, <2>5, <2>6, <2>7, <2>8, <2>9, <2>10 DEF Command
<1>5. ASSUME NEW n \in Pids, Runner(n) \/ RunnerFails(n) PROVE TallyInv'
  <2>1. CASE Runner(n)
    BY <2>1 DEF Runner, Launch, Retry, Killed, Preflight, WriteStarting, MarkReady, MarkStopping,
       MarkStopped, RunnerStep, Exit
  <2>2. CASE RunnerFails(n)
    BY <2>2, ServiceAssumption, RunnerFailsEffect
  <2> QED BY <1>5, <2>1, <2>2
<1>6. ASSUME StatusPeek \/ StatusDrop \/ Logon \/ UserEditsTask \/ UserRemovesTask PROVE TallyInv'
  <2>1. CASE StatusDrop
    BY <2>1 DEF StatusDrop
  <2>2. CASE StatusPeek \/ Logon \/ UserEditsTask \/ UserRemovesTask
    <3>1. faults < MaxFaults /\ faults' = faults + 1 /\ life' = life
      BY <2>2 DEF StatusPeek, Logon, UserEditsTask, UserRemovesTask, Fault
    <3> QED BY <1>1, <3>1
  <2> QED BY <1>6, <2>1, <2>2
<1>7. ASSUME NEW d \in 1..MaxDefs, UserRemovesDefinition(d) PROVE TallyInv'
  BY <1>1, <1>7 DEF UserRemovesDefinition, Fault
<1>8. ASSUME UNCHANGED vars PROVE TallyInv'
  BY <1>1, <1>8 DEF vars, disk, Fault
<1>9. ASSUME CommandCrash PROVE TallyInv'
  BY <1>1, <1>9 DEF CommandCrash, Idle, Fault
<1> QED BY <1>3, <1>4, <1>5, <1>6, <1>7, <1>8, <1>9 DEF Next, Ops

-----------------------------------------------------------------------------
(* The theorems.                                                           *)

\* The invariant holds when nothing is installed.
LEMMA ServiceInvInit ==
  ASSUME Init
  PROVE  ServiceInv
<1> USE ServiceAssumption DEF Init
<1>1. Shape
  BY DEF Shape
<1>2. \A n \in Pids : /\ proc[n].st = "none" /\ proc[n].child = "none" /\ proc[n].cfg = 0
                      /\ proc[n].id = 0 /\ proc[n].tries = 0 /\ proc[n].stop = FALSE
  BY DEF Gone
<1>3. /\ ctl.pc = "idle" /\ ctl.op = "none" /\ ctl.out = "none" /\ ctl.ran = FALSE
      /\ ctl.seen = NoRt /\ ctl.ready = Quiet /\ ctl.mark = 0 /\ ctl.oldId = 0
  BY DEF Idle
<1>4. rt.cfg = 0 /\ Quiet.id = 0 /\ ~Registered
  BY DEF NoRt, Quiet, Registered, NoTask, Foreign
<1>5. DiskInv
  BY <1>2, <1>3, <1>4 DEF DiskInv
<1>6. ProcInv
  BY <1>2 DEF ProcInv, Live
<1>7. LeaseInv
  BY <1>2, <1>3 DEF LeaseInv, Live, RemovalPoints
<1>8. PhaseInv
  BY <1>3 DEF PhaseInv, InstallPoints, StartPoints, StopPoints, OrphanPoints, RemovalPoints
<1>9. IndexInv
  BY <1>3, <1>4 DEF IndexInv, TaskResolvable
<1>10. DocInv
  BY <1>3, NoRtDescribes DEF DocInv
<1>11. MarkInv /\ AimInv /\ ReadyInv /\ FreshInv /\ TallyInv
  BY <1>3, <1>4 DEF MarkInv, AimInv, ReadyInv, FreshInv, TallyInv
<1> QED BY <1>1, <1>5, <1>6, <1>7, <1>8, <1>9, <1>10, <1>11 DEF ServiceInv

\* The invariant holds of every reachable state.
LEMMA ServiceInductive == Spec => []ServiceInv
<1>1. Init => ServiceInv
  BY ServiceInvInit
<1>2. ServiceInv /\ [Next]_vars => ServiceInv'
  <2> SUFFICES ASSUME ServiceInv, [Next]_vars PROVE ServiceInv'
    OBVIOUS
  <2> QED BY ShapeStep, DiskStep, ProcStep, LeaseStep, PhaseStep, IndexStep, DocStep, MarkStep,
     AimStep, ReadyStep, FreshStep, TallyStep DEF ServiceInv
<1> QED BY <1>1, <1>2, PTL DEF Spec

\* Every document names a definition that was written, the lease has a holder
\* that exists, and no process or command leaves the states the code knows.
THEOREM ServiceTypeCorrect == Spec => []ServiceTypeOK
<1>1. ServiceInv => ServiceTypeOK
  <2> SUFFICES ASSUME ServiceInv PROVE ServiceTypeOK
    OBVIOUS
  <2> USE DEF ServiceInv
  <2>1. /\ made \in Seq([set : Settings, svc : 1..MaxDefs]) /\ Len(made) <= MaxDefs
        /\ defs \subseteq DOMAIN made /\ lost \subseteq DOMAIN made
        /\ cur \in {0} \cup DOMAIN made
        /\ task \in {NoTask, Foreign} \cup [kind : {"owned"}, cfg : DOMAIN made, drift : BOOLEAN]
        /\ rt.cfg \in {0} \cup DOMAIN made
    BY DEF DiskInv
  <2>2. rt.pid \in {0} \cup Pids /\ rt.inst <= ids
    BY DEF DocInv, Describes, ProcInv
  <2>3. /\ lease \in {Free, Ctl, Peek} \cup Pids /\ faults \in 0..MaxFaults
        /\ life \in {"missing", "active", "completed", "failed"}
    BY DEF LeaseInv, TallyInv
  <2>4. \A n \in Pids : /\ proc[n].child \in Live \cup {"none", "boot"}
                        /\ proc[n].st \in {"none", "queued", "run", "backoff"}
                        /\ proc[n].tries <= Retries /\ proc[n].id <= ids
    BY ServiceAssumption DEF ProcInv
  <2> QED BY <2>1, <2>2, <2>3, <2>4 DEF ServiceTypeOK
<1> QED BY <1>1, ServiceInductive, PTL

\* Without the command's lease a runner that is alive could be anywhere; while
\* the command holds it there is none.
LEMMA NoneLive ==
  ASSUME ServiceInv, ctl.pc \in {"stopped"} \cup RemovalPoints
  PROVE  \A n \in Pids : proc[n].child \notin Live
BY Holders DEF ServiceInv, LeaseInv

\* The service is removed only while it is quiet, and whatever step of an
\* install or an uninstall a command dies after, what the registration and the
\* pointer name can still be read.
THEOREM RemovalIsSafe == Spec => []RemovalSafe
<1>1. ServiceInv => RemovalSafe
  <2> SUFFICES ASSUME ServiceInv PROVE RemovalSafe
    OBVIOUS
  <2>1. TaskResolvable
    BY DEF ServiceInv, IndexInv
  <2>2. QuietRemoval
    BY NoneLive DEF QuietRemoval, RemovalPoints
  <2> QED BY <2>1, <2>2 DEF RemovalSafe
<1> QED BY <1>1, ServiceInductive, PTL

\* What a step drains, or makes the scheduler stop, is the process its command
\* aimed at.
LEMMA StopsStep ==
  ASSUME ServiceInv, [Next]_vars, NEW n \in Pids,
         \/ proc[n].child = "serving" /\ proc'[n].child = "draining"
         \/ ctl.pc = "p_kill" /\ ~proc[n].stop /\ proc'[n].stop /\ proc[n].st # "queued"
  PROVE  proc[n].cfg = IF ctl.op = "install" THEN ctl.old ELSE ctl.target
<1> USE DEF ServiceInv
<1>1. Turn(n)
  BY TurnsStep DEF Turns
<1>2. CASE proc[n].child = "serving" /\ proc'[n].child = "draining"
  <2>1. proc[n].id = ctl.oldId /\ ctl.pc \in {"i_post", "p_post", "o_post"}
    BY <1>1, <1>2, EndedFields DEF Turn, ChildTurn, Alike
  <2>2. proc[n].id # 0
    BY <1>2 DEF ProcInv, Live
  <2>3. CASE ctl.pc = "i_post"
    BY <2>1, <2>2, <2>3 DEF AimInv, NamedBy, PhaseInv, InstallPoints
  <2>4. CASE ctl.pc \in {"p_post", "o_post"}
    BY <2>1, <2>2, <2>4 DEF AimInv, NamedBy, PhaseInv, StopPoints, OrphanPoints
  <2> QED BY <2>1, <2>3, <2>4
<1>3. CASE ctl.pc = "p_kill" /\ ~proc[n].stop /\ proc'[n].stop /\ proc[n].st # "queued"
  <2>1. proc[n].st # "none" /\ ctl.tgt = n /\ ~ctl.obs
    BY <1>1, <1>3, EndedFields DEF Turn, Alike
  <2>2. ctl.op # "install"
    BY <1>3 DEF PhaseInv, StopPoints
  <2> QED BY <1>3, <2>1, <2>2 DEF AimInv
<1> QED BY <1>2, <1>3

\* A start names an instance of the configuration that was asked for, a restart
\* or a restore one that is newer than the command, a stop reaches only a runner
\* of the configuration it proved, and reports success only when none is alive.
THEOREM CommandsAreExact == Spec => CommandsExact
<1>1. ServiceInv => StartedIsExact
  BY DEF ServiceInv, ReadyInv, StartedIsExact, NamedBy
<1>2. ServiceInv /\ [Next]_vars =>
        [\A n \in Pids :
           \/ proc[n].child = "serving" /\ proc'[n].child = "draining"
           \/ ctl.pc = "p_kill" /\ ~proc[n].stop /\ proc'[n].stop /\ proc[n].st # "queued"
           => proc[n].cfg = IF ctl.op = "install" THEN ctl.old ELSE ctl.target]_vars
  BY StopsStep
<1>3. ServiceInv /\ [Next]_vars =>
        [ctl.pc = "stopped" /\ ctl.op = "stop" /\ ctl'.out = "ok" =>
           \A n \in Pids : proc[n].child \notin Live]_vars
  BY NoneLive
<1>4. Spec => StopsOnlyOwn
  BY <1>2, ServiceInductive, PTL DEF Spec, StopsOnlyOwn
<1>5. Spec => StoppedMeansQuiet
  BY <1>3, ServiceInductive, PTL DEF Spec, StoppedMeansQuiet
<1> QED BY <1>1, <1>4, <1>5, ServiceInductive, PTL DEF CommandsExact

-----------------------------------------------------------------------------
(* The registration.  What is registered carries the marker of one         *)
(* configuration at most; users can spoil it but not forge another.        *)

UnitLine == [key : {"Marker", "ExecStart", "Restart"}, value : Gens \cup {"edited", "no"}]
Registrations == [marker : Gens \cup {"edited"}, source : {"AIHelper", "edited"},
                  triggers : Seq({"logon", "edited"}), actions : Seq(Gens \cup {"edited"}),
                  settings : {"canonical", "edited"}]
Sights == {Missing, ForeignTask} \cup
          [kind : {"owned"}, marker : Gens,
           drift : SUBSET {"Marker", "ExecStart", "Restart", "enabled", "needs_daemon_reload", "marker",
                           "trigger_count", "trigger", "action_count", "action", "settings"}]
Operations == {"idle", "prepare", "install", "status", "stop", "uninstall", "delete"}
Points == {"idle", "read", "show", "decide", "define", "fill", "register", "reload", "enable", "point",
           "clean", "match", "stop", "disable", "drop", "forget", "metadata"}
Verdicts == {"none", "error", "changed", "not_installed", "installed", "configuration_drift", "gone",
             "stopped", "uninstalled"}
Commands == [op : Operations, pc : Points, gen : Gens \cup {NoGen}, text : Seq(UnitLine), seen : Sights,
             target : Nat, status : Verdicts]

RegistrationTypeOK ==
    /\ adapter \in {"systemd", "task_scheduler"}
    /\ definitions \in [Gens -> {"none", "partial", "whole"}] /\ current \in Gens \cup {NoGen}
    /\ unit \in Seq(UnitLine) /\ (unit # <<>> => unit[1].key = "Marker")
    /\ registration \in {NoRegistration} \cup Registrations
    /\ invocations \subseteq [id : Nat] /\ starts \in Nat
    /\ cmd \in Commands

\* The configuration the registration is marked with.
Marker == IF adapter = "systemd" THEN Value(unit, "Marker") ELSE registration.marker

\* The registration is marked with g or with no configuration at all.
OnlyMarker(g) == Marker \in Gens => Marker = g

\* What the running command has read of the registration, and what it may rely
\* on, whatever users do to it meanwhile.
CommandInv ==
    /\ cmd.pc = "show" => adapter = "systemd" /\ cmd.text # <<>> /\ OnlyMarker(Value(cmd.text, "Marker"))
    /\ cmd.pc \in {"decide", "define", "fill"} =>
         /\ cmd.seen.kind = "missing" => Marker \notin Gens
         /\ cmd.seen.kind = "owned" => OnlyMarker(cmd.seen.marker)
    /\ cmd.op = "install" =>
         /\ cmd.gen \in Gens
         /\ cmd.pc \notin {"define", "fill"} => definitions[cmd.gen] = "whole"
         /\ cmd.pc \in {"point", "clean"} => OnlyMarker(cmd.gen)
         /\ cmd.pc = "clean" => current = cmd.gen
    /\ cmd.op = "delete" /\ cmd.pc \in {"forget", "metadata"} => Marker \notin Gens

RegistrationInv ==
    /\ RegistrationTypeOK
    /\ CommandInv
    /\ Marker \in Gens => definitions[Marker] = "whole"
    /\ StopsOnlyNamed

\* The lines of a unit no user has appended to.
Whole(lines) ==
    \/ lines = <<>>
    \/ /\ Len(lines) = 3
       /\ lines[1].key = "Marker" /\ lines[2].key = "ExecStart" /\ lines[3].key = "Restart"

\* What a status nothing disturbed has seen is what is there.
StatusInv ==
    /\ Whole(unit) /\ Whole(loaded) /\ loaded \in Seq(UnitLine)
    /\ shadowed \in BOOLEAN /\ enabled \in BOOLEAN /\ disturbed \in BOOLEAN
    /\ cmd.op # "idle" => cmd.status = "none"
    /\ cmd.pc = "show" /\ ~disturbed => cmd.text = unit
    /\ cmd.op = "status" /\ cmd.pc = "decide" /\ ~disturbed /\ cmd.seen.kind = "owned" =>
         cmd.seen = IF adapter = "systemd" THEN inspectUnit(unit) ELSE inspectTask

-----------------------------------------------------------------------------
(* Lines.                                                                  *)

\* The value of a key is that of its first line.
LEMMA FirstValue ==
  ASSUME NEW S, NEW lines \in Seq(S), NEW k, NEW n \in 1 .. Len(lines),
         lines[n].key = k, \A j \in 1 .. (n - 1) : lines[j].key # k
  PROVE  Value(lines, k) = lines[n].value
<1>1. DOMAIN lines = 1 .. Len(lines) /\ Len(lines) \in Nat
  BY LenProperties
<1> DEFINE Leads(i) == lines[i].key = k /\ \A j \in 1 .. (i - 1) : lines[j].key # k
           c == CHOOSE i \in DOMAIN lines : Leads(i)
<1>2. \E i \in DOMAIN lines : Leads(i)
  BY <1>1
<1>3. c \in DOMAIN lines /\ Leads(c)
  BY <1>2
<1>4. c = n
  <2>1. c \in Nat /\ n \in Nat /\ c >= 1 /\ n >= 1
    BY <1>1, <1>3
  <2>2. ~(c < n)
    <3>1. c < n => c \in 1 .. (n - 1)
      BY <2>1
    <3> QED
      BY <1>3, <3>1
  <2>3. ~(n < c)
    <3>1. n < c => n \in 1 .. (c - 1)
      BY <2>1
    <3> QED
      BY <1>3, <3>1
  <2> QED
    BY <2>1, <2>2, <2>3
<1>5. \E i \in DOMAIN lines : lines[i].key = k
  BY <1>1
<1> QED
  BY <1>4, <1>5 DEF Value

LEMMA NoValue == ASSUME NEW k PROVE Value(<<>>, k) = "empty"
  BY DEF Value

\* The marker of a unit file is on its first line.
LEMMA MarkerLine ==
  ASSUME NEW lines \in Seq(UnitLine), lines # <<>>, lines[1].key = "Marker"
  PROVE  Value(lines, "Marker") = lines[1].value /\ 1 \in 1 .. Len(lines)
<1>1. Len(lines) \in Nat \ {0}
  BY EmptySeq
<1>2. 1 \in 1 .. Len(lines) /\ \A j \in 1 .. (1 - 1) : lines[j].key # "Marker"
  BY <1>1
<1> QED
  BY <1>2, FirstValue

LEMMA RenderFacts ==
  ASSUME NEW g \in Gens
  PROVE  /\ render(g) \in Seq(UnitLine) /\ render(g) # <<>> /\ render(g)[1].key = "Marker"
         /\ Value(render(g), "Marker") = g
<1>1. /\ render(g) \in Seq(UnitLine) /\ render(g) # <<>> /\ render(g)[1] = Line("Marker", g)
  BY DEF render, Line, UnitLine
<1>2. render(g)[1].key = "Marker" /\ render(g)[1].value = g
  BY <1>1 DEF Line
<1> QED
  BY <1>1, <1>2, MarkerLine

\* A registration that is not there is marked with nothing.
LEMMA Unmarked ==
  ASSUME RegistrationTypeOK, IF adapter = "systemd" THEN unit = <<>> ELSE registration = NoRegistration
  PROVE  Marker \notin Gens
  BY NoValue, GensAssumption DEF RegistrationTypeOK, Marker, NoRegistration, NoGen

-----------------------------------------------------------------------------
(* The steps.                                                              *)

LEMMA IdleCommand == NoCommand \in Commands
<1>1. <<>> \in Seq(UnitLine)
  BY EmptySeq
<1>2. Missing \in Sights
  BY DEF Sights
<1> QED
  BY <1>1, <1>2 DEF NoCommand, Commands, Operations, Points, Verdicts

LEMMA RegistrationInitInv == RegistrationInit => RegistrationInv
<1> SUFFICES ASSUME RegistrationInit PROVE RegistrationInv
  OBVIOUS
<1>1. cmd \in Commands /\ unit \in Seq(UnitLine)
  BY IdleCommand, EmptySeq DEF RegistrationInit
<1>2. RegistrationTypeOK
  BY <1>1 DEF RegistrationInit, RegistrationTypeOK
<1>3. Marker \notin Gens
  BY <1>2, Unmarked DEF RegistrationInit
<1> QED
  BY <1>2, <1>3 DEF RegistrationInit, RegistrationInv, CommandInv, NoCommand, StopsOnlyNamed

\* A command ends, well or not, or begins: it relies on nothing it has read.
LEMMA ResetInv ==
  ASSUME RegistrationInv, cmd' \in Commands, cmd'.pc \in {"idle", "read"}, cmd'.op \notin {"install", "delete"},
         UNCHANGED <<adapter, unit, registration, starts>>, invocations' \subseteq [id : Nat],
         definitions' \in [Gens -> {"none", "partial", "whole"}], current' \in Gens \cup {NoGen},
         Marker \in Gens => definitions'[Marker] = "whole",
         StopsOnlyNamed'
  PROVE  RegistrationInv'
<1>1. RegistrationTypeOK'
  BY DEF RegistrationInv, RegistrationTypeOK
<1>2. Marker' = Marker
  BY DEF Marker
<1>3. CommandInv'
  BY DEF CommandInv
<1> QED
  BY <1>1, <1>2, <1>3 DEF RegistrationInv

LEMMA IdleCommands ==
  ASSUME RegistrationInv
  PROVE  /\ \A s \in Verdicts : [NoCommand EXCEPT !.status = s] \in Commands
         /\ \A s \in Verdicts : [NoCommand EXCEPT !.status = s, !.gen = cmd.gen] \in Commands
         /\ \A o \in Operations, p \in Points : [NoCommand EXCEPT !.op = o, !.pc = p] \in Commands
<1>1. NoCommand \in Commands
  BY IdleCommand
<1>2. cmd.gen \in Gens \cup {NoGen}
  BY DEF RegistrationInv, RegistrationTypeOK, Commands
<1> QED
  BY <1>1, <1>2 DEF Commands

LEMMA BeginCommandInv == ASSUME RegistrationInv, BeginCommand PROVE RegistrationInv'
<1>0. UNCHANGED <<adapter, unit, registration, starts, invocations, definitions, current, stopped>>
  BY DEF BeginCommand, systemdVars
<1>1. cmd' \in Commands /\ cmd'.pc = "read" /\ cmd'.op \notin {"install", "delete"}
  <2>1. CASE \E o \in {"prepare", "status", "uninstall"} : cmd' = [NoCommand EXCEPT !.op = o, !.pc = "read"]
    <3>1. PICK o \in {"prepare", "status", "uninstall"} : cmd' = [NoCommand EXCEPT !.op = o, !.pc = "read"]
      BY <2>1
    <3>2. cmd' \in Commands
      BY <3>1, IdleCommands DEF Operations, Points
    <3> QED
      BY <3>1, <3>2 DEF NoCommand
  <2>2. CASE \E i \in invocations : current # NoGen /\ cmd' = [NoCommand EXCEPT !.op = "stop", !.pc = "read", !.gen = current, !.target = i.id]
    <3>1. PICK i \in invocations : cmd' = [NoCommand EXCEPT !.op = "stop", !.pc = "read", !.gen = current, !.target = i.id]
      BY <2>2
    <3>2. i.id \in Nat /\ current \in Gens \cup {NoGen}
      BY DEF RegistrationInv, RegistrationTypeOK
    <3>3. NoCommand \in Commands
      BY IdleCommand
    <3> QED
      BY <3>1, <3>2, <3>3 DEF Commands, Operations, Points
  <2> QED
    BY <2>1, <2>2 DEF BeginCommand
<1>2. StopsOnlyNamed'
  BY <1>0 DEF RegistrationInv, StopsOnlyNamed
<1> QED
  BY <1>0, <1>1, <1>2, ResetInv DEF RegistrationInv, RegistrationTypeOK

\* A command fails or ends and leaves everything as it is.
LEMMA EndInv ==
  ASSUME RegistrationInv, NEW s \in Verdicts,
         cmd' = [NoCommand EXCEPT !.status = s] \/ cmd' = [NoCommand EXCEPT !.status = s, !.gen = cmd.gen],
         UNCHANGED <<adapter, unit, registration, starts, invocations, definitions, current, stopped>>
  PROVE  RegistrationInv'
<1>1. cmd' \in Commands /\ cmd'.pc = "idle" /\ cmd'.op = "idle"
  BY IdleCommands DEF NoCommand
<1>2. StopsOnlyNamed'
  BY DEF RegistrationInv, StopsOnlyNamed
<1> QED
  BY <1>1, <1>2, ResetInv DEF RegistrationInv, RegistrationTypeOK

\* Moving on inside a command.
LEMMA ProceedType ==
  ASSUME RegistrationInv, NEW p \in Points
  PROVE  /\ [cmd EXCEPT !.pc = p] \in Commands
         /\ [cmd EXCEPT !.pc = p].pc = p /\ [cmd EXCEPT !.pc = p].op = cmd.op
         /\ [cmd EXCEPT !.pc = p].gen = cmd.gen /\ [cmd EXCEPT !.pc = p].seen = cmd.seen
         /\ [cmd EXCEPT !.pc = p].status = cmd.status /\ [cmd EXCEPT !.pc = p].text = cmd.text
  BY DEF RegistrationInv, RegistrationTypeOK, Commands

\* install_locked decides.
LEMMA PrepareInv == ASSUME RegistrationInv, InstallPrepare PROVE RegistrationInv'
<1>0. UNCHANGED <<adapter, unit, registration, starts, invocations, definitions, current, stopped>>
  BY DEF InstallPrepare, systemdVars, countVars
<1>1. CASE FailCommand
  BY <1>0, <1>1, EndInv DEF FailCommand, Verdicts
<1>2. CASE ~FailCommand
  <2> DEFINE existing == IF cmd.seen.kind = "owned" THEN cmd.seen.marker ELSE current
  <2>1. PICK g \in {existing} \cup {x \in Gens : definitions[x] = "none"} :
          g # NoGen /\ cmd' = [cmd EXCEPT !.op = "install", !.pc = "define", !.gen = g]
    BY <1>2 DEF InstallPrepare
  <2>2. existing \in Gens \cup {NoGen}
    BY DEF RegistrationInv, RegistrationTypeOK, Commands, Sights, Missing, ForeignTask
  <2>3. g \in Gens
    BY <2>1, <2>2
  <2>4. cmd' \in Commands /\ cmd'.op = "install" /\ cmd'.pc = "define" /\ cmd'.gen = g /\ cmd'.seen = cmd.seen
    BY <2>1, <2>3 DEF RegistrationInv, RegistrationTypeOK, Commands, Operations, Points
  <2>5. cmd.pc = "decide"
    BY DEF InstallPrepare, At
  <2>6. RegistrationTypeOK'
    BY <1>0, <2>4 DEF RegistrationInv, RegistrationTypeOK
  <2>7. Marker' = Marker
    BY <1>0 DEF Marker
  <2>8. CommandInv'
    BY <1>0, <2>3, <2>4, <2>5, <2>7 DEF RegistrationInv, CommandInv, OnlyMarker
  <2> QED
    BY <1>0, <2>6, <2>7, <2>8 DEF RegistrationInv, StopsOnlyNamed
<1> QED
  BY <1>1, <1>2

\* The definition is written before anything else is; a registration that is
\* kept is this configuration's.
LEMMA DefinitionInv == ASSUME RegistrationInv, write_immutable_definition PROVE RegistrationInv'
<1>0. UNCHANGED <<adapter, unit, registration, starts, invocations, current, stopped>> /\ cmd.op = "install"
  BY DEF write_immutable_definition, systemdVars, countVars, At
<1>m. Marker' = Marker
  BY <1>0 DEF Marker
<1>g. cmd.gen \in Gens /\ cmd.pc \in {"define", "fill"}
  BY <1>0 DEF RegistrationInv, CommandInv, write_immutable_definition, At
<1>1. CASE FailCommand /\ UNCHANGED definitions
  BY <1>0, <1>1, EndInv DEF FailCommand, Verdicts
<1>2. CASE definitions[cmd.gen] = "none" /\ definitions' = [definitions EXCEPT ![cmd.gen] = "partial"] /\ Proceed("fill")
  <2>1. /\ cmd' \in Commands /\ cmd'.op = "install" /\ cmd'.pc = "fill" /\ cmd'.gen = cmd.gen
        /\ cmd'.seen = cmd.seen
    BY <1>0, <1>2, ProceedType DEF Proceed, Points
  <2>2. RegistrationTypeOK'
    BY <1>0, <1>2, <2>1 DEF RegistrationInv, RegistrationTypeOK
  <2>3. Marker \in Gens => definitions'[Marker] = "whole"
    BY <1>2, <1>g DEF RegistrationInv, RegistrationTypeOK
  <2>4. CommandInv'
    BY <1>0, <1>g, <1>m, <2>1 DEF RegistrationInv, CommandInv, OnlyMarker
  <2> QED
    BY <1>0, <1>m, <2>2, <2>3, <2>4 DEF RegistrationInv, StopsOnlyNamed
<1>3. CASE /\ definitions'[cmd.gen] = "whole" /\ Proceed(Defined)
           /\ definitions' = definitions \/ definitions' = [definitions EXCEPT ![cmd.gen] = "whole"]
  <2>1. /\ cmd' \in Commands /\ cmd'.op = "install" /\ cmd'.pc \in {"point", "register"}
        /\ cmd'.gen = cmd.gen /\ (cmd'.pc = "point" => KeptLines)
    <3>1. Defined \in {"point", "register"} /\ (Defined = "point" => KeptLines) /\ Defined \in Points
      BY DEF Defined, Points
    <3> QED
      BY <1>0, <1>3, <3>1, ProceedType DEF Proceed
  <2>2. RegistrationTypeOK'
    BY <1>0, <1>3, <2>1 DEF RegistrationInv, RegistrationTypeOK
  <2>3. Marker \in Gens => definitions'[Marker] = "whole"
    BY <1>3, <1>g DEF RegistrationInv, RegistrationTypeOK
  <2>4. KeptLines => OnlyMarker(cmd.gen)
    BY <1>g DEF KeptLines, RegistrationInv, CommandInv
  <2>5. CommandInv'
    BY <1>3, <1>g, <1>m, <2>1, <2>4 DEF CommandInv, OnlyMarker
  <2> QED
    BY <1>0, <1>m, <2>2, <2>3, <2>5 DEF RegistrationInv, StopsOnlyNamed
<1>4. definitions \in [Gens -> {"none", "partial", "whole"}]
  BY DEF RegistrationInv, RegistrationTypeOK
<1> QED
  BY <1>1, <1>2, <1>3, <1>4, <1>g DEF write_immutable_definition, Resolvable

\* The registration is written for a configuration whose definition is whole.
LEMMA RegisterInv == ASSUME RegistrationInv, register PROVE RegistrationInv'
<1>0. /\ UNCHANGED <<adapter, definitions, current, starts, invocations, stopped>>
      /\ cmd.op = "install" /\ cmd.pc \in {"register", "reload", "enable"}
  BY DEF register, countVars, At
<1>1. PICK p \in {"reload", "enable", "read"} : cmd' = [cmd EXCEPT !.pc = p]
  BY DEF register, Proceed
<1>2. cmd' \in Commands /\ cmd'.op = "install" /\ cmd'.pc = p /\ cmd'.gen = cmd.gen
  BY <1>0, <1>1, ProceedType DEF Points
<1>3. cmd.gen \in Gens /\ definitions[cmd.gen] = "whole"
  BY <1>0 DEF RegistrationInv, CommandInv
<1>4. CommandInv'
  BY <1>0, <1>1, <1>2, <1>3 DEF CommandInv
<1>5. populate_definition(cmd.gen) \in Registrations /\ populate_definition(cmd.gen).marker = cmd.gen
  BY <1>3 DEF populate_definition, Registrations
<1>6. CASE UNCHANGED <<unit, registration>>
  <2>1. RegistrationTypeOK'
    BY <1>0, <1>2, <1>6 DEF RegistrationInv, RegistrationTypeOK
  <2>2. Marker' = Marker
    BY <1>0, <1>6 DEF Marker
  <2> QED
    BY <1>0, <1>4, <2>1, <2>2 DEF RegistrationInv, StopsOnlyNamed
<1>7. CASE unit' = render(cmd.gen) /\ adapter = "systemd" /\ UNCHANGED registration
  <2>1. RegistrationTypeOK'
    BY <1>0, <1>2, <1>3, <1>7, RenderFacts DEF RegistrationInv, RegistrationTypeOK
  <2>2. Marker' = cmd.gen
    BY <1>0, <1>3, <1>7, RenderFacts DEF Marker
  <2> QED
    BY <1>0, <1>3, <1>4, <2>1, <2>2 DEF RegistrationInv, StopsOnlyNamed
<1>8. CASE registration' = populate_definition(cmd.gen) /\ adapter = "task_scheduler" /\ UNCHANGED unit
  <2>1. RegistrationTypeOK'
    BY <1>0, <1>2, <1>5, <1>8 DEF RegistrationInv, RegistrationTypeOK
  <2>2. Marker' = cmd.gen
    BY <1>0, <1>5, <1>8 DEF Marker
  <2> QED
    BY <1>0, <1>3, <1>4, <2>1, <2>2 DEF RegistrationInv, StopsOnlyNamed
<1> QED
  BY <1>6, <1>7, <1>8 DEF register, systemdVars

\* What an observation says.
LEMMA SightFacts ==
  ASSUME RegistrationInv
  PROVE  /\ \A t \in Seq(UnitLine) : /\ inspectUnit(t) \in Sights
                                     /\ inspectUnit(t).kind \in {"foreign", "owned"}
                                     /\ inspectUnit(t).kind = "owned" => inspectUnit(t).marker = Value(t, "Marker")
         /\ inspectTask \in Sights
         /\ inspectTask.kind = "missing" => registration = NoRegistration
         /\ inspectTask.kind = "owned" => inspectTask.marker = registration.marker
<1>1. ASSUME NEW t \in Seq(UnitLine)
      PROVE  /\ inspectUnit(t) \in Sights
             /\ inspectUnit(t).kind \in {"foreign", "owned"}
             /\ inspectUnit(t).kind = "owned" => inspectUnit(t).marker = Value(t, "Marker")
  BY DEF inspectUnit, Sights, ForeignTask, Owned, unitDrift
<1>2. /\ inspectTask \in Sights
      /\ inspectTask.kind = "missing" => registration = NoRegistration
      /\ inspectTask.kind = "owned" => inspectTask.marker = registration.marker
  BY DEF inspectTask, Sights, ForeignTask, Owned, Missing, taskDrift, actionDrift, settingsDrift
<1> QED
  BY <1>1, <1>2

\* The registration is read; a marker read is the only one there can be.
LEMMA InspectInv == ASSUME RegistrationInv, inspect PROVE RegistrationInv'
<1>0. UNCHANGED <<adapter, unit, registration, definitions, current, starts, invocations, stopped>>
  BY DEF inspect, systemdVars, countVars
<1>m. Marker' = Marker
  BY <1>0 DEF Marker
<1>c. cmd \in Commands /\ unit \in Seq(UnitLine) /\ cmd.text \in Seq(UnitLine)
  BY DEF RegistrationInv, RegistrationTypeOK, Commands
<1>1. CASE cmd.pc = "read" /\ adapter = "systemd" /\ unit = <<>> /\ cmd' = [cmd EXCEPT !.seen = Missing, !.pc = "decide"]
  <2>1. /\ cmd' \in Commands /\ cmd'.pc = "decide" /\ cmd'.seen = Missing /\ cmd'.op = cmd.op /\ cmd'.gen = cmd.gen
    BY <1>1, <1>c DEF Commands, Points, Sights
  <2>2. Marker \notin Gens
    BY <1>1, Unmarked DEF RegistrationInv
  <2>3. CommandInv'
    BY <1>0, <1>1, <1>m, <2>1, <2>2 DEF RegistrationInv, CommandInv, OnlyMarker, Missing
  <2> QED
    BY <1>0, <1>m, <2>1, <2>3 DEF RegistrationInv, RegistrationTypeOK, StopsOnlyNamed
<1>2. CASE cmd.pc = "read" /\ adapter = "systemd" /\ unit # <<>> /\ cmd' = [cmd EXCEPT !.text = unit, !.pc = "show"]
  <2>1. /\ cmd' \in Commands /\ cmd'.pc = "show" /\ cmd'.text = unit /\ cmd'.op = cmd.op /\ cmd'.gen = cmd.gen
    BY <1>2, <1>c DEF Commands, Points
  <2>2. CommandInv'
    BY <1>0, <1>2, <1>m, <2>1 DEF RegistrationInv, CommandInv, OnlyMarker, Marker
  <2> QED
    BY <1>0, <1>m, <2>1, <2>2 DEF RegistrationInv, RegistrationTypeOK, StopsOnlyNamed
<1>3. CASE cmd.pc = "show" /\ cmd' = [cmd EXCEPT !.seen = inspectUnit(cmd.text), !.pc = "decide"]
  <2>1. inspectUnit(cmd.text) \in Sights
    BY <1>c, SightFacts
  <2>2. /\ cmd' \in Commands /\ cmd'.pc = "decide" /\ cmd'.seen = inspectUnit(cmd.text) /\ cmd'.op = cmd.op
        /\ cmd'.gen = cmd.gen
    BY <1>3, <1>c, <2>1 DEF Commands, Points
  <2>3. /\ cmd'.seen.kind # "missing"
        /\ cmd'.seen.kind = "owned" => OnlyMarker(cmd'.seen.marker)
    BY <1>3, <1>c, <2>2, SightFacts DEF RegistrationInv, CommandInv
  <2>4. CommandInv'
    BY <1>0, <1>3, <1>m, <2>2, <2>3 DEF RegistrationInv, CommandInv, OnlyMarker
  <2> QED
    BY <1>0, <1>m, <2>2, <2>4 DEF RegistrationInv, RegistrationTypeOK, StopsOnlyNamed
<1>4. CASE cmd.pc = "read" /\ adapter = "task_scheduler" /\ cmd' = [cmd EXCEPT !.seen = inspectTask, !.pc = "decide"]
  <2>1. /\ cmd' \in Commands /\ cmd'.pc = "decide" /\ cmd'.seen = inspectTask /\ cmd'.op = cmd.op
        /\ cmd'.gen = cmd.gen
    BY <1>4, <1>c, SightFacts DEF Commands, Points
  <2>2. /\ cmd'.seen.kind = "missing" => Marker \notin Gens
        /\ cmd'.seen.kind = "owned" => OnlyMarker(cmd'.seen.marker)
    <3>1. Marker = registration.marker
      BY <1>4 DEF Marker
    <3>2. registration = NoRegistration => Marker \notin Gens
      BY <1>4, Unmarked DEF RegistrationInv
    <3> QED
      BY <2>1, <3>1, <3>2, SightFacts DEF OnlyMarker
  <2>3. CommandInv'
    BY <1>0, <1>4, <1>m, <2>1, <2>2 DEF RegistrationInv, CommandInv, OnlyMarker
  <2> QED
    BY <1>0, <1>m, <2>1, <2>3 DEF RegistrationInv, RegistrationTypeOK, StopsOnlyNamed
<1> QED
  BY <1>1, <1>2, <1>3, <1>4 DEF inspect

\* The end of an installation: the pointer, and the other definitions go.
LEMMA PointInv == ASSUME RegistrationInv, RegisterPoint PROVE RegistrationInv'
<1>0. /\ UNCHANGED <<adapter, unit, registration, starts, invocations, stopped>>
      /\ cmd.op = "install" /\ cmd.gen \in Gens
  BY DEF RegisterPoint, systemdVars, countVars, At, RegistrationInv, CommandInv
<1>m. Marker' = Marker
  BY <1>0 DEF Marker
<1>1. CASE FailCommand /\ UNCHANGED <<definitions, current>>
  BY <1>0, <1>1, EndInv DEF FailCommand, Verdicts
<1>2. CASE /\ cmd.pc = "decide" /\ cmd.seen.kind = "owned" /\ cmd.seen.marker = cmd.gen
           /\ Proceed("point") /\ UNCHANGED <<definitions, current>>
  <2>1. cmd' \in Commands /\ cmd'.op = "install" /\ cmd'.pc = "point" /\ cmd'.gen = cmd.gen
    BY <1>0, <1>2, ProceedType DEF Proceed, Points
  <2>2. CommandInv'
    BY <1>0, <1>2, <1>m, <2>1 DEF RegistrationInv, CommandInv, OnlyMarker
  <2> QED
    BY <1>0, <1>2, <1>m, <2>1, <2>2 DEF RegistrationInv, RegistrationTypeOK, StopsOnlyNamed
<1>3. CASE cmd.pc = "point" /\ current' = cmd.gen /\ Proceed("clean") /\ UNCHANGED definitions
  <2>1. cmd' \in Commands /\ cmd'.op = "install" /\ cmd'.pc = "clean" /\ cmd'.gen = cmd.gen
    BY <1>0, <1>3, ProceedType DEF Proceed, Points
  <2>2. CommandInv'
    BY <1>0, <1>3, <1>m, <2>1 DEF RegistrationInv, CommandInv, OnlyMarker
  <2> QED
    BY <1>0, <1>3, <1>m, <2>1, <2>2 DEF RegistrationInv, RegistrationTypeOK, StopsOnlyNamed
<1>4. CASE /\ cmd.pc = "clean" /\ EndCommand("changed") /\ UNCHANGED current
           /\ definitions' = [g \in Gens |-> IF g # current /\ Resolvable(g) THEN "none" ELSE definitions[g]]
  <2>1. cmd' \in Commands /\ cmd'.pc = "idle" /\ cmd'.op = "idle"
    <3>1. cmd' \in Commands
      BY <1>4, IdleCommands DEF EndCommand, Verdicts
    <3> QED
      BY <1>4, <3>1 DEF EndCommand, NoCommand
  <2>2. definitions' \in [Gens -> {"none", "partial", "whole"}] /\ current' \in Gens \cup {NoGen}
    BY <1>4 DEF RegistrationInv, RegistrationTypeOK
  <2>3. Marker \in Gens => definitions'[Marker] = "whole"
    <3>1. Marker \in Gens => Marker = current /\ definitions[Marker] = "whole"
      BY <1>0, <1>4 DEF RegistrationInv, CommandInv, OnlyMarker
    <3> QED
      BY <1>4, <3>1
  <2>4. StopsOnlyNamed'
    BY <1>0 DEF RegistrationInv, StopsOnlyNamed
  <2> QED
    BY <1>0, <2>1, <2>2, <2>3, <2>4, ResetInv DEF RegistrationInv, RegistrationTypeOK
<1> QED
  BY <1>0, <1>1, <1>2, <1>3, <1>4 DEF RegisterPoint, At

\* A status answers; it changes nothing.
LEMMA StatusAnswerInv == ASSUME RegistrationInv, status_snapshot PROVE RegistrationInv'
<1>0. UNCHANGED <<adapter, unit, registration, definitions, current, starts, invocations, stopped>>
  BY DEF status_snapshot, systemdVars, countVars
<1>1. CASE \E s \in Verdicts : EndCommand(s)
  BY <1>0, <1>1, EndInv DEF EndCommand
<1>2. CASE cmd.seen.kind = "owned" /\ cmd' = [NoCommand EXCEPT !.status = "installed", !.gen = cmd.seen.marker]
  <2>1. cmd.seen.marker \in Gens
    BY <1>2 DEF RegistrationInv, RegistrationTypeOK, Commands, Sights, Missing, ForeignTask
  <2>2. cmd' \in Commands
    BY <1>2, <2>1, IdleCommand DEF Commands, Verdicts
  <2>3. cmd'.op = "idle" /\ cmd'.pc = "idle"
    BY <1>2 DEF NoCommand
  <2>4. StopsOnlyNamed'
    BY <1>0 DEF RegistrationInv, StopsOnlyNamed
  <2> QED
    BY <1>0, <2>2, <2>3, <2>4, ResetInv DEF RegistrationInv, RegistrationTypeOK
<1>3. "not_installed" \in Verdicts /\ "configuration_drift" \in Verdicts
  BY DEF Verdicts
<1> QED
  BY <1>1, <1>2, <1>3 DEF status_snapshot

\* A stop hits the instance it names on Windows.
LEMMA StopInv == ASSUME RegistrationInv, stop_instance PROVE RegistrationInv'
<1>0. UNCHANGED <<adapter, unit, registration, definitions, current, starts>> /\ cmd.op = "stop"
  BY DEF stop_instance, systemdVars, countVars, At
<1>1. CASE (\E s \in Verdicts : EndCommand(s)) \/ FailCommand
  <2>1. cmd' \in Commands
    BY <1>1, IdleCommands DEF EndCommand, FailCommand, Verdicts
  <2>2. cmd'.op = "idle" /\ cmd'.pc = "idle"
    BY <1>1 DEF EndCommand, FailCommand, NoCommand
  <2>3. StopsOnlyNamed' /\ invocations' \subseteq [id : Nat]
    <3>1. CASE UNCHANGED <<invocations, stopped>>
      BY <1>0, <3>1 DEF RegistrationInv, RegistrationTypeOK, StopsOnlyNamed
    <3>2. CASE LET hit == IF adapter = "systemd" THEN invocations ELSE Targeted
               IN  /\ invocations' = invocations \ hit
                   /\ stopped' = [asked |-> {cmd.target}, hit |-> {i.id : i \in hit}]
      BY <1>0, <3>2 DEF RegistrationInv, RegistrationTypeOK, StopsOnlyNamed, Targeted
    <3> QED
      BY <3>1, <3>2 DEF stop_instance
  <2> QED
    BY <1>0, <2>1, <2>2, <2>3, ResetInv DEF RegistrationInv, RegistrationTypeOK
<1>2. CASE (\E p \in {"match", "stop"} : Proceed(p)) /\ UNCHANGED <<invocations, stopped>>
  <2>1. PICK p \in {"match", "stop"} : cmd' = [cmd EXCEPT !.pc = p]
    BY <1>2 DEF Proceed
  <2>2. cmd' \in Commands /\ cmd'.op = "stop" /\ cmd'.pc = p
    BY <1>0, <2>1, ProceedType DEF Points
  <2>3. Marker' = Marker /\ CommandInv'
    BY <1>0, <2>1, <2>2 DEF Marker, CommandInv
  <2> QED
    BY <1>0, <1>2, <2>2, <2>3 DEF RegistrationInv, RegistrationTypeOK, StopsOnlyNamed
<1>3. "gone" \in Verdicts /\ "stopped" \in Verdicts
  BY DEF Verdicts
<1> QED
  BY <1>1, <1>2, <1>3 DEF stop_instance

LEMMA UninstallInv == ASSUME RegistrationInv, UninstallDecide PROVE RegistrationInv'
<1>0. /\ UNCHANGED <<adapter, unit, registration, definitions, current, starts, invocations, stopped>>
      /\ cmd.pc = "decide"
  BY DEF UninstallDecide, systemdVars, countVars, At
<1>m. Marker' = Marker
  BY <1>0 DEF Marker
<1>1. CASE FailCommand
  BY <1>0, <1>1, EndInv DEF FailCommand, Verdicts
<1>2. CASE cmd.seen.kind = "missing" /\ cmd' = [cmd EXCEPT !.op = "delete", !.pc = "metadata", !.gen = current]
  <2>1. cmd' \in Commands /\ cmd'.op = "delete" /\ cmd'.pc = "metadata"
    BY <1>2 DEF RegistrationInv, RegistrationTypeOK, Commands, Operations, Points
  <2>2. CommandInv'
    BY <1>0, <1>2, <1>m, <2>1 DEF RegistrationInv, CommandInv
  <2> QED
    BY <1>0, <1>m, <2>1, <2>2 DEF RegistrationInv, RegistrationTypeOK, StopsOnlyNamed
<1>3. CASE cmd.seen.kind = "owned" /\ cmd' = [cmd EXCEPT !.op = "delete", !.pc = "read", !.gen = cmd.seen.marker]
  <2>1. cmd.seen.marker \in Gens
    BY <1>3 DEF RegistrationInv, RegistrationTypeOK, Commands, Sights, Missing, ForeignTask
  <2>2. cmd' \in Commands /\ cmd'.op = "delete" /\ cmd'.pc = "read"
    BY <1>3, <2>1 DEF RegistrationInv, RegistrationTypeOK, Commands, Operations, Points
  <2>3. CommandInv'
    BY <2>2 DEF CommandInv
  <2> QED
    BY <1>0, <1>m, <2>2, <2>3 DEF RegistrationInv, RegistrationTypeOK, StopsOnlyNamed
<1> QED
  BY <1>1, <1>2, <1>3 DEF UninstallDecide

\* The registration goes first and the metadata last.
LEMMA DeleteInv == ASSUME RegistrationInv, delete_owned PROVE RegistrationInv'
<1>0. UNCHANGED <<adapter, starts, stopped>> /\ cmd.op = "delete"
  BY DEF delete_owned, countVars, At
<1>1. CASE FailCommand /\ UNCHANGED <<definitions, current, systemdVars, registration, invocations>>
  BY <1>0, <1>1, EndInv DEF FailCommand, Verdicts, systemdVars
<1>2. CASE /\ cmd.pc = "metadata" /\ EndCommand("uninstalled") /\ current' = NoGen
           /\ UNCHANGED <<systemdVars, registration, invocations>>
           /\ definitions' = [g \in Gens |-> IF g \in {cmd.gen, current} \/ Resolvable(g) THEN "none"
                                             ELSE definitions[g]]
  <2>1. cmd' \in Commands
    BY <1>2, IdleCommands DEF EndCommand, Verdicts
  <2>2. cmd'.op = "idle" /\ cmd'.pc = "idle"
    BY <1>2 DEF EndCommand, NoCommand
  <2>3. definitions' \in [Gens -> {"none", "partial", "whole"}] /\ current' \in Gens \cup {NoGen}
    BY <1>2 DEF RegistrationInv, RegistrationTypeOK
  <2>4. Marker \notin Gens
    BY <1>0, <1>2 DEF RegistrationInv, CommandInv
  <2>5. StopsOnlyNamed'
    BY <1>0 DEF RegistrationInv, StopsOnlyNamed
  <2> QED
    BY <1>0, <1>2, <2>1, <2>2, <2>3, <2>4, <2>5, ResetInv DEF RegistrationInv, RegistrationTypeOK, systemdVars
<1>3. ASSUME NEW p \in {"metadata", "disable", "drop", "forget"}, Proceed(p), UNCHANGED <<definitions, current>>,
             invocations' \subseteq [id : Nat],
             \/ UNCHANGED <<unit, registration>> /\ (p \in {"metadata", "forget"} => Marker \notin Gens)
             \/ unit' = <<>> /\ UNCHANGED registration /\ adapter = "systemd"
             \/ registration' = NoRegistration /\ UNCHANGED unit /\ adapter = "task_scheduler"
      PROVE  RegistrationInv'
  <2>1. cmd' \in Commands /\ cmd'.op = "delete" /\ cmd'.pc = p
    BY <1>0, <1>3, ProceedType DEF Proceed, Points
  <2>2. RegistrationTypeOK'
    <3>1. unit' \in Seq(UnitLine) /\ (unit' # <<>> => unit'[1].key = "Marker")
      BY <1>3, EmptySeq DEF RegistrationInv, RegistrationTypeOK
    <3> QED
      BY <1>0, <1>3, <2>1, <3>1 DEF RegistrationInv, RegistrationTypeOK
  <2>3. /\ Marker' = Marker \/ Marker' \notin Gens
        /\ p \in {"metadata", "forget"} => Marker' \notin Gens
    <3>1. CASE UNCHANGED <<unit, registration>>
      BY <1>0, <1>3, <3>1, NoValue, GensAssumption DEF Marker, NoRegistration
    <3>2. CASE unit' = <<>> /\ adapter = "systemd"
      BY <1>0, <3>2, NoValue, GensAssumption DEF Marker
    <3>3. CASE registration' = NoRegistration /\ adapter = "task_scheduler"
      BY <1>0, <3>3, GensAssumption DEF Marker, NoRegistration
    <3> QED
      BY <1>3, <3>1, <3>2, <3>3
  <2>4. CommandInv'
    BY <1>3, <2>1, <2>3 DEF CommandInv
  <2> QED
    BY <1>0, <1>3, <2>2, <2>3, <2>4 DEF RegistrationInv, StopsOnlyNamed
<1>4. invocations \subseteq [id : Nat] /\ {} \subseteq [id : Nat]
  BY DEF RegistrationInv, RegistrationTypeOK
<1>5. CASE At("delete", "decide")
  <2>1. cmd.seen.kind = "missing" => Marker \notin Gens
    BY <1>5 DEF RegistrationInv, CommandInv, At
  <2> QED
    BY <1>1, <1>3, <1>4, <1>5, <2>1 DEF delete_owned, systemdVars, At
<1>6. CASE At("delete", "disable")
  BY <1>3, <1>4, <1>6 DEF delete_owned, At
<1>7. CASE At("delete", "drop")
  BY <1>3, <1>4, <1>7 DEF delete_owned, systemdVars, At
<1>8. CASE At("delete", "forget")
  <2>1. Marker \notin Gens
    BY <1>8 DEF RegistrationInv, CommandInv, At
  <2> QED
    BY <1>3, <1>4, <1>8, <2>1 DEF delete_owned, At
<1> QED
  BY <1>2, <1>5, <1>6, <1>7, <1>8 DEF delete_owned, At

\* What users do spoils a marker or removes it, and touches no command.
LEMMA UserInv ==
  ASSUME RegistrationInv,
         UNCHANGED <<adapter, definitions, current, invocations, cmd, starts, stopped>>,
         unit' \in Seq(UnitLine), unit' # <<>> => unit'[1].key = "Marker",
         registration' \in {NoRegistration} \cup Registrations,
         Marker' = Marker \/ Marker' \notin Gens
  PROVE  RegistrationInv'
<1>1. RegistrationTypeOK'
  BY DEF RegistrationInv, RegistrationTypeOK
<1>2. CommandInv'
  BY DEF RegistrationInv, CommandInv, OnlyMarker
<1> QED
  BY <1>1, <1>2 DEF RegistrationInv, StopsOnlyNamed

\* One line changed.
LEMMA ChangeFacts ==
  ASSUME NEW lines \in Seq(UnitLine), NEW i \in DOMAIN lines
  PROVE  /\ Change(lines, i, "edited") \in Seq(UnitLine)
         /\ Len(Change(lines, i, "edited")) = Len(lines)
         /\ \A j \in 1 .. Len(lines) :
              /\ Change(lines, i, "edited")[j].key = lines[j].key
              /\ Change(lines, i, "edited")[j].value = IF j = i THEN "edited" ELSE lines[j].value
<1>1. DOMAIN lines = 1 .. Len(lines) /\ Len(lines) \in Nat /\ i \in 1 .. Len(lines)
  BY LenProperties
<1> DEFINE e == [lines[i] EXCEPT !.value = "edited"]
<1>2. lines[i] \in UnitLine
  BY <1>1, ElementOfSeq
<1>3. e \in UnitLine /\ e.key = lines[i].key /\ e.value = "edited"
  BY <1>2 DEF UnitLine
<1>4. Change(lines, i, "edited") = [lines EXCEPT ![i] = e]
  BY DEF Change
<1> HIDE DEF e
<1>5. /\ [lines EXCEPT ![i] = e] \in Seq(UnitLine) /\ Len([lines EXCEPT ![i] = e]) = Len(lines)
      /\ \A j \in 1 .. Len(lines) : [lines EXCEPT ![i] = e][j] = IF j = i THEN e ELSE lines[j]
  BY <1>1, <1>3, ExceptSeq
<1> QED
  BY <1>3, <1>4, <1>5

LEMMA UserUnitInv == ASSUME RegistrationInv, UserEditsUnit PROVE RegistrationInv'
<1>0. UNCHANGED <<adapter, definitions, current, registration, invocations, cmd, starts, stopped>> /\ adapter = "systemd"
  BY DEF UserEditsUnit
<1>u. unit \in Seq(UnitLine) /\ (unit # <<>> => unit[1].key = "Marker") /\ Marker = Value(unit, "Marker")
  BY <1>0 DEF RegistrationInv, RegistrationTypeOK, Marker
<1>r. registration' \in {NoRegistration} \cup Registrations
  BY <1>0 DEF RegistrationInv, RegistrationTypeOK
<1>1. CASE UNCHANGED unit
  BY <1>0, <1>1, <1>u, <1>r, UserInv DEF Marker
<1>2. ASSUME NEW i \in DOMAIN unit, unit' = Change(unit, i, "edited") PROVE RegistrationInv'
  <2>1. unit # <<>>
    BY <1>2
  <2>2. 1 \in 1 .. Len(unit) /\ Marker = unit[1].value
    BY <1>u, <2>1, MarkerLine
  <2>3. unit' \in Seq(UnitLine) /\ Len(unit') = Len(unit) /\ unit'[1].key = "Marker"
    BY <1>2, <1>u, <2>1, <2>2, ChangeFacts
  <2>4. unit' # <<>>
    BY <2>2, <2>3
  <2>5. Marker' = unit'[1].value
    BY <1>0, <2>3, <2>4, MarkerLine DEF Marker
  <2>6. unit'[1].value = unit[1].value \/ unit'[1].value = "edited"
    BY <1>2, <1>u, <2>2, ChangeFacts
  <2>7. Marker' = Marker \/ Marker' \notin Gens
    BY <2>2, <2>5, <2>6, GensAssumption
  <2> QED
    BY <1>0, <1>r, <2>3, <2>7, UserInv
<1>3. ASSUME NEW k \in {"ExecStart", "Restart"}, unit # <<>>, unit' = Append(unit, Line(k, "edited")) PROVE RegistrationInv'
  <2>1. Line(k, "edited") \in UnitLine
    BY DEF Line, UnitLine
  <2>2. 1 \in 1 .. Len(unit) /\ Marker = unit[1].value
    BY <1>3, <1>u, MarkerLine
  <2>3. unit' \in Seq(UnitLine) /\ Len(unit') = Len(unit) + 1 /\ unit'[1] = unit[1]
    BY <1>3, <1>u, <2>1, <2>2, AppendProperties
  <2>4. unit' # <<>>
    BY <1>u, <2>2, <2>3
  <2>5. Marker' = Marker
    BY <1>0, <1>3, <1>u, <2>2, <2>3, <2>4, MarkerLine DEF Marker
  <2> QED
    BY <1>0, <1>3, <1>u, <1>r, <2>3, <2>5, UserInv
<1> QED
  BY <1>1, <1>2, <1>3 DEF UserEditsUnit

LEMMA UserRegistrationInv == ASSUME RegistrationInv, UserEditsRegistration PROVE RegistrationInv'
<1>0. /\ UNCHANGED <<adapter, definitions, current, unit, invocations, cmd, starts, stopped>>
      /\ adapter = "task_scheduler" /\ registration \in Registrations
  BY DEF UserEditsRegistration, systemdVars, RegistrationInv, RegistrationTypeOK
<1>u. unit' \in Seq(UnitLine) /\ (unit' # <<>> => unit'[1].key = "Marker")
  BY <1>0 DEF RegistrationInv, RegistrationTypeOK
<1>1. registration' \in {NoRegistration} \cup Registrations
  <2>1. CASE \E f \in {"marker", "source", "settings"} : registration' = [registration EXCEPT ![f] = "edited"]
    BY <1>0, <2>1 DEF Registrations
  <2>2. ASSUME NEW f \in {"triggers", "actions"}, registration' = [registration EXCEPT ![f] = Append(@, "edited")]
        PROVE registration' \in Registrations
    <3>1. /\ Append(registration.triggers, "edited") \in Seq({"logon", "edited"})
          /\ Append(registration.actions, "edited") \in Seq(Gens \cup {"edited"})
      BY <1>0, AppendProperties DEF Registrations
    <3> QED
      BY <1>0, <2>2, <3>1 DEF Registrations
  <2>3. ASSUME NEW f \in {"triggers", "actions"}, registration' = [registration EXCEPT ![f] = <<"edited">>]
        PROVE registration' \in Registrations
    <3>1. <<"edited">> \in Seq({"logon", "edited"}) /\ <<"edited">> \in Seq(Gens \cup {"edited"})
      OBVIOUS
    <3> QED
      BY <1>0, <2>3, <3>1 DEF Registrations
  <2> QED
    BY <2>1, <2>2, <2>3 DEF UserEditsRegistration
<1>2. registration'.marker = registration.marker \/ registration'.marker \notin Gens
  BY <1>0, GensAssumption DEF UserEditsRegistration, Registrations, NoRegistration
<1>3. Marker' = Marker \/ Marker' \notin Gens
  BY <1>0, <1>2 DEF Marker
<1> QED
  BY <1>0, <1>1, <1>3, <1>u, UserInv

LEMMA InvocationInv == ASSUME RegistrationInv, Starts \/ InvocationEnds PROVE RegistrationInv'
<1>0. UNCHANGED <<adapter, definitions, current, unit, registration, cmd, stopped>>
  BY DEF Starts, InvocationEnds, systemdVars
<1>1. starts' \in Nat /\ invocations' \subseteq [id : Nat]
  <2>1. CASE Starts
    BY <2>1 DEF Starts, RegistrationInv, RegistrationTypeOK
  <2>2. CASE InvocationEnds
    BY <2>2 DEF InvocationEnds, countVars, RegistrationInv, RegistrationTypeOK
  <2> QED
    BY <2>1, <2>2
<1>2. Marker' = Marker
  BY <1>0 DEF Marker
<1>3. CommandInv' /\ RegistrationTypeOK'
  BY <1>0, <1>1, <1>2 DEF RegistrationInv, RegistrationTypeOK, CommandInv, OnlyMarker
<1> QED
  BY <1>0, <1>2, <1>3 DEF RegistrationInv, StopsOnlyNamed

LEMMA RegistrationStep == ASSUME RegistrationInv, [RegistrationNext]_registrationVars PROVE RegistrationInv'
<1>1. CASE Interrupted
  BY <1>1, EndInv DEF Interrupted, FailCommand, Verdicts, systemdVars, countVars
<1>2. CASE UNCHANGED registrationVars
  <2>1. Marker' = Marker /\ CommandInv' /\ RegistrationTypeOK'
    BY <1>2 DEF registrationVars, RegistrationInv, RegistrationTypeOK, CommandInv, OnlyMarker, Marker
  <2> QED
    BY <1>2, <2>1 DEF registrationVars, RegistrationInv, StopsOnlyNamed
<1> QED
  BY <1>1, <1>2, BeginCommandInv, DefinitionInv, RegisterInv, InspectInv, PrepareInv, PointInv, StatusAnswerInv,
     StopInv, UninstallInv, DeleteInv, UserUnitInv, UserRegistrationInv, InvocationInv DEF RegistrationNext

LEMMA RegistrationInvariant == RegistrationSpec => []RegistrationInv
<1>1. RegistrationInv /\ [RegistrationNext]_registrationVars => RegistrationInv'
  BY RegistrationStep
<1> QED
  BY <1>1, RegistrationInitInv, PTL DEF RegistrationSpec

\* For any number of configurations, commands and edits: however commands are
\* interrupted between two of their calls and whatever users do to the unit or
\* the task meanwhile, a registration that is marked with a configuration has
\* its whole definition on disk, and a stop on Windows hits no invocation but
\* the one it names (write_immutable_definition, cleanup_definitions,
\* delete_owned, stop_instance).
THEOREM RegistrationIsSafe == RegistrationSpec => []RegistrationSafe
<1>1. RegistrationInv => RegistrationSafe
  BY DEF RegistrationInv, RegistrationSafe, MarkerResolves, Marker, RegistrationTypeOK
<1> QED
  BY <1>1, RegistrationInvariant, PTL

-----------------------------------------------------------------------------
(* What a status says.                                                     *)

LEMMA StatusInitInv == RegistrationInit => StatusInv
<1> SUFFICES ASSUME RegistrationInit PROVE StatusInv
  OBVIOUS
<1>1. unit = <<>> /\ loaded = <<>> /\ cmd = NoCommand
  BY DEF RegistrationInit
<1>2. shadowed \in BOOLEAN /\ enabled \in BOOLEAN /\ disturbed \in BOOLEAN
  BY DEF RegistrationInit
<1>3. Whole(unit) /\ Whole(loaded)
  BY <1>1 DEF Whole
<1>4. loaded \in Seq(UnitLine)
  BY <1>1
<1>5. cmd.op = "idle" /\ cmd.pc = "idle"
  BY <1>1 DEF NoCommand
<1> QED
  BY <1>2, <1>3, <1>4, <1>5 DEF StatusInv

LEMMA RenderWhole == ASSUME NEW g \in Gens PROVE Whole(render(g)) /\ render(g) \in Seq(UnitLine)
<1>1. /\ Len(render(g)) = 3 /\ render(g)[1] = Line("Marker", g) /\ render(g)[2] = Line("ExecStart", g)
      /\ render(g)[3] = Line("Restart", "no")
  BY DEF render
<1> QED
  BY <1>1, RenderFacts DEF Whole, Line

\* Steps of commands that do not read.
LEMMA StatusAside ==
  ASSUME RegistrationInv, StatusInv, disturbed' \in BOOLEAN,
         Whole(unit'), Whole(loaded'), loaded' \in Seq(UnitLine), shadowed' \in BOOLEAN, enabled' \in BOOLEAN,
         cmd'.pc # "show", ~(cmd'.op = "status" /\ cmd'.pc = "decide"),
         cmd'.op # "idle" => cmd'.status = "none"
  PROVE  StatusInv'
  BY DEF StatusInv

LEMMA CommandStatus ==
  ASSUME RegistrationInv, StatusInv,
         \/ BeginCommand \/ write_immutable_definition \/ InstallPrepare \/ RegisterPoint
         \/ stop_instance \/ UninstallDecide \/ Interrupted \/ status_snapshot
  PROVE  StatusInv'
<1>0. UNCHANGED systemdVars /\ disturbed' \in BOOLEAN
  BY DEF BeginCommand, write_immutable_definition, InstallPrepare, RegisterPoint, stop_instance, UninstallDecide,
         Interrupted, status_snapshot, StatusInv
<1>c. cmd \in Commands
  BY DEF RegistrationInv, RegistrationTypeOK
<1>1. cmd'.pc # "show" /\ ~(cmd'.op = "status" /\ cmd'.pc = "decide") /\ (cmd'.op # "idle" => cmd'.status = "none")
  <2>1. CASE BeginCommand
    BY <2>1 DEF BeginCommand, NoCommand
  <2>2. CASE write_immutable_definition
    BY <2>2, <1>c DEF write_immutable_definition, Proceed, Defined, FailCommand, NoCommand, At, StatusInv, Commands
  <2>3. CASE InstallPrepare
    <3>1. cmd.op = "prepare"
      BY <2>3 DEF InstallPrepare, At
    <3>2. CASE FailCommand
      BY <3>2 DEF FailCommand, NoCommand
    <3>3. CASE \E g \in Gens \cup {NoGen} : cmd' = [cmd EXCEPT !.op = "install", !.pc = "define", !.gen = g]
      BY <1>c, <3>1, <3>3 DEF StatusInv, Commands
    <3>4. current \in Gens \cup {NoGen} /\ (cmd.seen.kind = "owned" => cmd.seen.marker \in Gens)
      BY DEF RegistrationInv, RegistrationTypeOK, Commands, Sights, Missing, ForeignTask
    <3> QED
      BY <2>3, <3>2, <3>3, <3>4 DEF InstallPrepare
  <2>4. CASE RegisterPoint
    BY <2>4, <1>c DEF RegisterPoint, Proceed, FailCommand, EndCommand, NoCommand, At, StatusInv, Commands
  <2>5. CASE stop_instance
    BY <2>5, <1>c DEF stop_instance, Proceed, FailCommand, EndCommand, NoCommand, At, StatusInv, Commands
  <2>6. CASE UninstallDecide
    BY <2>6, <1>c DEF UninstallDecide, FailCommand, NoCommand, At, StatusInv, Commands
  <2>7. CASE Interrupted
    BY <2>7 DEF Interrupted, FailCommand, NoCommand
  <2>8. CASE status_snapshot
    BY <2>8 DEF status_snapshot, EndCommand, NoCommand
  <2> QED
    BY <2>1, <2>2, <2>3, <2>4, <2>5, <2>6, <2>7, <2>8
<1> QED
  BY <1>0, <1>1, StatusAside DEF StatusInv, systemdVars

LEMMA WritesStatus == ASSUME RegistrationInv, StatusInv, register \/ delete_owned PROVE StatusInv'
<1>0. UNCHANGED disturbed /\ cmd.op \in {"install", "delete"} /\ cmd \in Commands
  BY DEF register, delete_owned, At, RegistrationInv, RegistrationTypeOK
<1>1. cmd'.pc # "show" /\ ~(cmd'.op = "status" /\ cmd'.pc = "decide") /\ (cmd'.op # "idle" => cmd'.status = "none")
  <2>1. CASE register
    BY <1>0, <2>1 DEF register, Proceed, At, StatusInv, Commands
  <2>2. CASE delete_owned
    BY <1>0, <2>2 DEF delete_owned, Proceed, FailCommand, EndCommand, NoCommand, At, StatusInv, Commands
  <2> QED
    BY <2>1, <2>2
<1>2. /\ Whole(unit') /\ Whole(loaded') /\ loaded' \in Seq(UnitLine)
  <2>0. /\ Whole(unit) /\ Whole(loaded) /\ unit \in Seq(UnitLine) /\ loaded \in Seq(UnitLine) /\ Whole(<<>>)
    BY DEF StatusInv, RegistrationInv, RegistrationTypeOK, Whole
  <2>1. unit' = unit \/ unit' = <<>> \/ (cmd.op = "install" /\ unit' = render(cmd.gen))
    BY DEF register, delete_owned, At, systemdVars
  <2>2. loaded' = loaded \/ loaded' = unit
    BY DEF register, delete_owned, systemdVars
  <2>3. cmd.op = "install" => cmd.gen \in Gens
    BY DEF RegistrationInv, CommandInv
  <2> QED
    BY <2>0, <2>1, <2>2, <2>3, RenderWhole
<1>3. shadowed' \in BOOLEAN /\ enabled' \in BOOLEAN
  BY DEF register, delete_owned, systemdVars, StatusInv
<1> QED
  BY <1>0, <1>1, <1>2, <1>3, StatusAside DEF StatusInv

LEMMA InspectStatus == ASSUME RegistrationInv, StatusInv, inspect PROVE StatusInv'
<1>0. UNCHANGED <<adapter, unit, loaded, shadowed, enabled, registration>> /\ cmd.op # "idle" /\ cmd \in Commands
  BY DEF inspect, systemdVars, RegistrationInv, RegistrationTypeOK
<1>1. disturbed' = (disturbed /\ cmd.pc # "read")
  BY DEF inspect
<1>2. disturbed' \in BOOLEAN /\ (cmd.pc = "show" /\ ~disturbed' => ~disturbed)
  BY <1>1 DEF StatusInv
<1>3. inspectUnit(unit)' = inspectUnit(unit) /\ inspectTask' = inspectTask
  BY <1>0 DEF inspectUnit, inspectTask, NeedDaemonReload
<1>4. CASE cmd.pc = "read" /\ adapter = "systemd" /\ unit = <<>> /\ cmd' = [cmd EXCEPT !.seen = Missing, !.pc = "decide"]
  <2>1. cmd'.pc = "decide" /\ cmd'.seen.kind = "missing" /\ cmd'.op = cmd.op /\ cmd'.status = cmd.status
    BY <1>0, <1>4 DEF Commands, Missing
  <2> QED
    BY <1>0, <1>2, <2>1 DEF StatusInv
<1>5. CASE cmd.pc = "read" /\ adapter = "systemd" /\ cmd' = [cmd EXCEPT !.text = unit, !.pc = "show"]
  <2>1. cmd'.pc = "show" /\ cmd'.text = unit /\ cmd'.op = cmd.op /\ cmd'.status = cmd.status
    BY <1>0, <1>5 DEF Commands
  <2> QED
    BY <1>0, <1>2, <2>1 DEF StatusInv
<1>6. CASE cmd.pc = "show" /\ cmd' = [cmd EXCEPT !.seen = inspectUnit(cmd.text), !.pc = "decide"]
  <2>1. cmd'.pc = "decide" /\ cmd'.seen = inspectUnit(cmd.text) /\ cmd'.op = cmd.op /\ cmd'.status = cmd.status
    BY <1>0, <1>6 DEF Commands
  <2>2. adapter = "systemd" /\ (~disturbed' => cmd.text = unit)
    BY <1>2, <1>6 DEF StatusInv, RegistrationInv, CommandInv
  <2> QED
    BY <1>0, <1>2, <1>3, <2>1, <2>2 DEF StatusInv
<1>7. CASE cmd.pc = "read" /\ adapter = "task_scheduler" /\ cmd' = [cmd EXCEPT !.seen = inspectTask, !.pc = "decide"]
  <2>1. cmd'.pc = "decide" /\ cmd'.seen = inspectTask /\ cmd'.op = cmd.op /\ cmd'.status = cmd.status
    BY <1>0, <1>7 DEF Commands
  <2> QED
    BY <1>0, <1>2, <1>3, <1>7, <2>1 DEF StatusInv
<1> QED
  BY <1>4, <1>5, <1>6, <1>7 DEF inspect

\* Whoever edits disturbs; without appending, a unit keeps its three lines.
LEMMA UserStatus ==
  ASSUME RegistrationInv, StatusInv, "append" \notin UnitEdits, UserEditsUnit \/ UserEditsRegistration
  PROVE  StatusInv'
<1>0. disturbed' = TRUE /\ UNCHANGED cmd
  BY DEF UserEditsUnit, UserEditsRegistration
<1>1. Whole(unit') /\ Whole(loaded') /\ loaded' \in Seq(UnitLine)
  <2>0. Whole(unit) /\ Whole(loaded) /\ unit \in Seq(UnitLine) /\ loaded \in Seq(UnitLine)
    BY DEF StatusInv, RegistrationInv, RegistrationTypeOK
  <2>1. unit' = unit \/ \E i \in DOMAIN unit : unit' = Change(unit, i, "edited")
    BY DEF UserEditsUnit, UserEditsRegistration, systemdVars
  <2>2. loaded' = loaded \/ loaded' = unit
    BY DEF UserEditsUnit, UserEditsRegistration, systemdVars
  <2>3. ASSUME NEW i \in DOMAIN unit PROVE Whole(Change(unit, i, "edited"))
    <3>1. unit # <<>>
      BY <2>3
    <3>2. /\ Len(unit) = 3
          /\ unit[1].key = "Marker" /\ unit[2].key = "ExecStart" /\ unit[3].key = "Restart"
      BY <2>0, <3>1 DEF Whole
    <3>3. 1 \in 1 .. Len(unit) /\ 2 \in 1 .. Len(unit) /\ 3 \in 1 .. Len(unit)
      BY <3>2
    <3> QED
      BY <2>0, <3>2, <3>3, ChangeFacts DEF Whole
  <2> QED
    BY <2>0, <2>1, <2>2, <2>3
<1>2. shadowed' \in BOOLEAN /\ enabled' \in BOOLEAN
  BY DEF UserEditsUnit, UserEditsRegistration, systemdVars, StatusInv
<1> QED
  BY <1>0, <1>1, <1>2 DEF StatusInv

LEMMA StatusStep ==
  ASSUME RegistrationInv, StatusInv, "append" \notin UnitEdits, [RegistrationNext]_registrationVars
  PROVE  StatusInv'
<1>1. CASE Starts \/ InvocationEnds \/ UNCHANGED registrationVars
  <2>0. UNCHANGED <<adapter, unit, loaded, shadowed, enabled, registration, cmd, disturbed>>
    BY <1>1 DEF Starts, InvocationEnds, registrationVars, systemdVars
  <2>1. inspectUnit(unit)' = inspectUnit(unit) /\ inspectTask' = inspectTask
    BY <2>0 DEF inspectUnit, inspectTask, NeedDaemonReload
  <2> QED
    BY <2>0, <2>1 DEF StatusInv
<1> QED
  BY <1>1, CommandStatus, WritesStatus, InspectStatus, UserStatus DEF RegistrationNext

LEMMA StatusInvariant == ASSUME "append" \notin UnitEdits PROVE RegistrationSpec => []StatusInv
<1>1. RegistrationInv /\ StatusInv /\ [RegistrationNext]_registrationVars => StatusInv'
  BY StatusStep
<1> QED
  BY <1>1, StatusInitInv, RegistrationInvariant, PTL DEF RegistrationSpec

\* In three lines the first assignment of a key, which the comparison reads, is
\* the last one, which systemd obeys.
LEMMA WholeValues ==
  ASSUME NEW lines \in Seq(UnitLine), Whole(lines), lines # <<>>
  PROVE  /\ Value(lines, "ExecStart") = lines[2].value /\ Value(lines, "Restart") = lines[3].value
         /\ Effective(lines, "ExecStart") = lines[2].value /\ Effective(lines, "Restart") = lines[3].value
<1>1. /\ Len(lines) = 3
      /\ lines[1].key = "Marker" /\ lines[2].key = "ExecStart" /\ lines[3].key = "Restart"
  BY DEF Whole
<1> DEFINE back == Reverse(lines)
<1>2. back = [i \in 1 .. 3 |-> lines[(3 - i) + 1]]
  BY <1>1 DEF Reverse
<1>3. back[1] = lines[3] /\ back[2] = lines[2] /\ back[3] = lines[1]
  BY <1>2
<1>4. lines[1] \in UnitLine /\ lines[2] \in UnitLine /\ lines[3] \in UnitLine
  BY <1>1, ElementOfSeq
<1>5. back \in Seq(UnitLine) /\ Len(back) = 3
  <2>1. \A i \in 1 .. 3 : lines[(3 - i) + 1] \in UnitLine
    BY <1>4
  <2>2. back \in Seq(UnitLine)
    BY <1>2, <2>1, IsASeq
  <2> QED
    BY <1>2, <2>2, LenProperties
<1> HIDE DEF back
<1>6. Value(lines, "ExecStart") = lines[2].value
  <2>1. 2 \in 1 .. Len(lines) /\ \A j \in 1 .. (2 - 1) : lines[j].key # "ExecStart"
    BY <1>1
  <2> QED
    BY <1>1, <2>1, FirstValue
<1>7. Value(lines, "Restart") = lines[3].value
  <2>1. 3 \in 1 .. Len(lines) /\ \A j \in 1 .. (3 - 1) : lines[j].key # "Restart"
    BY <1>1
  <2> QED
    BY <1>1, <2>1, FirstValue
<1>8. Value(back, "ExecStart") = back[2].value
  <2>1. 2 \in 1 .. Len(back) /\ \A j \in 1 .. (2 - 1) : back[j].key # "ExecStart"
    BY <1>1, <1>3, <1>5
  <2> QED
    BY <1>1, <1>3, <1>5, <2>1, FirstValue
<1>9. Value(back, "Restart") = back[1].value
  <2>1. 1 \in 1 .. Len(back) /\ \A j \in 1 .. (1 - 1) : back[j].key # "Restart"
    BY <1>5
  <2> QED
    BY <1>1, <1>3, <1>5, <2>1, FirstValue
<1> QED
  BY <1>3, <1>6, <1>7, <1>8, <1>9 DEF Effective, back

LEMMA UnitAsRegistered ==
  ASSUME RegistrationInv, StatusInv, adapter = "systemd", NEW g \in Gens, inspectUnit(unit) = Owned(g, {})
  PROVE  AsRegistered(g)
<1>1. Missing.kind = "missing" /\ ForeignTask.kind = "foreign" /\ \A d : Owned(g, d).kind = "owned"
  BY DEF Missing, ForeignTask, Owned
<1> DEFINE m == Value(unit, "Marker")
           u == [lines |-> unit, enabled |-> enabled, needs_daemon_reload |-> NeedDaemonReload]
<1>2. ~shadowed /\ inspectUnit(unit) = Owned(m, unitDrift(m, u))
  BY <1>1 DEF inspectUnit
<1>3. m = g /\ unitDrift(m, u) = {}
  BY <1>2 DEF Owned
<1>4. /\ enabled /\ ~NeedDaemonReload
      /\ Value(unit, "ExecStart") = Value(render(g), "ExecStart") /\ Value(unit, "Restart") = Value(render(g), "Restart")
  <2>1. unitDrift(g, u) = {}
    BY <1>3
  <2>2. "enabled" \notin unitDrift(g, u) /\ "needs_daemon_reload" \notin unitDrift(g, u)
        /\ "ExecStart" \notin unitDrift(g, u) /\ "Restart" \notin unitDrift(g, u)
    BY <2>1
  <2>3. u.enabled = enabled /\ u.needs_daemon_reload = NeedDaemonReload /\ u.lines = unit
    OBVIOUS
  <2> HIDE DEF u
  <2>4. u.enabled /\ ~u.needs_daemon_reload
    BY <2>2 DEF unitDrift
  <2>5. Value(u.lines, "ExecStart") = Value(render(g), "ExecStart") /\ Value(u.lines, "Restart") = Value(render(g), "Restart")
    BY <2>2 DEF unitDrift
  <2> QED
    BY <2>3, <2>4, <2>5
<1>5. loaded = unit
  BY <1>4 DEF NeedDaemonReload
<1>6. unit # <<>>
  BY <1>3, NoValue, GensAssumption
<1>7. render(g) \in Seq(UnitLine) /\ render(g) # <<>> /\ Whole(render(g)) /\ render(g)[2].value = g /\ render(g)[3].value = "no"
  BY RenderFacts, RenderWhole DEF render, Line
<1>8. Effective(unit, "ExecStart") = Value(unit, "ExecStart") /\ Effective(unit, "Restart") = Value(unit, "Restart")
  BY <1>6, WholeValues DEF StatusInv, RegistrationInv, RegistrationTypeOK
<1>9. Value(render(g), "ExecStart") = g /\ Value(render(g), "Restart") = "no"
  BY <1>7, WholeValues
<1> QED
  BY <1>2, <1>4, <1>5, <1>8, <1>9 DEF AsRegistered

LEMMA TaskAsRegistered ==
  ASSUME RegistrationInv, adapter = "task_scheduler", NEW g \in Gens, inspectTask = Owned(g, {})
  PROVE  AsRegistered(g)
<1>1. Missing.kind = "missing" /\ ForeignTask.kind = "foreign" /\ \A d : Owned(g, d).kind = "owned"
  BY DEF Missing, ForeignTask, Owned
<1>2. /\ registration # NoRegistration /\ registration.source = "AIHelper"
      /\ inspectTask = Owned(registration.marker, taskDrift(registration.marker, registration))
  BY <1>1 DEF inspectTask
<1>3. registration.marker = g /\ taskDrift(g, registration) = {}
  BY <1>2 DEF Owned
<1>4. registration \in Registrations
  BY <1>2 DEF RegistrationInv, RegistrationTypeOK
<1>5. /\ TaskSpec(g).trigger_count = observe_registered(registration).trigger_count
      /\ TaskSpec(g).trigger = observe_registered(registration).trigger
      /\ TaskSpec(g).action_count = observe_registered(registration).action_count
      /\ TaskSpec(g).action = observe_registered(registration).action
      /\ TaskSpec(g).settings = observe_registered(registration).settings
  <2>1. actionDrift(g, registration) = {} /\ settingsDrift(g, registration) = {}
    BY <1>3 DEF taskDrift
  <2>2. \A f \in {"marker", "trigger_count", "trigger", "action_count", "action"} :
          TaskSpec(g)[f] = observe_registered(registration)[f]
    BY <2>1 DEF actionDrift
  <2>3. \A f \in {"settings"} : TaskSpec(g)[f] = observe_registered(registration)[f]
    BY <2>1 DEF settingsDrift
  <2> QED
    BY <2>2, <2>3
<1>6. /\ TaskSpec(g).trigger_count = 1 /\ TaskSpec(g).trigger = "logon"
      /\ TaskSpec(g).action_count = 1 /\ TaskSpec(g).action = g /\ TaskSpec(g).settings = "canonical"
  BY DEF TaskSpec, observe_registered, populate_definition
<1>7. /\ Len(registration.triggers) = 1 /\ registration.triggers[1] = "logon"
      /\ Len(registration.actions) = 1 /\ registration.actions[1] = g
      /\ registration.settings = "canonical"
  BY <1>5, <1>6 DEF observe_registered
<1>8. registration.triggers \in Seq({"logon", "edited"}) /\ registration.actions \in Seq(Gens \cup {"edited"})
  BY <1>4 DEF Registrations
<1>9. registration.triggers = <<"logon">>
  BY <1>7, <1>8, SeqEqual
<1>10. registration.actions = <<g>>
  BY <1>7, <1>8, SeqEqual
<1> QED
  BY <1>2, <1>3, <1>4, <1>7, <1>9, <1>10 DEF AsRegistered, populate_definition, Registrations

\* For any number of configurations, commands and edits, when users change,
\* disable, reload or shadow the unit, or do anything to the task, but append no
\* line to the unit: a status of "installed" from an inspection nothing
\* disturbed means that the manager would run exactly the registered command
\* at logon and that the pointer and the definition file agree with it
\* (status_snapshot, semantic_drift).  An appended assignment is read by the
\* manager and not by the comparison, so the hypothesis cannot go.
THEOREM InstalledMeansSo == ASSUME "append" \notin UnitEdits PROVE RegistrationSpec => InstalledIsSo
<1>1. ASSUME RegistrationInv, StatusInv, [RegistrationNext]_registrationVars,
             cmd'.status = "installed", cmd.op = "status", ~disturbed
      PROVE  AsRegistered(cmd'.gen) /\ current = cmd'.gen /\ definitions[cmd'.gen] = "whole"
  <2>0. cmd.status = "none" /\ cmd \in Commands
    BY <1>1 DEF StatusInv, RegistrationInv, RegistrationTypeOK
  <2>1. status_snapshot
    <3>1. CASE UNCHANGED cmd
      BY <1>1, <2>0, <3>1
    <3>2. CASE inspect
      <4>1. cmd'.status = cmd.status
        BY <2>0, <3>2 DEF inspect, Commands
      <4> QED
        BY <1>1, <2>0, <4>1
    <3>3. CASE Interrupted
      BY <1>1, <3>3 DEF Interrupted, FailCommand, NoCommand
    <3>4. ~(BeginCommand \/ write_immutable_definition \/ register \/ InstallPrepare \/ RegisterPoint
             \/ stop_instance \/ UninstallDecide \/ delete_owned)
      BY <1>1 DEF BeginCommand, write_immutable_definition, register, InstallPrepare, RegisterPoint,
                  stop_instance, UninstallDecide, delete_owned, At
    <3>5. UserEditsUnit \/ UserEditsRegistration \/ Starts \/ InvocationEnds \/ UNCHANGED registrationVars
            => UNCHANGED cmd
      BY DEF UserEditsUnit, UserEditsRegistration, Starts, InvocationEnds, registrationVars
    <3> QED
      BY <1>1, <3>1, <3>2, <3>3, <3>4, <3>5 DEF RegistrationNext
  <2> DEFINE g == cmd.seen.marker
  <2>2. /\ cmd.seen.kind = "owned" /\ Resolvable(g) /\ PointerAgrees(g) /\ cmd.seen.drift = {}
        /\ cmd' = [NoCommand EXCEPT !.status = "installed", !.gen = g]
    BY <1>1, <2>1 DEF status_snapshot, EndCommand, NoCommand
  <2>3. cmd'.gen = g
    BY <2>2 DEF NoCommand
  <2>4. g \in Gens /\ cmd.seen = Owned(g, {})
    BY <2>0, <2>2 DEF Commands, Sights, Missing, ForeignTask, Owned
  <2>5. cmd.seen = IF adapter = "systemd" THEN inspectUnit(unit) ELSE inspectTask
    BY <1>1, <2>1, <2>2 DEF StatusInv, status_snapshot, At
  <2> HIDE DEF g
  <2>6. adapter \in {"systemd", "task_scheduler"}
    BY <1>1 DEF RegistrationInv, RegistrationTypeOK
  <2>7. AsRegistered(g)
    BY <1>1, <2>4, <2>5, <2>6, UnitAsRegistered, TaskAsRegistered
  <2> QED
    BY <2>2, <2>3, <2>7 DEF Resolvable, PointerAgrees
<1> QED
  BY <1>1, RegistrationInvariant, StatusInvariant, PTL DEF RegistrationSpec, InstalledIsSo

-----------------------------------------------------------------------------
(* Registering with an agent.                                              *)

Agents == Seq(AgentDocument)
Documents(d) == d \in Agents /\ d # <<>>
HasServer(d) == AgentEntries(d, SERVER_NAME) # {}
RunFields == {"at", "req", "spec", "seen", "had", "failures", "doc", "left", "after", "text"}
AgentStages ==
    {"confirm", "ensure", "probe", "drop", "add", "restore", "store", "legacy", "rules", "write"}
Known == {"stdio", "http"}
Installs(r) == r.req.op = "install"
UsesCli(r) == TARGETS[r.req.target].registrar = "cli"

\* The shape of a run r beside documents d.
RunShape(r, d) ==
    /\ Documents(d) /\ DOMAIN r = RunFields /\ r.failures \in Nat /\ r.had \in BOOLEAN
    /\ r.at \in Over \cup AgentStages
    /\ r.at # "idle" => r.req \in Requests
    /\ r.at \in {"confirm", "ensure", "add", "restore"} => Installs(r)
    /\ r.at \in {"confirm", "ensure", "probe"} => ~r.had
    /\ Installs(r) /\ r.at \in AgentStages =>
         /\ r.req.mcp => r.spec \in Known
         /\ r.at \notin {"confirm", "ensure", "rules", "write"} => r.req.mcp
    /\ r.at = "restore" => r.failures > 0 /\ UsesCli(r)
    /\ r.at = "store" => /\ Documents(r.doc) /\ ~UsesCli(r) /\ r.after \in {"legacy", "rules"}
                         /\ DOMAIN r.doc = DOMAIN d /\ r.left \in SUBSET DOMAIN d /\ r.left # {}
                         /\ \A i \in DOMAIN d \ r.left : \A name \in Names : r.doc[i][name] = d[i][name]

\* No document of e lacks a registration that the one of d has.
KeepsServer(d, e) == \A i \in AgentEntries(d, SERVER_NAME) : i \in AgentEntries(e, SERVER_NAME)

\* While the old registration is gone from an agent that had one, the run knows it and
\* can give it back.
RunKeeps(r, d) ==
    /\ r.at = "drop" => HasServer(d)
    /\ Installs(r) /\ r.at = "drop" => UsesCli(r) /\ r.seen \in Known
    /\ r.at = "add" => r.seen \in Known \cup {"none"}
    /\ r.at = "add" /\ r.had => IF UsesCli(r) THEN r.seen \in Known ELSE HasServer(d)
    /\ r.at = "restore" => r.seen \in Known
    /\ Installs(r) /\ r.at = "store" /\ r.had => HasServer(d)
    /\ Installs(r) /\ r.at = "store" => KeepsServer(d, r.doc)
    /\ Installs(r) /\ r.at \in {"legacy", "rules", "write"} /\ r.had => HasServer(d)
    /\ Installs(r) /\ r.at = "failed" /\ r.had /\ r.failures < 2 => HasServer(d)

\* What documents d hold once a run that changes them is past its first and its second part.
FirstPart(r, d) ==
    IF Installs(r) THEN r.req.mcp => probe(d, SERVER_NAME) = r.spec
    ELSE ~Present(r.req.target, d, SERVER_NAME)
SecondPart(r, d) == (Installs(r) => r.req.mcp) => ~Present(r.req.target, d, LEGACY)
RunReports(r, d) ==
    r.at \notin {"idle", "failed"} /\ ~r.req.dry =>
      /\ r.at \in {"legacy", "rules", "write", "done"} => FirstPart(r, d)
      /\ r.at \in {"rules", "write", "done"} => SecondPart(r, d)
      /\ r.at = "store" => FirstPart(r, r.doc)
      /\ r.at = "store" /\ r.after = "rules" => SecondPart(r, r.doc)

AgentFits(r, d) == RunShape(r, d) /\ RunKeeps(r, d) /\ RunReports(r, d)
AgentInv == AgentFits(run, docs)

-----------------------------------------------------------------------------
(* Documents.                                                              *)

\* The first of some places.
LEMMA FirstIs ==
  ASSUME NEW S \in SUBSET Nat, NEW n \in S, \A j \in S : n <= j
  PROVE  First(S) = n
<1>1. First(S) \in S /\ \A j \in S : First(S) <= j
  BY DEF First
<1> DEFINE f == First(S)
<1>2. f \in Nat /\ n \in Nat /\ f <= n /\ n <= f
  BY <1>1
<1> HIDE DEF f
<1>3. f = n
  BY <1>2
<1> QED
  BY <1>3 DEF f

LEMMA FirstOf ==
  ASSUME NEW S \in SUBSET Nat, S # {}
  PROVE  First(S) \in S /\ \A j \in S : First(S) <= j
<1> DEFINE Less == {ss \in Nat \X Nat : ss[1] < ss[2]}
<1>1. IsWellFoundedOn(Less, Nat)
  BY NatLessThanWellFounded DEF OpToRel
<1>2. \A x, y \in Nat : y < x => <<y, x>> \in Less
  OBVIOUS
<1> HIDE DEF Less
<1>3. PICK x \in S : \A y \in S : <<y, x>> \notin Less
  BY <1>1, WFMin
<1>4. \A y \in S : y \in Nat /\ x \in Nat /\ ~(y < x)
  BY <1>2, <1>3
<1>5. \A y \in S : x <= y
  BY <1>4
<1>6. First(S) = x
  BY <1>5, FirstIs
<1> QED
  BY <1>5, <1>6

\* A nonempty set of places in a sequence has a last one.
LEMMA LastPlace ==
  ASSUME NEW n \in Nat, NEW T \in SUBSET (1..n), T # {}
  PROVE  \E m \in T : \A k \in T : k <= m
<1> DEFINE Less == {ss \in Nat \X Nat : ss[1] < ss[2]}
           R == {n - k : k \in T}
<1>1. IsWellFoundedOn(Less, Nat)
  BY NatLessThanWellFounded DEF OpToRel
<1>2. R \in SUBSET Nat /\ R # {}
  <2>1. \A k \in T : k \in Nat /\ n - k \in Nat
    OBVIOUS
  <2> QED
    BY <2>1
<1>3. \E x \in R : \A y \in R : <<y, x>> \notin Less
  <2> HIDE DEF Less, R
  <2> QED
    BY <1>1, <1>2, WFMin
<1>4. \A x, y \in Nat : y < x => <<y, x>> \in Less
  OBVIOUS
<1> HIDE DEF Less
<1>5. PICK m \in T : \A y \in R : <<y, n - m>> \notin Less
  BY <1>3
<1>6. \A k \in T : n - k \in R /\ n - k \in Nat /\ n - m \in Nat /\ k \in Nat /\ m \in Nat
  OBVIOUS
<1> HIDE DEF R
<1>7. \A k \in T : ~(n - k < n - m)
  BY <1>4, <1>5, <1>6
<1>8. \A k \in T : k <= m
  BY <1>6, <1>7
<1> QED
  BY <1>8

LEMMA DocumentFacts ==
  ASSUME NEW d, Documents(d)
  PROVE  /\ Len(d) \in Nat \ {0} /\ DOMAIN d = 1..Len(d) /\ Len(d) \in DOMAIN d
         /\ \A i \in DOMAIN d : /\ d[i] \in AgentDocument
                                /\ DOMAIN d[i] = {"aihelper", "ah", "rest", "sound", "stray"}
                                /\ \A name \in Names : d[i][name] \in AgentSpecs
<1>1. d \in Seq(AgentDocument) /\ d # <<>>
  BY DEF Documents, Agents
<1>2. Len(d) \in Nat /\ DOMAIN d = 1..Len(d) /\ Len(d) # 0 /\ \A i \in 1..Len(d) : d[i] \in AgentDocument
  BY <1>1, LenProperties, ElementOfSeq, EmptySeq
<1>3. \A x \in AgentDocument : /\ DOMAIN x = {"aihelper", "ah", "rest", "sound", "stray"}
                               /\ \A name \in Names : x[name] \in AgentSpecs
  BY DEF AgentDocument, Names, SERVER_NAME, LEGACY
<1> QED
  BY <1>2, <1>3

\* Documents that agree on a server.
Agree(d, e, name) == DOMAIN e = DOMAIN d /\ \A i \in DOMAIN d : e[i][name] = d[i][name]
LEMMA AgreeFacts ==
  ASSUME NEW d, NEW e, NEW name, Documents(d), Agree(d, e, name)
  PROVE  /\ AgentEntries(e, name) = AgentEntries(d, name) /\ probe(e, name) = probe(d, name)
         /\ \A t : Present(t, e, name) <=> Present(t, d, name)
<1>0. Len(d) \in Nat /\ DOMAIN d = 1..Len(d)
  BY DocumentFacts
<1>1. AgentEntries(e, name) = AgentEntries(d, name)
  BY DEF AgentEntries, Agree
<1>2. probe(e, name) = probe(d, name)
  <2> DEFINE T == AgentEntries(d, name)
             top == CHOOSE i \in T : \A j \in T : j <= i
  <2>1. CASE T = {}
    BY <1>1, <2>1 DEF probe
  <2>2. CASE T # {}
    <3>1. T \in SUBSET (1..Len(d))
      BY <1>0 DEF AgentEntries
    <3>2. \E i \in T : \A j \in T : j <= i
      <4> HIDE DEF T
      <4> QED
        BY <1>0, <2>2, <3>1, LastPlace
    <3>3. top \in DOMAIN d
      BY <1>0, <3>1, <3>2
    <3>4. e[top][name] = d[top][name]
      BY <3>3 DEF Agree
    <3> QED
      BY <1>1, <2>2, <3>4 DEF probe
  <2> QED
    BY <2>1, <2>2
<1> QED
  BY <1>1, <1>2 DEF Present

\* What registrar::probe answers.
LEMMA ProbeFacts ==
  ASSUME NEW d, Documents(d), NEW name \in Names
  PROVE  /\ probe(d, name) \in {"none", "stdio", "http"}
         /\ probe(d, name) # "none" => AgentEntries(d, name) # {}
<1>1. CASE AgentEntries(d, name) = {}
  BY <1>1 DEF probe
<1>2. CASE AgentEntries(d, name) # {}
  <2> DEFINE T == AgentEntries(d, name)
             top == CHOOSE i \in T : \A j \in T : j <= i
  <2>1. \E i \in T : \A j \in T : j <= i
    <3>1. T \in SUBSET (1..Len(d)) /\ Len(d) \in Nat
      BY DocumentFacts DEF AgentEntries
    <3> HIDE DEF T
    <3> QED
      BY <1>2, <3>1, LastPlace DEF T
  <2>2. top \in T
    BY <2>1
  <2>3. d[top][name] \in {"odd", "stdio", "http"}
    BY <2>2, DocumentFacts DEF AgentEntries, AgentSpecs
  <2>4. probe(d, name) = IF d[top][name] = "odd" THEN "none" ELSE d[top][name]
    BY <1>2 DEF probe
  <2> QED
    BY <1>2, <2>3, <2>4
<1> QED
  BY <1>1, <1>2

LEMMA MergeFacts ==
  ASSUME NEW d, Documents(d), NEW spec \in {"stdio", "http"}
  PROVE  LET e == merge(d, SERVER_NAME, spec)
         IN  /\ Documents(e) /\ HasServer(e) /\ probe(e, SERVER_NAME) = spec /\ DOMAIN e = DOMAIN d
             /\ \A i \in DOMAIN d \ {Len(d)} : e[i] = d[i]
             /\ KeepsServer(d, e)
             /\ e[Len(d)].aihelper = spec
             /\ d[Len(d)].stray = "none" => e[Len(d)].stray = "none"
             /\ d[Len(d)].stray # "root" => e[Len(d)].rest = d[Len(d)].rest
<1> DEFINE n == Len(d)
           new == [d[n] EXCEPT ![SERVER_NAME] = spec, !.stray = "none",
                               !.rest = IF d[n].stray = "root" THEN 0 ELSE d[n].rest]
           e == merge(d, SERVER_NAME, spec)
           T == AgentEntries(e, SERVER_NAME)
           top == CHOOSE i \in T : \A j \in T : j <= i
<1>0. n \in Nat \ {0} /\ DOMAIN d = 1..n /\ n \in DOMAIN d /\ d \in Seq(AgentDocument)
      /\ \A i \in DOMAIN d : d[i] \in AgentDocument /\ DOMAIN d[i] = {"aihelper", "ah", "rest", "sound", "stray"}
  BY DocumentFacts DEF Documents, Agents
<1>1. e = [d EXCEPT ![n] = new]
  BY DEF merge, TopOf
<1>2. /\ new \in AgentDocument /\ new.aihelper = spec /\ new.stray = "none"
      /\ d[n].stray # "root" => new.rest = d[n].rest
  BY <1>0 DEF AgentDocument, AgentSpecs, SERVER_NAME
<1> HIDE DEF new
<1>3. /\ DOMAIN e = 1..n /\ e[n] = new /\ e[n]["aihelper"] = spec
      /\ \A i \in DOMAIN d \ {n} : e[i] = d[i]
  BY <1>0, <1>1, <1>2
<1>4. e \in Seq(AgentDocument) /\ Len(e) = n
  BY <1>0, <1>1, <1>2, ExceptSeq
<1> HIDE DEF e
<1>5. Documents(e)
  BY <1>0, <1>4, EmptySeq DEF Documents, Agents
<1>6. n \in T /\ \A j \in T : j <= n /\ j \in Nat
  BY <1>0, <1>3 DEF AgentEntries, SERVER_NAME
<1>a. KeepsServer(d, e)
  BY <1>0, <1>3 DEF KeepsServer, AgentEntries, SERVER_NAME
<1>7. top \in T /\ \A j \in T : j <= top
  BY <1>6
<1> HIDE DEF T, top
<1>8. top = n
  BY <1>0, <1>6, <1>7
<1>9. probe(e, SERVER_NAME) = spec
  BY <1>3, <1>6, <1>8 DEF probe, SERVER_NAME, T, top
<1> QED
  BY <1>0, <1>2, <1>3, <1>5, <1>6, <1>9, <1>a DEF HasServer, e, T

LEMMA RemoveFacts ==
  ASSUME NEW d, Documents(d), NEW name \in Names
  PROVE  LET e == remove(d, name)
         IN  /\ Documents(e) /\ DOMAIN e = DOMAIN d /\ \A t : ~Present(t, e, name)
             /\ \A i \in DOMAIN d \ AgentEntries(d, name) : \A n \in Names : e[i][n] = d[i][n]
             /\ \A other \in Names \ {name} : /\ AgentEntries(e, other) = AgentEntries(d, other)
                                             /\ probe(e, other) = probe(d, other)
                                             /\ \A t : Present(t, e, other) <=> Present(t, d, other)
<1> DEFINE e == remove(d, name)
<1>0. Len(d) \in Nat \ {0} /\ DOMAIN d = 1..Len(d)
      /\ \A i \in DOMAIN d : d[i] \in AgentDocument /\ DOMAIN d[i] = {"aihelper", "ah", "rest", "sound", "stray"}
  BY DocumentFacts
<1>1. \A x \in AgentDocument : [x EXCEPT ![name] = "none"] \in AgentDocument
  BY DEF AgentDocument, AgentSpecs, Names, SERVER_NAME, LEGACY
<1>2. e = [i \in 1..Len(d) |-> [d[i] EXCEPT ![name] = "none"]]
  BY <1>0 DEF remove
<1>3. e \in Seq(AgentDocument) /\ DOMAIN e = 1..Len(d) /\ Len(e) = Len(d)
  BY <1>0, <1>1, <1>2
<1>4. \A i \in DOMAIN d : e[i][name] = "none" /\ \A other \in Names \ {name} : e[i][other] = d[i][other]
  BY <1>0, <1>2 DEF Names, SERVER_NAME, LEGACY
<1> HIDE DEF e
<1>5. Documents(e)
  BY <1>0, <1>3, EmptySeq DEF Documents, Agents
<1>6. AgentEntries(e, name) = {}
  BY <1>0, <1>3, <1>4 DEF AgentEntries
<1>7. \A t : ~Present(t, e, name)
  BY <1>6 DEF Present, probe
<1>8. \A other \in Names \ {name} : Agree(d, e, other)
  BY <1>0, <1>3, <1>4 DEF Agree
<1>9. \A other \in Names \ {name} : /\ AgentEntries(e, other) = AgentEntries(d, other)
                                    /\ probe(e, other) = probe(d, other)
                                    /\ \A t : Present(t, e, other) <=> Present(t, d, other)
  BY <1>8, AgreeFacts
<1>10. \A i \in DOMAIN d \ AgentEntries(d, name) : \A n \in Names : e[i][n] = d[i][n]
  BY <1>4 DEF AgentEntries
<1> QED
  BY <1>0, <1>3, <1>5, <1>7, <1>9, <1>10 DEF e

LEMMA PresentFacts ==
  ASSUME NEW d, Documents(d), NEW t \in DOMAIN TARGETS, NEW name \in Names
  PROVE  /\ Present(t, d, name) \in BOOLEAN
         /\ Present(t, d, name) => AgentEntries(d, name) # {}
         /\ TARGETS[t].registrar = "cli" => (Present(t, d, name) <=> probe(d, name) # "none")
<1>1. TARGETS[t].registrar = "cli" => TARGETS[t].probe # "opencode"
  BY DEF TARGETS
<1> QED
  BY <1>1, ProbeFacts DEF Present

\* A run goes on by the same rules beside documents that agree on both servers.
LEMMA AgreeFits ==
  ASSUME NEW r, NEW d, NEW e, AgentFits(r, d), Documents(e), \A name \in Names : Agree(d, e, name)
  PROVE  AgentFits(r, e)
<1>1. Documents(d)
  BY DEF AgentFits, RunShape
<1>2. \A name \in Names : /\ AgentEntries(e, name) = AgentEntries(d, name) /\ probe(e, name) = probe(d, name)
                          /\ \A t : Present(t, e, name) <=> Present(t, d, name)
  BY <1>1, AgreeFacts
<1>3. SERVER_NAME \in Names /\ LEGACY \in Names
  BY DEF Names
<1>4. HasServer(e) <=> HasServer(d)
  BY <1>2, <1>3 DEF HasServer
<1>5. FirstPart(r, d) => FirstPart(r, e)
  BY <1>2, <1>3 DEF FirstPart
<1>6. SecondPart(r, d) => SecondPart(r, e)
  BY <1>2, <1>3 DEF SecondPart
<1>7. RunShape(r, e)
  BY <1>3 DEF AgentFits, RunShape, Agree
<1>8. RunKeeps(r, e)
  BY <1>2, <1>3, <1>4 DEF AgentFits, RunKeeps, KeepsServer
<1>9. RunReports(r, e)
  BY <1>5, <1>6 DEF AgentFits, RunReports
<1> QED
  BY <1>7, <1>8, <1>9 DEF AgentFits

-----------------------------------------------------------------------------
(* The steps of a run.                                                     *)

LEMMA RequestFacts ==
  ASSUME NEW q \in Requests
  PROVE  /\ q.op \in {"install", "uninstall"} /\ q.target \in DOMAIN TARGETS
         /\ q.transport \in {"stdio", "http", "managed", "offhost"}
         /\ q.mcp \in BOOLEAN /\ q.rules \in BOOLEAN /\ q.dry \in BOOLEAN /\ q.ask \in BOOLEAN
  BY AgentAssumption

LEMMA MovesTo ==
  ASSUME DOMAIN run = RunFields, NEW x, run' = [run EXCEPT !.at = x]
  PROVE  /\ DOMAIN run' = RunFields /\ run'.at = x /\ run'.req = run.req /\ run'.spec = run.spec
         /\ run'.seen = run.seen /\ run'.had = run.had /\ run'.failures = run.failures
         /\ run'.doc = run.doc /\ run'.left = run.left /\ run'.after = run.after
  BY DEF RunFields

\* A run that fails leaves the agent a registration it had.
LEMMA FailFits ==
  ASSUME AgentInv, Documents(docs'), run.at # "idle",
         DOMAIN run' = RunFields, run'.at = "failed", run'.req = run.req, run'.had = run.had,
         run'.failures \in Nat,
         Installs(run) /\ run.had /\ run'.failures < 2 => HasServer(docs')
  PROVE  AgentFits(run', docs')
<1>1. RunShape(run', docs')
  BY DEF AgentInv, AgentFits, RunShape, Over, AgentStages
<1>2. RunKeeps(run', docs')
  BY DEF RunKeeps, Installs
<1>3. RunReports(run', docs')
  BY DEF RunReports
<1> QED
  BY <1>1, <1>2, <1>3 DEF AgentFits

LEMMA BeginFits ==
  ASSUME AgentInv, NEW req \in Requests, BeginInstall(req) \/ BeginUninstall(req)
  PROVE  AgentFits(run', docs')
<1>0. Documents(docs') /\ req.mcp \in BOOLEAN /\ req.transport \in {"stdio", "http", "managed", "offhost"}
  BY RequestFacts DEF AgentInv, AgentFits, RunShape, BeginInstall, BeginUninstall
<1>1. /\ DOMAIN run' = RunFields /\ run'.failures = 0 /\ run'.req = req
      /\ run'.had \in BOOLEAN /\ ~run'.had
      /\ run'.at \in {"failed", "ensure", "panicked", "confirm", "probe"}
      /\ run'.at \in {"confirm", "ensure"} => req.op = "install"
      /\ run'.at = "probe" => req.op = "uninstall"
  BY DEF BeginInstall, BeginUninstall, NoRun, RunFields
<1>2. req.op = "install" /\ run'.at \in {"ensure", "confirm"} /\ req.mcp => run'.spec \in Known
  <2>1. CASE BeginInstall(req)
    BY <1>0, <2>1 DEF BeginInstall, NoRun, PlannedSpec, SpecRefused, Known
  <2>2. CASE BeginUninstall(req)
    BY <2>2 DEF BeginUninstall
  <2> QED
    BY <2>1, <2>2
<1>3. RunShape(run', docs')
  BY <1>0, <1>1, <1>2 DEF RunShape, Over, AgentStages, Installs
<1>4. RunKeeps(run', docs')
  BY <1>1 DEF RunKeeps
<1>5. RunReports(run', docs')
  BY <1>1 DEF RunReports
<1> QED
  BY <1>3, <1>4, <1>5 DEF AgentFits

LEMMA ConfirmFits ==
  ASSUME AgentInv, Confirm
  PROVE  AgentFits(run', docs')
<1>0. docs' = docs /\ run.at = "confirm" /\ DOMAIN run = RunFields /\ ~run.had /\ Documents(docs)
      /\ run.failures \in Nat /\ Installs(run) /\ run.req \in Requests /\ (run.req.mcp => run.spec \in Known)
      /\ run.had \in BOOLEAN
  BY DEF Confirm, worldVars, AgentInv, AgentFits, RunShape, AgentStages
<1>1. PICK x \in {"ensure", "cancelled", "failed"} : run' = [run EXCEPT !.at = x]
  BY DEF Confirm, GoesTo, Fail
<1>2. /\ DOMAIN run' = RunFields /\ run'.at = x /\ run'.req = run.req /\ run'.spec = run.spec
      /\ run'.had = run.had /\ run'.failures = run.failures
  BY <1>0, <1>1, MovesTo
<1>3. RunShape(run', docs')
  BY <1>0, <1>2 DEF RunShape, Over, AgentStages, Installs
<1>4. RunKeeps(run', docs')
  BY <1>0, <1>2 DEF RunKeeps
<1>5. RunReports(run', docs')
  BY <1>0, <1>2 DEF RunReports
<1> QED
  BY <1>3, <1>4, <1>5 DEF AgentFits

LEMMA EnsureFits ==
  ASSUME AgentInv, EnsureReady
  PROVE  AgentFits(run', docs')
<1>0. docs' = docs /\ run.at = "ensure" /\ DOMAIN run = RunFields /\ ~run.had /\ Documents(docs)
      /\ run.failures \in Nat /\ Installs(run) /\ run.req \in Requests /\ (run.req.mcp => run.spec \in Known)
      /\ run.had \in BOOLEAN
  BY DEF EnsureReady, AgentInv, AgentFits, RunShape, AgentStages
<1>1. PICK x \in {"rules", "probe", "failed"} : /\ run' = [run EXCEPT !.at = x]
                                                /\ x = "rules" => ~run.req.mcp
                                                /\ x = "probe" => run.req.mcp
  BY DEF EnsureReady, GoesTo, Fail
<1>2. /\ DOMAIN run' = RunFields /\ run'.at = x /\ run'.req = run.req /\ run'.spec = run.spec
      /\ run'.had = run.had /\ run'.failures = run.failures
  BY <1>0, <1>1, MovesTo
<1>3. RunShape(run', docs')
  BY <1>0, <1>1, <1>2 DEF RunShape, Over, AgentStages, Installs
<1>4. RunKeeps(run', docs')
  BY <1>0, <1>2 DEF RunKeeps
<1>5. RunReports(run', docs')
  BY <1>0, <1>1, <1>2 DEF RunReports, FirstPart, SecondPart, Installs
<1> QED
  BY <1>3, <1>4, <1>5 DEF AgentFits

\* What a run past its first calls is like.
LEMMA RunFacts ==
  ASSUME AgentInv, run.at \in AgentStages
  PROVE  /\ Documents(docs) /\ DOMAIN run = RunFields /\ run.failures \in Nat /\ run.had \in BOOLEAN
         /\ run.req \in Requests /\ run.req.op \in {"install", "uninstall"}
         /\ run.req.target \in DOMAIN TARGETS /\ run.req.mcp \in BOOLEAN /\ run.req.dry \in BOOLEAN
         /\ Cli <=> UsesCli(run)
         /\ Installs(run) /\ run.req.mcp => run.spec \in Known
         /\ Installs(run) /\ run.at \notin {"confirm", "ensure", "rules", "write"} => run.req.mcp
         /\ SERVER_NAME \in Names /\ LEGACY \in Names /\ SERVER_NAME # LEGACY
<1>1. run.at # "idle"
  BY DEF AgentStages
<1>2. run.req \in Requests /\ Documents(docs) /\ DOMAIN run = RunFields /\ run.failures \in Nat /\ run.had \in BOOLEAN
  BY <1>1 DEF AgentInv, AgentFits, RunShape
<1>3. /\ Installs(run) /\ run.req.mcp => run.spec \in Known
      /\ Installs(run) /\ run.at \notin {"confirm", "ensure", "rules", "write"} => run.req.mcp
  BY DEF AgentInv, AgentFits, RunShape
<1>4. Cli <=> UsesCli(run)
  BY DEF Cli, UsesCli, Target
<1>5. SERVER_NAME \in Names /\ LEGACY \in Names /\ SERVER_NAME # LEGACY
  BY DEF Names, SERVER_NAME, LEGACY
<1> QED
  BY <1>2, <1>3, <1>4, <1>5, RequestFacts

LEMMA ProbeFits ==
  ASSUME AgentInv, ProbeAgent
  PROVE  AgentFits(run', docs')
<1> DEFINE t == run.req.target
           now == probe(docs, SERVER_NAME)
           present == Present(t, docs, SERVER_NAME)
           next == IF run.req.op = "uninstall" THEN IF present THEN "drop" ELSE "legacy"
                   ELSE IF now = run.spec THEN "legacy"
                   ELSE IF present /\ Cli THEN "drop" ELSE "add"
<1>0. docs' = docs /\ run.at = "probe" /\ run.at \in AgentStages
  BY DEF ProbeAgent, worldVars, AgentStages
<1>1. ~run.had
  BY <1>0 DEF AgentInv, AgentFits, RunShape
<1>2. /\ present \in BOOLEAN /\ (present => HasServer(docs)) /\ now \in {"none", "stdio", "http"}
      /\ UsesCli(run) => (present <=> now # "none")
  BY <1>0, RunFacts, ProbeFacts, PresentFacts DEF HasServer, UsesCli
<1>3. CASE Fail
  <2>1. /\ DOMAIN run' = RunFields /\ run'.at = "failed" /\ run'.req = run.req /\ run'.had = run.had
        /\ run'.failures = run.failures
    BY <1>0, <1>3, RunFacts, MovesTo DEF Fail
  <2> QED
    BY <1>0, <1>1, <2>1, RunFacts, FailFits
<1>4. CASE run' = [run EXCEPT !.had = present, !.seen = now,
                     !.at = IF run.req.dry /\ next # "legacy" THEN "legacy" ELSE next]
  <2> HIDE DEF present, now, next
  <2>1. /\ DOMAIN run' = RunFields /\ run'.req = run.req /\ run'.spec = run.spec /\ run'.seen = now
        /\ run'.failures = run.failures
        /\ run'.at = IF run.req.dry /\ next # "legacy" THEN "legacy" ELSE next
    BY <1>0, <1>4, RunFacts DEF RunFields
  <2>2. run'.had \in BOOLEAN /\ (run'.had <=> present)
    BY <1>0, <1>2, <1>4, RunFacts DEF RunFields
  <2>3. next \in {"drop", "legacy", "add"}
    BY DEF next
  <2>4. /\ Installs(run') <=> Installs(run)
        /\ UsesCli(run') <=> UsesCli(run)
    BY <2>1 DEF Installs, UsesCli
  <2>5. next = "add" => Installs(run) /\ (UsesCli(run) => ~present)
    BY <1>0, RunFacts DEF next, Installs
  <2>6. (next = "drop" => present) /\ (Installs(run) /\ next = "drop" => UsesCli(run))
    BY <1>0, RunFacts DEF next, Installs
  <2>7. next = "legacy" => FirstPart(run, docs)
    BY <1>0, RunFacts DEF next, Installs, FirstPart, now, present
  <2>8. RunShape(run', docs')
    BY <1>0, <2>1, <2>2, <2>3, <2>4, <2>5, RunFacts DEF RunShape, AgentStages
  <2>9. RunKeeps(run', docs')
    BY <1>0, <1>2, <2>1, <2>2, <2>3, <2>4, <2>5, <2>6 DEF RunKeeps, Known
  <2>10. RunReports(run', docs')
    <3>1. run'.at = "legacy" /\ ~run.req.dry => FirstPart(run', docs')
      BY <1>0, <2>1, <2>3, <2>7 DEF FirstPart, Installs
    <3> QED
      BY <2>1, <2>3, <3>1 DEF RunReports
  <2> QED
    BY <2>8, <2>9, <2>10 DEF AgentFits
<1> QED
  BY <1>3, <1>4 DEF ProbeAgent

\* A server goes from the agent's documents, at once or by way of a document to store.
LEMMA DropFits ==
  ASSUME AgentInv, NEW name \in Names, NEW next \in {"legacy", "rules", "add"}, DropEntry(name, next),
         AgentEntries(docs, name) # {}, run.at \in {"drop", "legacy"}, run.at = "legacy" => name = LEGACY /\ next = "rules",
         run.at = "drop" => name = SERVER_NAME /\ next = IF Installs(run) THEN "add" ELSE "legacy"
  PROVE  AgentFits(run', docs')
<1> DEFINE less == remove(docs, name)
<1>0. run.at \in AgentStages
  BY DEF AgentStages
<1>1. /\ Documents(less) /\ (name = LEGACY /\ HasServer(docs) => HasServer(less)) /\ DOMAIN less = DOMAIN docs
      /\ name = LEGACY => KeepsServer(docs, less)
      /\ \A i \in DOMAIN docs \ AgentEntries(docs, name) : \A n \in Names : less[i][n] = docs[i][n]
  BY <1>0, RunFacts, RemoveFacts DEF HasServer, KeepsServer
<1>2. /\ Installs(run) /\ run.had => HasServer(docs)
      /\ Installs(run) /\ run.at = "drop" => Cli /\ run.seen \in Known
  BY <1>0, RunFacts DEF AgentInv, AgentFits, RunKeeps
<1>3. next # "add" /\ ~run.req.dry => FirstPart(run, less)
  <2>1. CASE run.at = "legacy"
    <3>1. ~run.req.dry => FirstPart(run, docs)
      BY <2>1 DEF AgentInv, AgentFits, RunReports
    <3>2. /\ probe(less, SERVER_NAME) = probe(docs, SERVER_NAME)
          /\ \A t : Present(t, less, SERVER_NAME) <=> Present(t, docs, SERVER_NAME)
      BY <1>0, <2>1, RunFacts, RemoveFacts
    <3> HIDE DEF less
    <3> QED
      BY <3>1, <3>2 DEF FirstPart
  <2>2. CASE run.at = "drop"
    <3>1. \A t : ~Present(t, less, name)
      BY <1>0, RunFacts, RemoveFacts
    <3> HIDE DEF less
    <3> QED
      BY <2>2, <3>1 DEF FirstPart
  <2> QED
    BY <2>1, <2>2
<1>4. next = "rules" => SecondPart(run, less)
  <2>1. \A t : ~Present(t, less, name)
    BY <1>0, RunFacts, RemoveFacts
  <2> HIDE DEF less
  <2> QED
    BY <2>1 DEF SecondPart
<1>5. CASE Cli /\ docs' = less /\ GoesTo(next)
  <2>1. /\ DOMAIN run' = RunFields /\ run'.at = next /\ run'.req = run.req /\ run'.spec = run.spec
        /\ run'.seen = run.seen /\ run'.had = run.had /\ run'.failures = run.failures
    BY <1>0, <1>5, RunFacts, MovesTo DEF GoesTo
  <2> HIDE DEF less
  <2>2. /\ (Installs(run') <=> Installs(run)) /\ (UsesCli(run') <=> UsesCli(run))
        /\ (FirstPart(run', docs') <=> FirstPart(run, less)) /\ (SecondPart(run', docs') <=> SecondPart(run, less))
    BY <1>5, <2>1 DEF Installs, UsesCli, FirstPart, SecondPart
  <2>3. RunShape(run', docs')
    BY <1>0, <1>1, <1>5, <2>1, <2>2, RunFacts DEF RunShape, AgentStages
  <2>4. RunKeeps(run', docs')
    BY <1>0, <1>1, <1>2, <1>5, <2>1, <2>2, RunFacts DEF RunKeeps
  <2>5. RunReports(run', docs')
    BY <1>3, <1>4, <2>1, <2>2 DEF RunReports
  <2> QED
    BY <2>3, <2>4, <2>5 DEF AgentFits
<1>6. CASE run' = [run EXCEPT !.at = "failed", !.failures = @ + 1] /\ UNCHANGED docs
  <2>1. /\ DOMAIN run' = RunFields /\ run'.at = "failed" /\ run'.req = run.req /\ run'.had = run.had
        /\ run'.failures \in Nat /\ docs' = docs
    BY <1>0, <1>6, RunFacts DEF RunFields
  <2> QED
    BY <1>0, <1>2, <2>1, RunFacts, FailFits
<1>7. CASE /\ ~Cli /\ UNCHANGED docs
           /\ run' = [run EXCEPT !.at = "store", !.after = next, !.doc = less, !.left = AgentEntries(docs, name)]
  <2> HIDE DEF less
  <2>1. /\ DOMAIN run' = RunFields /\ run'.at = "store" /\ run'.req = run.req /\ run'.spec = run.spec
        /\ run'.had = run.had /\ run'.failures = run.failures
        /\ run'.doc = less /\ run'.after = next /\ run'.left = AgentEntries(docs, name) /\ docs' = docs
    BY <1>0, <1>7, RunFacts DEF RunFields
  <2>2. /\ (Installs(run') <=> Installs(run)) /\ (UsesCli(run') <=> UsesCli(run))
        /\ (FirstPart(run', run'.doc) <=> FirstPart(run, less)) /\ (SecondPart(run', run'.doc) <=> SecondPart(run, less))
    BY <2>1 DEF Installs, UsesCli, FirstPart, SecondPart
  <2>a. next # "add"
    BY <1>0, <1>2, <1>7
  <2>b. AgentEntries(docs, name) \in SUBSET DOMAIN docs /\ AgentEntries(docs, name) # {}
    BY DEF AgentEntries
  <2>3. RunShape(run', docs')
    BY <1>0, <1>1, <1>7, <2>1, <2>2, <2>a, <2>b, RunFacts DEF RunShape, AgentStages
  <2>4. RunKeeps(run', docs')
    BY <1>0, <1>1, <1>2, <1>7, <2>1, <2>2, RunFacts DEF RunKeeps
  <2>5. RunReports(run', docs')
    BY <1>3, <1>4, <2>1, <2>2, <2>a DEF RunReports
  <2> QED
    BY <2>3, <2>4, <2>5 DEF AgentFits
<1>8. CASE Fail /\ UNCHANGED docs
  <2>1. /\ DOMAIN run' = RunFields /\ run'.at = "failed" /\ run'.req = run.req /\ run'.had = run.had
        /\ run'.failures = run.failures /\ docs' = docs
    BY <1>0, <1>8, RunFacts, MovesTo DEF Fail
  <2> QED
    BY <1>0, <1>2, <2>1, RunFacts, FailFits
<1> QED
  BY <1>5, <1>6, <1>7, <1>8 DEF DropEntry

LEMMA AddFits ==
  ASSUME AgentInv, Add
  PROVE  AgentFits(run', docs')
<1> DEFINE more == merge(docs, SERVER_NAME, run.spec)
<1>0. run.at = "add" /\ run.at \in AgentStages
  BY DEF Add, AgentStages
<1>1. Installs(run) /\ run.req.mcp /\ run.spec \in Known
  BY <1>0, RunFacts DEF AgentInv, AgentFits, RunShape
<1>2. run.had => IF UsesCli(run) THEN run.seen \in Known ELSE HasServer(docs)
  BY <1>0 DEF AgentInv, AgentFits, RunKeeps
<1>3. /\ Documents(more) /\ HasServer(more) /\ probe(more, SERVER_NAME) = run.spec /\ DOMAIN more = DOMAIN docs
      /\ KeepsServer(docs, more) /\ \A i \in DOMAIN docs \ {Len(docs)} : more[i] = docs[i]
  BY <1>0, <1>1, RunFacts, MergeFacts DEF Known
<1>a. Len(docs) \in DOMAIN docs
  BY <1>0, RunFacts, DocumentFacts
<1>4. FirstPart(run, more)
  BY <1>1, <1>3 DEF FirstPart
<1> HIDE DEF more
<1>5. CASE docs' = more /\ GoesTo("legacy")
  <2>1. /\ DOMAIN run' = RunFields /\ run'.at = "legacy" /\ run'.req = run.req /\ run'.spec = run.spec
        /\ run'.seen = run.seen /\ run'.had = run.had /\ run'.failures = run.failures
    BY <1>0, <1>5, RunFacts, MovesTo DEF GoesTo
  <2>2. Installs(run') /\ FirstPart(run', docs')
    BY <1>1, <1>4, <1>5, <2>1 DEF Installs, FirstPart
  <2>3. RunShape(run', docs')
    BY <1>0, <1>1, <1>3, <1>5, <2>1, <2>2, RunFacts DEF RunShape, AgentStages
  <2>4. RunKeeps(run', docs')
    BY <1>3, <1>5, <2>1 DEF RunKeeps
  <2>5. RunReports(run', docs')
    BY <2>1, <2>2 DEF RunReports
  <2> QED
    BY <2>3, <2>4, <2>5 DEF AgentFits
<1>6. CASE /\ Cli /\ UNCHANGED docs
           /\ run' = [run EXCEPT !.failures = @ + 1, !.at = IF run.seen = "none" THEN "failed" ELSE "restore"]
  <2>1. /\ DOMAIN run' = RunFields /\ run'.at = (IF run.seen = "none" THEN "failed" ELSE "restore")
        /\ run'.req = run.req /\ run'.spec = run.spec
        /\ run'.seen = run.seen /\ run'.had = run.had /\ run'.failures = run.failures + 1 /\ docs' = docs
    BY <1>0, <1>6, RunFacts DEF RunFields
  <2>2. CASE run.seen = "none"
    <3>1. ~run.had
      BY <1>0, <1>2, <1>6, <2>2, RunFacts DEF Known
    <3> QED
      BY <1>0, <2>1, <2>2, <3>1, RunFacts, FailFits
  <2>3. CASE run.seen # "none"
    <3>1. Installs(run') /\ UsesCli(run')
      BY <1>0, <1>1, <1>6, <2>1, RunFacts DEF Installs, UsesCli
    <3>2. RunShape(run', docs')
      BY <1>0, <1>1, <2>1, <2>3, <3>1, RunFacts DEF RunShape, AgentStages
    <3>3. run.seen \in Known
      BY <1>0, <2>3 DEF AgentInv, AgentFits, RunKeeps
    <3>4. RunKeeps(run', docs')
      BY <2>1, <2>3, <3>3 DEF RunKeeps
    <3>5. RunReports(run', docs')
      BY <2>1, <2>3 DEF RunReports
    <3> QED
      BY <3>2, <3>4, <3>5 DEF AgentFits
  <2> QED
    BY <2>2, <2>3
<1>7. CASE /\ ~Cli /\ UNCHANGED docs
           /\ run' = [run EXCEPT !.at = "store", !.after = "legacy", !.doc = more, !.left = {Len(docs)}]
  <2>1. /\ DOMAIN run' = RunFields /\ run'.at = "store" /\ run'.req = run.req /\ run'.spec = run.spec
        /\ run'.had = run.had /\ run'.failures = run.failures
        /\ run'.doc = more /\ run'.after = "legacy" /\ run'.left = {Len(docs)} /\ docs' = docs
    BY <1>0, <1>7, RunFacts DEF RunFields
  <2>2. Installs(run') /\ FirstPart(run', run'.doc) /\ ~UsesCli(run') /\ ~UsesCli(run)
    BY <1>0, <1>1, <1>4, <1>7, <2>1, RunFacts DEF Installs, FirstPart, UsesCli
  <2>3. RunShape(run', docs')
    BY <1>0, <1>1, <1>3, <1>a, <2>1, <2>2, RunFacts DEF RunShape, AgentStages
  <2>4. RunKeeps(run', docs')
    BY <1>2, <1>3, <2>1, <2>2 DEF RunKeeps
  <2>5. RunReports(run', docs')
    BY <2>1, <2>2 DEF RunReports
  <2> QED
    BY <2>3, <2>4, <2>5 DEF AgentFits
<1>8. CASE ~Cli /\ Fail /\ UNCHANGED docs
  <2>1. /\ DOMAIN run' = RunFields /\ run'.at = "failed" /\ run'.req = run.req /\ run'.had = run.had
        /\ run'.failures = run.failures /\ docs' = docs
    BY <1>0, <1>8, RunFacts, MovesTo DEF Fail
  <2> QED
    BY <1>0, <1>2, <1>8, <2>1, RunFacts, FailFits
<1> QED
  BY <1>5, <1>6, <1>7, <1>8 DEF Add, more

LEMMA RestoreFits ==
  ASSUME AgentInv, Restore
  PROVE  AgentFits(run', docs')
<1> DEFINE again == merge(docs, SERVER_NAME, run.seen)
<1>0. run.at = "restore" /\ run.at \in AgentStages
  BY DEF Restore, AgentStages
<1>1. run.seen \in Known /\ run.failures > 0
  BY <1>0 DEF AgentInv, AgentFits, RunKeeps, RunShape
<1>2. Documents(again) /\ HasServer(again)
  BY <1>0, <1>1, RunFacts, MergeFacts DEF Known
<1> HIDE DEF again
<1>3. CASE docs' = again /\ Fail
  <2>1. /\ DOMAIN run' = RunFields /\ run'.at = "failed" /\ run'.req = run.req /\ run'.had = run.had
        /\ run'.failures = run.failures
    BY <1>0, <1>3, RunFacts, MovesTo DEF Fail
  <2> QED
    BY <1>0, <1>2, <1>3, <2>1, RunFacts, FailFits
<1>4. CASE run' = [run EXCEPT !.at = "failed", !.failures = @ + 1] /\ UNCHANGED docs
  <2>1. /\ DOMAIN run' = RunFields /\ run'.at = "failed" /\ run'.req = run.req /\ run'.had = run.had
        /\ run'.failures = run.failures + 1 /\ docs' = docs
    BY <1>0, <1>4, RunFacts DEF RunFields
  <2>2. run'.failures \in Nat /\ ~(run'.failures < 2)
    BY <1>0, <1>1, <2>1, RunFacts
  <2> QED
    BY <1>0, <2>1, <2>2, RunFacts, FailFits
<1> QED
  BY <1>3, <1>4 DEF Restore, again

LEMMA StoreFits ==
  ASSUME AgentInv, Store
  PROVE  AgentFits(run', docs')
<1>0. run.at = "store" /\ run.at \in AgentStages /\ Documents(docs)
  BY RunFacts DEF Store, AgentStages
<1>1. /\ Documents(run.doc) /\ ~UsesCli(run) /\ run.after \in {"legacy", "rules"}
      /\ DOMAIN run.doc = DOMAIN docs /\ run.left \in SUBSET DOMAIN docs /\ run.left # {}
      /\ \A i \in DOMAIN docs \ run.left : \A name \in Names : run.doc[i][name] = docs[i][name]
      /\ Installs(run) /\ run.had => HasServer(docs)
      /\ Installs(run) => KeepsServer(docs, run.doc)
      /\ ~run.req.dry => /\ FirstPart(run, run.doc)
                         /\ run.after = "rules" => SecondPart(run, run.doc)
  BY <1>0 DEF AgentInv, AgentFits, RunKeeps, RunShape, RunReports
<1>2. CASE /\ docs' = [docs EXCEPT ![StoreNext] = run.doc[StoreNext]]
           /\ run' = [run EXCEPT !.left = @ \ {StoreNext},
                                 !.at = IF run.left = {StoreNext} THEN run.after ELSE "store"]
  <2> DEFINE k == StoreNext
  <2>1. k \in run.left /\ k \in DOMAIN docs
    <3>1. run.left \in SUBSET Nat
      BY <1>0, <1>1, DocumentFacts
    <3> QED
      BY <1>1, <3>1, FirstOf DEF StoreNext
  <2>2. /\ DOMAIN run' = RunFields /\ run'.req = run.req /\ run'.spec = run.spec
        /\ run'.had = run.had /\ run'.failures = run.failures /\ run'.doc = run.doc /\ run'.after = run.after
        /\ run'.left = run.left \ {k} /\ run'.at = IF run.left = {k} THEN run.after ELSE "store"
    BY <1>0, <1>2, RunFacts DEF RunFields
  <2>3. docs' = [docs EXCEPT ![k] = run.doc[k]]
    BY <1>2
  <2> HIDE DEF k
  <2>4. DOMAIN docs' = DOMAIN docs /\ docs'[k] = run.doc[k] /\ \A i \in DOMAIN docs \ {k} : docs'[i] = docs[i]
    BY <2>1, <2>3
  <2>5. Documents(docs')
    <3>1. run.doc[k] \in AgentDocument
      BY <1>1, <2>1, DocumentFacts
    <3>2. docs' \in Seq(AgentDocument) /\ Len(docs') = Len(docs)
      BY <1>0, <2>1, <2>3, <3>1, DocumentFacts, ExceptSeq DEF Documents, Agents
    <3> QED
      BY <1>0, <3>2, DocumentFacts, EmptySeq DEF Documents, Agents
  <2>6. \A i \in DOMAIN docs \ run'.left : \A name \in Names : run.doc[i][name] = docs'[i][name]
    BY <1>1, <2>2, <2>4
  <2>7. Installs(run) => KeepsServer(docs', run.doc)
    BY <1>1, <2>4 DEF KeepsServer, AgentEntries
  <2>8. Installs(run) /\ run.had => HasServer(docs')
    BY <1>1, <2>4 DEF KeepsServer, AgentEntries, HasServer
  <2>9. run.left = {k} => \A name \in Names : Agree(run.doc, docs', name)
    BY <1>1, <2>2, <2>4, <2>6 DEF Agree
  <2>10. run.left = {k} => /\ FirstPart(run, run.doc) => FirstPart(run, docs')
                           /\ SecondPart(run, run.doc) => SecondPart(run, docs')
    <3>1. SERVER_NAME \in Names /\ LEGACY \in Names
      BY DEF Names
    <3>2. CASE run.left = {k}
      <4>1. /\ probe(docs', SERVER_NAME) = probe(run.doc, SERVER_NAME)
            /\ \A t : Present(t, docs', SERVER_NAME) <=> Present(t, run.doc, SERVER_NAME)
        BY <1>1, <2>9, <3>1, <3>2, AgreeFacts
      <4>2. \A t : Present(t, docs', LEGACY) <=> Present(t, run.doc, LEGACY)
        BY <1>1, <2>9, <3>1, <3>2, AgreeFacts
      <4> QED
        BY <4>1, <4>2 DEF FirstPart, SecondPart
    <3> QED
      BY <3>2
  <2>11. /\ (Installs(run') <=> Installs(run)) /\ (UsesCli(run') <=> UsesCli(run))
         /\ \A d : (FirstPart(run', d) <=> FirstPart(run, d)) /\ (SecondPart(run', d) <=> SecondPart(run, d))
    BY <2>2 DEF Installs, UsesCli, FirstPart, SecondPart
  <2>12. run'.left \in SUBSET DOMAIN docs' /\ (run'.at = "store" => run'.left # {})
    BY <1>1, <2>1, <2>2, <2>4
  <2>13. RunShape(run', docs')
    <3>1. run'.at \in {"store", "legacy", "rules"} /\ run'.at \in AgentStages
      BY <1>1, <2>2 DEF AgentStages
    <3> QED
      BY <1>0, <1>1, <2>2, <2>4, <2>5, <2>6, <2>11, <2>12, <3>1, RunFacts DEF RunShape
  <2>14. RunKeeps(run', docs')
    BY <1>1, <2>2, <2>7, <2>8, <2>11 DEF RunKeeps
  <2>15. RunReports(run', docs')
    BY <1>1, <2>2, <2>10, <2>11 DEF RunReports
  <2> QED
    BY <2>13, <2>14, <2>15 DEF AgentFits
<1>3. CASE Fail /\ UNCHANGED docs
  <2>1. /\ DOMAIN run' = RunFields /\ run'.at = "failed" /\ run'.req = run.req /\ run'.had = run.had
        /\ run'.failures = run.failures /\ docs' = docs
    BY <1>0, <1>3, RunFacts, MovesTo DEF Fail
  <2> QED
    BY <1>0, <1>1, <2>1, RunFacts, FailFits
<1> QED
  BY <1>2, <1>3 DEF Store

\* A step of the run that leaves the documents alone and goes on to where what is known
\* of them is enough.
LEMMA GoesOnFits ==
  ASSUME AgentInv, run.at \in {"legacy", "rules", "write"}, NEW x \in {"rules", "write", "done"},
         DOMAIN run' = RunFields, run'.at = x, run'.req = run.req, run'.spec = run.spec, run'.had = run.had,
         run'.failures = run.failures, UNCHANGED docs,
         run.at = "legacy" /\ ~run.req.dry => ~Present(run.req.target, docs, LEGACY)
  PROVE  AgentFits(run', docs')
<1>0. run.at \in AgentStages
  BY DEF AgentStages
<1>1. /\ Installs(run) /\ run.had => HasServer(docs)
      /\ ~run.req.dry => FirstPart(run, docs)
      /\ ~run.req.dry /\ run.at # "legacy" => SecondPart(run, docs)
  BY DEF AgentInv, AgentFits, RunKeeps, RunReports
<1>2. ~run.req.dry => SecondPart(run, docs)
  BY <1>1 DEF SecondPart
<1>3. /\ (Installs(run') <=> Installs(run))
      /\ (FirstPart(run', docs') <=> FirstPart(run, docs)) /\ (SecondPart(run', docs') <=> SecondPart(run, docs))
  BY DEF Installs, FirstPart, SecondPart
<1>4. RunShape(run', docs')
  BY <1>0, <1>3, RunFacts DEF RunShape, AgentStages, Over
<1>5. RunKeeps(run', docs')
  BY <1>1, <1>3 DEF RunKeeps
<1>6. RunReports(run', docs')
  BY <1>1, <1>2, <1>3 DEF RunReports
<1> QED
  BY <1>4, <1>5, <1>6 DEF AgentFits

LEMMA LateFailFits ==
  ASSUME AgentInv, run.at \in {"legacy", "rules", "write"}, Fail, UNCHANGED docs
  PROVE  AgentFits(run', docs')
<1>0. run.at \in AgentStages
  BY DEF AgentStages
<1>1. /\ DOMAIN run' = RunFields /\ run'.at = "failed" /\ run'.req = run.req /\ run'.had = run.had
      /\ run'.failures = run.failures
  BY <1>0, RunFacts, MovesTo DEF Fail
<1>2. Installs(run) /\ run.had => HasServer(docs)
  BY DEF AgentInv, AgentFits, RunKeeps
<1> QED
  BY <1>0, <1>1, <1>2, RunFacts, FailFits

LEMMA LegacyFits ==
  ASSUME AgentInv, Legacy
  PROVE  AgentFits(run', docs')
<1>0. run.at = "legacy" /\ run.at \in AgentStages /\ LEGACY \in Names
  BY DEF Legacy, AgentStages, Names
<1>1. CASE Fail /\ UNCHANGED docs
  BY <1>0, <1>1, LateFailFits
<1>2. CASE DropEntry(LEGACY, "rules") /\ Present(run.req.target, docs, LEGACY)
  <2>1. AgentEntries(docs, LEGACY) # {}
    BY <1>0, <1>2, RunFacts, PresentFacts
  <2> QED
    BY <1>0, <1>2, <2>1, DropFits
<1>3. CASE /\ run' = [run EXCEPT !.at = "rules"] /\ UNCHANGED docs
           /\ ~(Present(run.req.target, docs, LEGACY) /\ ~run.req.dry)
  <2>1. /\ DOMAIN run' = RunFields /\ run'.at = "rules" /\ run'.req = run.req /\ run'.spec = run.spec
        /\ run'.had = run.had /\ run'.failures = run.failures
    BY <1>0, <1>3, RunFacts, MovesTo
  <2> QED
    BY <1>0, <1>3, <2>1, GoesOnFits
<1> QED
  BY <1>1, <1>2, <1>3 DEF Legacy, GoesTo

LEMMA RulesFits ==
  ASSUME AgentInv, RulesRead \/ RulesWrite
  PROVE  AgentFits(run', docs')
<1>0. run.at \in {"rules", "write"} /\ run.at \in AgentStages /\ UNCHANGED docs
  BY DEF RulesRead, RulesWrite, AgentStages
<1>1. CASE Fail
  BY <1>0, <1>1, LateFailFits
<1>2. CASE GoesTo("done")
  <2>1. /\ DOMAIN run' = RunFields /\ run'.at = "done" /\ run'.req = run.req /\ run'.spec = run.spec
        /\ run'.had = run.had /\ run'.failures = run.failures
    BY <1>0, <1>2, RunFacts, MovesTo DEF GoesTo
  <2> QED
    BY <1>0, <2>1, GoesOnFits
<1>3. CASE \E x : run' = [run EXCEPT !.at = "write", !.text = x]
  <2>1. /\ DOMAIN run' = RunFields /\ run'.at = "write" /\ run'.req = run.req /\ run'.spec = run.spec
        /\ run'.had = run.had /\ run'.failures = run.failures
    BY <1>0, <1>3, RunFacts DEF RunFields
  <2> QED
    BY <1>0, <2>1, GoesOnFits
<1>4. RulesRead => Fail \/ GoesTo("done") \/ \E x : run' = [run EXCEPT !.at = "write", !.text = x]
  BY DEF RulesRead
<1>5. RulesWrite => Fail \/ GoesTo("done")
  BY DEF RulesWrite
<1> QED
  BY <1>1, <1>2, <1>3, <1>4, <1>5

LEMMA KillFits ==
  ASSUME AgentInv, Kill
  PROVE  AgentFits(run', docs')
<1>1. /\ DOMAIN run' = RunFields /\ run'.at = "idle" /\ run'.req = [op |-> "none"] /\ run'.failures = 2
      /\ run'.had \in BOOLEAN
  BY DEF Kill, NoRun, RunFields
<1>2. Documents(docs')
  BY DEF AgentInv, AgentFits, RunShape, Kill, worldVars
<1>3. RunShape(run', docs')
  BY <1>1, <1>2 DEF RunShape, Over, AgentStages
<1>4. RunKeeps(run', docs')
  BY <1>1 DEF RunKeeps
<1>5. RunReports(run', docs')
  BY <1>1 DEF RunReports
<1> QED
  BY <1>3, <1>4, <1>5 DEF AgentFits

LEMMA EditFits ==
  ASSUME AgentInv, EditDocument
  PROVE  AgentFits(run', docs')
<1>0. Documents(docs) /\ run' = run
  BY DEF AgentInv, AgentFits, RunShape, EditDocument
<1>1. PICK i \in DOMAIN docs : docs' = [docs EXCEPT ![i].rest = @ + 1]
  BY DEF EditDocument
<1> DEFINE new == [docs[i] EXCEPT !.rest = @ + 1]
<1>2. docs' = [docs EXCEPT ![i] = new]
  BY <1>1
<1>3. new \in AgentDocument /\ new["aihelper"] = docs[i]["aihelper"] /\ new["ah"] = docs[i]["ah"]
  BY <1>0, DocumentFacts DEF AgentDocument
<1> HIDE DEF new
<1>4. docs' \in Seq(AgentDocument) /\ Len(docs') = Len(docs) /\ DOMAIN docs' = DOMAIN docs
  BY <1>0, <1>2, <1>3, DocumentFacts, ExceptSeq DEF Documents, Agents
<1>5. Documents(docs')
  BY <1>0, <1>4, DocumentFacts, EmptySeq DEF Documents, Agents
<1>6. \A name \in Names : Agree(docs, docs', name)
  BY <1>0, <1>2, <1>3, <1>4, DocumentFacts DEF Agree, Names, SERVER_NAME, LEGACY
<1> QED
  BY <1>0, <1>5, <1>6, AgreeFits DEF AgentInv

LEMMA AgentInitInv ==
  AgentInit => AgentInv
<1> SUFFICES ASSUME AgentInit PROVE AgentInv
  OBVIOUS
<1>1. /\ DOMAIN run = RunFields /\ run.at = "idle" /\ run.req = [op |-> "none"] /\ run.failures = 0
      /\ run.had \in BOOLEAN
  BY DEF AgentInit, NoRun, RunFields
<1>2. Documents(docs)
  BY AgentAssumption DEF AgentInit, Documents, Agents
<1>3. RunShape(run, docs)
  BY <1>1, <1>2 DEF RunShape, Over, AgentStages
<1>4. RunKeeps(run, docs) /\ RunReports(run, docs)
  BY <1>1 DEF RunKeeps, RunReports
<1> QED
  BY <1>3, <1>4 DEF AgentFits, AgentInv

LEMMA AgentStep ==
  AgentInv /\ [AgentNext]_agentVars => AgentInv'
<1> SUFFICES ASSUME AgentInv, [AgentNext]_agentVars PROVE AgentFits(run', docs')
  BY DEF AgentInv
<1>1. CASE \E req \in Requests : BeginInstall(req) \/ BeginUninstall(req)
  BY <1>1, BeginFits
<1>2. CASE Confirm \/ EnsureReady
  BY <1>2, ConfirmFits, EnsureFits
<1>3. CASE ProbeAgent
  BY <1>3, ProbeFits
<1>4. CASE Drop
  <2>1. run.at = "drop" /\ DropEntry(SERVER_NAME, IF Installs(run) THEN "add" ELSE "legacy") /\ SERVER_NAME \in Names
        /\ AgentEntries(docs, SERVER_NAME) # {}
    BY <1>4 DEF Drop, Installs, Names, AgentInv, AgentFits, RunKeeps, HasServer
  <2> QED
    BY <2>1, DropFits
<1>5. CASE Add
  BY <1>5, AddFits
<1>6. CASE Restore
  BY <1>6, RestoreFits
<1>7. CASE Store
  BY <1>7, StoreFits
<1>8. CASE Legacy
  BY <1>8, LegacyFits
<1>9. CASE RulesRead \/ RulesWrite
  BY <1>9, RulesFits
<1>10. CASE Kill
  BY <1>10, KillFits
<1>11. CASE EditDocument
  BY <1>11, EditFits
<1>12. CASE EditRules \/ ServiceChanges \/ UNCHANGED agentVars
  BY <1>12 DEF EditRules, ServiceChanges, agentVars, AgentInv
<1> QED
  BY <1>1, <1>2, <1>3, <1>4, <1>5, <1>6, <1>7, <1>8, <1>9, <1>10, <1>11, <1>12 DEF AgentNext

LEMMA AgentInvSound ==
  ASSUME AgentInv
  PROVE  RegistrationAsReported /\ ReplacementKeepsOne
<1>1. ReplacementKeepsOne
  BY DEF AgentInv, AgentFits, RunKeeps, Installs, HasServer, ReplacementKeepsOne
<1>2. run.at = "done" /\ ~run.req.dry => FirstPart(run, docs) /\ SecondPart(run, docs)
  BY DEF AgentInv, AgentFits, RunReports
<1>3. RegistrationAsReported
  BY <1>2 DEF RegistrationAsReported, FirstPart, SecondPart, Installs, Names
<1> QED
  BY <1>1, <1>3

\* Documents whose other settings are the same.
SameRest(d, e) ==
    DOMAIN e = DOMAIN d /\ \A i \in DOMAIN d : e[i].rest = d[i].rest /\ e[i].stray = d[i].stray

\* A document still to store has the settings that the agent's has, but for those written
\* since it was read and for what the registration displaces.
Displaces(i) ==
    /\ docs[i].stray # "none" /\ Installs(run) /\ MakesRoom(run.req.target)
    /\ run.doc[i].aihelper = run.spec
Carried(i) ==
    /\ run.doc[i].stray = docs[i].stray \/ Displaces(i)
    /\ run.doc[i].rest + raced >= docs[i].rest \/ (docs[i].stray = "root" /\ Displaces(i))
RestInv == raced \in Nat /\ (run.at = "store" => \A i \in run.left : Carried(i))

LEMMA RestFacts ==
  ASSUME NEW d, Documents(d)
  PROVE  /\ \A i \in DOMAIN d : d[i].rest \in Nat
         /\ \A name \in Names : SameRest(d, remove(d, name))
<1>0. /\ DOMAIN d = 1..Len(d)
      /\ \A i \in DOMAIN d : DOMAIN d[i] = {"aihelper", "ah", "rest", "sound", "stray"} /\ d[i] \in AgentDocument
  BY DocumentFacts
<1>1. \A i \in DOMAIN d : d[i].rest \in Nat
  BY <1>0 DEF AgentDocument
<1>2. \A name \in Names : SameRest(d, remove(d, name))
  BY <1>0 DEF SameRest, remove, Names, SERVER_NAME, LEGACY
<1> QED
  BY <1>1, <1>2

LEMMA MergedRest ==
  ASSUME NEW d, Documents(d), NEW spec \in Known, d[Len(d)].stray = "none"
  PROVE  SameRest(d, merge(d, SERVER_NAME, spec))
<1> DEFINE e == merge(d, SERVER_NAME, spec)
<1>1. /\ DOMAIN e = DOMAIN d /\ \A i \in DOMAIN d \ {Len(d)} : e[i] = d[i]
      /\ e[Len(d)].stray = "none" /\ e[Len(d)].rest = d[Len(d)].rest
  BY MergeFacts DEF Known
<1> HIDE DEF e
<1> QED
  BY <1>1 DEF SameRest, e

LEMMA RestStep ==
  ASSUME AgentInv, RestInv, [AgentNext]_agentVars
  PROVE  RestInv' /\ SettingsStay
<1>0. /\ Documents(docs) /\ DOMAIN run = RunFields /\ raced \in Nat
      /\ \A i \in DOMAIN docs : docs[i].rest \in Nat
  <2>1. Documents(docs) /\ DOMAIN run = RunFields /\ raced \in Nat
    BY DEF AgentInv, AgentFits, RunShape, RestInv
  <2> QED
    BY <2>1, RestFacts
<1>a. \A i \in DOMAIN docs : docs[i].rest + raced >= docs[i].rest
  BY <1>0
<1>1. ASSUME SameRest(docs, docs') PROVE SettingsStay
  BY <1>a, <1>1 DEF SameRest, SettingsStay
<1>2. ASSUME UNCHANGED docs PROVE SettingsStay
  BY <1>a, <1>2 DEF SettingsStay
<1>3. CASE \E req \in Requests : BeginInstall(req) \/ BeginUninstall(req)
  <2>1. PICK req \in Requests : BeginInstall(req) \/ BeginUninstall(req)
    BY <1>3
  <2>2. UNCHANGED docs /\ raced' = 0
    BY <2>1 DEF BeginInstall, BeginUninstall
  <2>3. run'.at \in {"failed", "ensure", "panicked", "confirm", "probe"}
    BY <2>1 DEF BeginInstall, BeginUninstall, NoRun
  <2> QED
    BY <1>2, <2>2, <2>3 DEF RestInv
<1>4. CASE Confirm \/ EnsureReady \/ RulesWrite
  <2>1. UNCHANGED docs /\ run'.at # "store" /\ raced' = raced
    BY <1>0, <1>4 DEF Confirm, EnsureReady, RulesWrite, worldVars, GoesTo, Fail, RunFields
  <2> QED
    BY <1>0, <1>2, <2>1 DEF RestInv
<1>5. CASE ProbeAgent
  <2>1. UNCHANGED docs /\ run'.at # "store" /\ raced' = raced
    BY <1>0, <1>5 DEF ProbeAgent, worldVars, Fail, RunFields
  <2> QED
    BY <1>0, <1>2, <2>1 DEF RestInv
<1>6. ASSUME NEW name \in Names, NEW next \in {"add", "legacy", "rules"}, DropEntry(name, next)
      PROVE  RestInv' /\ SettingsStay
  <2> DEFINE less == remove(docs, name)
  <2>1. SameRest(docs, less)
    BY <1>0, RestFacts
  <2> HIDE DEF less
  <2>2. \/ docs' = less /\ run'.at # "store" /\ raced' = raced
        \/ UNCHANGED docs /\ run'.at # "store" /\ raced' = raced
        \/ UNCHANGED docs /\ run'.doc = less /\ raced' = 0 /\ run'.left = AgentEntries(docs, name)
    BY <1>0, <1>6 DEF DropEntry, GoesTo, Fail, RunFields, less
  <2>3. CASE UNCHANGED docs /\ run'.doc = less /\ raced' = 0 /\ run'.left = AgentEntries(docs, name)
    <3>1. \A i \in run'.left : i \in DOMAIN docs /\ less[i].stray = docs[i].stray /\ less[i].rest = docs[i].rest
      BY <2>1, <2>3 DEF SameRest, AgentEntries
    <3>2. \A i \in run'.left : docs[i].rest + 0 >= docs[i].rest
      BY <1>0, <3>1
    <3> QED
      BY <1>2, <2>3, <3>1, <3>2 DEF RestInv, Carried
  <2> QED
    BY <1>0, <1>1, <1>2, <2>1, <2>2, <2>3 DEF RestInv
<1>7. CASE Drop
  <2>1. SERVER_NAME \in Names /\ DropEntry(SERVER_NAME, IF run.req.op = "install" THEN "add" ELSE "legacy")
    BY <1>7 DEF Drop, Names
  <2> QED
    BY <1>6, <2>1
<1>8. CASE Add
  <2> DEFINE more == merge(docs, SERVER_NAME, run.spec)
             n == Len(docs)
  <2>1. run.at \in AgentStages /\ run.at = "add"
    BY <1>8 DEF Add, AgentStages
  <2>2. Installs(run) /\ run.spec \in Known /\ (Cli <=> UsesCli(run))
    BY <2>1, RunFacts DEF AgentInv, AgentFits, RunShape
  <2>3. /\ n \in DOMAIN docs /\ more[n].aihelper = run.spec
        /\ docs[n].stray = "none" => more[n].stray = "none"
        /\ docs[n].stray # "root" => more[n].rest = docs[n].rest
    BY <1>0, <2>2, MergeFacts, DocumentFacts DEF Known
  <2>4. docs[n].stray = "none" => SameRest(docs, more)
    BY <1>0, <2>2, MergedRest
  <2> HIDE DEF more
  <2>5. \/ docs' = more /\ run'.at # "store" /\ Cli /\ Mergeable(run.req.target, docs) /\ raced' = raced
        \/ UNCHANGED docs /\ run'.at # "store" /\ raced' = raced
        \/ /\ UNCHANGED docs /\ run'.doc = more /\ run'.left = {n} /\ Mergeable(run.req.target, docs) /\ raced' = 0
           /\ run'.req = run.req /\ run'.spec = run.spec
    BY <1>0, <1>8 DEF Add, GoesTo, Fail, RunFields, more
  <2>6. CASE docs' = more /\ run'.at # "store" /\ Cli /\ Mergeable(run.req.target, docs) /\ raced' = raced
    <3>1. docs[n].stray = "none"
      BY <2>2, <2>6 DEF Mergeable, MakesRoom, UsesCli, TopOf
    <3> QED
      BY <1>0, <1>1, <2>4, <2>6, <3>1 DEF RestInv
  <2>7. CASE UNCHANGED docs /\ run'.at # "store" /\ raced' = raced
    BY <1>0, <1>2, <2>7 DEF RestInv
  <2>8. CASE /\ UNCHANGED docs /\ run'.doc = more /\ run'.left = {n} /\ Mergeable(run.req.target, docs) /\ raced' = 0
             /\ run'.req = run.req /\ run'.spec = run.spec
    <3>1. docs[n].stray = "none" \/ MakesRoom(run.req.target)
      BY <2>8 DEF Mergeable, TopOf
    <3>2. docs[n].rest + 0 >= docs[n].rest
      BY <1>0, <2>3
    <3>3. Carried(n)'
      BY <2>2, <2>3, <2>8, <3>1, <3>2 DEF Carried, Displaces, Installs
    <3> QED
      BY <1>2, <2>8, <3>3 DEF RestInv
  <2> QED
    BY <2>5, <2>6, <2>7, <2>8
<1>9. CASE Restore
  <2> DEFINE again == merge(docs, SERVER_NAME, run.seen)
  <2>1. run.at = "restore" /\ run.seen \in Known /\ UsesCli(run)
    BY <1>9 DEF Restore, AgentInv, AgentFits, RunKeeps, RunShape
  <2>2. docs[Len(docs)].stray = "none" => SameRest(docs, again)
    BY <1>0, <2>1, MergedRest
  <2> HIDE DEF again
  <2>3. /\ run'.at # "store" /\ raced' = raced
        /\ (docs' = again /\ Mergeable(run.req.target, docs)) \/ UNCHANGED docs
    BY <1>0, <1>9 DEF Restore, Fail, RunFields, again
  <2>4. Mergeable(run.req.target, docs) => docs[Len(docs)].stray = "none"
    BY <2>1 DEF Mergeable, MakesRoom, UsesCli, TopOf
  <2> QED
    BY <1>0, <1>1, <1>2, <2>2, <2>3, <2>4 DEF RestInv
<1>10. CASE Store
  <2>1. run.at = "store" /\ run.after \in {"legacy", "rules"} /\ run.left \in SUBSET DOMAIN docs /\ run.left # {}
    BY <1>10 DEF Store, AgentInv, AgentFits, RunShape
  <2>2. \A i \in run.left : Carried(i)
    BY <2>1 DEF RestInv
  <2>3. CASE Fail /\ UNCHANGED <<docs, raced>>
    <3>1. run'.at # "store"
      BY <1>0, <2>3 DEF Fail, RunFields
    <3> QED
      BY <1>0, <1>2, <2>3, <3>1 DEF RestInv
  <2>4. CASE /\ docs' = [docs EXCEPT ![StoreNext] = run.doc[StoreNext]] /\ UNCHANGED raced
             /\ run' = [run EXCEPT !.left = @ \ {StoreNext},
                                   !.at = IF run.left = {StoreNext} THEN run.after ELSE "store"]
    <3> DEFINE k == StoreNext
    <3>1. k \in run.left /\ k \in DOMAIN docs
      <4>1. run.left \in SUBSET Nat
        BY <1>0, <2>1, DocumentFacts
      <4> QED
        BY <2>1, <4>1, FirstOf DEF StoreNext
    <3>2. /\ run'.req = run.req /\ run'.spec = run.spec /\ run'.doc = run.doc /\ run'.left = run.left \ {k}
      BY <1>0, <2>4 DEF RunFields
    <3>3. docs'[k] = run.doc[k] /\ \A i \in DOMAIN docs \ {k} : docs'[i] = docs[i]
      BY <2>4, <3>1
    <3> HIDE DEF k
    <3>4. Carried(k)
      BY <2>2, <3>1
    <3>5. SettingsStay
      BY <1>a, <3>3, <3>4 DEF SettingsStay, Carried, Displaces, Displaced, Installs
    <3>6. \A i \in run.left \ {k} : Carried(i)'
      BY <2>1, <2>2, <2>4, <3>2, <3>3 DEF Carried, Displaces, Installs
    <3> QED
      BY <1>0, <2>4, <3>2, <3>5, <3>6 DEF RestInv
  <2> QED
    BY <1>10, <2>3, <2>4 DEF Store
<1>11. CASE Legacy
  <2>1. CASE DropEntry(LEGACY, "rules")
    BY <1>6, <2>1 DEF Names
  <2>2. CASE (Fail \/ GoesTo("rules")) /\ UNCHANGED <<docs, raced>>
    <3>1. run'.at # "store"
      BY <1>0, <2>2 DEF Fail, GoesTo, RunFields
    <3> QED
      BY <1>0, <1>2, <2>2, <3>1 DEF RestInv
  <2> QED
    BY <1>11, <2>1, <2>2 DEF Legacy
<1>12. CASE RulesRead
  <2>1. /\ UNCHANGED docs /\ raced' = 0
        /\ Fail \/ GoesTo("done") \/ \E x : run' = [run EXCEPT !.at = "write", !.text = x]
    BY <1>12 DEF RulesRead
  <2>2. run'.at \in {"failed", "done", "write"}
    BY <1>0, <2>1 DEF Fail, GoesTo, RunFields
  <2> QED
    BY <1>2, <2>1, <2>2 DEF RestInv
<1>13. CASE Kill
  <2>1. run'.at # "store" /\ UNCHANGED <<docs, raced>>
    BY <1>13 DEF Kill, NoRun, worldVars
  <2> QED
    BY <1>0, <1>2, <2>1 DEF RestInv
<1>14. CASE EditDocument
  <2>1. PICK i \in DOMAIN docs : docs' = [docs EXCEPT ![i].rest = @ + 1]
    BY <1>14 DEF EditDocument
  <2>2. \A j \in DOMAIN docs : /\ docs'[j].stray = docs[j].stray
                               /\ docs'[j].rest = docs[j].rest \/ docs'[j].rest = docs[j].rest + 1
    BY <1>0, <2>1, DocumentFacts
  <2>3. SettingsStay
    <3>1. \A j \in DOMAIN docs : docs'[j].rest + raced >= docs[j].rest
      BY <1>0, <2>2
    <3> QED
      BY <2>2, <3>1 DEF SettingsStay
  <2>4. UNCHANGED run /\ raced' = IF run.at = "store" THEN raced + 1 ELSE raced
    BY <1>14 DEF EditDocument, Counted
  <2>5. CASE run.at = "store"
    <3>1. /\ run.left \in SUBSET DOMAIN docs
          /\ \A j \in run.left : Carried(j)
          /\ \A j \in DOMAIN docs : run.doc[j].rest \in Nat
      <4>1. run.left \in SUBSET DOMAIN docs /\ Documents(run.doc) /\ DOMAIN run.doc = DOMAIN docs
        BY <2>5 DEF AgentInv, AgentFits, RunShape
      <4> QED
        BY <2>5, <4>1, RestFacts DEF RestInv
    <3>2. \A j \in run.left : run.doc[j].rest + raced >= docs[j].rest => run.doc[j].rest + raced' >= docs'[j].rest
      <4>1. \A x, y, z, u \in Nat : x + y >= z /\ (u = z \/ u = z + 1) => x + (y + 1) >= u
        OBVIOUS
      <4> TAKE j \in run.left
      <4>2. docs'[j].rest \in Nat
        BY <1>0, <2>2, <3>1
      <4> QED
        BY <1>0, <2>2, <2>4, <2>5, <3>1, <4>1, <4>2
    <3>3. \A j \in run.left : Carried(j)'
      BY <2>2, <2>4, <3>1, <3>2 DEF Carried, Displaces, Installs
    <3> QED
      BY <1>0, <2>3, <2>4, <2>5, <3>3 DEF RestInv
  <2>6. CASE run.at # "store"
    BY <1>0, <2>3, <2>4, <2>6 DEF RestInv
  <2> QED
    BY <2>5, <2>6
<1>15. CASE EditRules
  <2>1. UNCHANGED <<docs, run>> /\ raced' = IF run.at = "write" THEN raced + 1 ELSE raced
    BY <1>15 DEF EditRules, Counted
  <2>2. raced' \in Nat /\ (run.at = "store" => raced' = raced)
    BY <1>0, <2>1
  <2>3. run.at = "store" => \A i \in run.left : Carried(i)'
    BY <2>1, <2>2 DEF RestInv, Carried, Displaces, Installs
  <2> QED
    BY <1>2, <2>1, <2>2, <2>3 DEF RestInv
<1>16. CASE ServiceChanges \/ UNCHANGED agentVars
  <2>1. UNCHANGED <<docs, run, raced>>
    BY <1>16 DEF ServiceChanges, agentVars
  <2>2. run.at = "store" => \A i \in run.left : Carried(i)'
    BY <2>1 DEF RestInv, Carried, Displaces, Installs
  <2> QED
    BY <1>0, <1>2, <2>1, <2>2 DEF RestInv
<1> QED
  BY <1>3, <1>4, <1>5, <1>7, <1>8, <1>9, <1>10, <1>11, <1>12, <1>13, <1>14, <1>15, <1>16 DEF AgentNext

\* No run, failed, killed or not, takes anything from the agent's documents but its own
\* entries, the edits that fell between its read and its write (atomic_write of what merge
\* and remove made), and what json_config::merge displaces for being no object.
THEOREM SettingsAreKept == AgentSpec => [][SettingsStay]_agentVars
<1>1. AgentInit => AgentInv /\ RestInv
  BY AgentInitInv DEF AgentInit, NoRun, RestInv
<1>2. AgentInv /\ RestInv /\ [AgentNext]_agentVars => (AgentInv /\ RestInv)' /\ [SettingsStay]_agentVars
  BY AgentStep, RestStep
<1> QED
  BY <1>1, <1>2, PTL DEF AgentSpec

-----------------------------------------------------------------------------
(* The rules file.  What a run leaves in it is a block among other words;   *)
(* `Carries` says so in a form that an edit at either end does not disturb. *)

RulesWords ==
    {"w", "nl", BEGIN, END} \cup {r.rules_domains : r \in Requests}
    \cup UNION {{text[i] : i \in DOMAIN text} : text \in RulesTexts}
Plain == RulesWords \ {BEGIN, END}
Blockless == Seq(RulesWords \ {BEGIN})
Carries(text, d) == \E head \in Seq(Plain), tail \in Seq(RulesWords) : text = (head \o block(d)) \o tail
OneBlock(text) == \A i, j \in Positions(text, BEGIN) : i = j

LEMMA BlockFacts ==
  ASSUME NEW d \in RulesWords
  PROVE  /\ block(d) \in Seq(RulesWords) /\ Len(block(d)) = 3
         /\ block(d)[1] = BEGIN /\ block(d)[2] = d /\ block(d)[3] = END /\ BEGIN # END
  BY DEF block, BEGIN, END, RulesWords

\* Positions in a sequence.
LEMMA PlaceFacts ==
  ASSUME NEW text \in Seq(RulesWords), NEW w
  PROVE  /\ Len(text) \in Nat /\ DOMAIN text = 1..Len(text)
         /\ Positions(text, w) \in SUBSET Nat /\ Positions(text, w) \in SUBSET (1..Len(text))
         /\ \A i \in 1..Len(text) : i \in Positions(text, w) <=> text[i] = w
<1>1. Len(text) \in Nat /\ DOMAIN text = 1..Len(text)
  BY LenProperties
<1> QED
  BY <1>1 DEF Positions

LEMMA BlocklessFacts ==
  ASSUME NEW text \in Seq(RulesWords)
  PROVE  /\ Positions(text, BEGIN) = {} => text \in Blockless
         /\ text \in Blockless => Positions(text, BEGIN) = {}
<1>1. Len(text) \in Nat /\ DOMAIN text = 1..Len(text) /\ \A i \in 1..Len(text) : text[i] \in RulesWords
  BY LenProperties, ElementOfSeq
<1>2. ASSUME Positions(text, BEGIN) = {} PROVE text \in Blockless
  <2>1. \A i \in 1..Len(text) : text[i] \in RulesWords \ {BEGIN}
    BY <1>1, <1>2 DEF Positions
  <2>2. text \in [1..Len(text) -> RulesWords]
    BY SeqDef, <1>1
  <2>3. text \in [1..Len(text) -> RulesWords \ {BEGIN}]
    BY <2>1, <2>2
  <2> QED
    BY <1>1, <2>3, SeqDef DEF Blockless
<1>3. ASSUME text \in Blockless PROVE Positions(text, BEGIN) = {}
  <2>1. \A i \in 1..Len(text) : text[i] \in RulesWords \ {BEGIN}
    BY <1>3, ElementOfSeq DEF Blockless
  <2> QED
    BY <1>1, <2>1 DEF Positions
<1> QED
  BY <1>2, <1>3

\* A text that carries a block has it where locate looks for it.
LEMMA CarriesFacts ==
  ASSUME NEW text, NEW d \in Plain, Carries(text, d), d # "nl"
  PROVE  Located(text) /\ Managed(text) = block(d) /\ TrimStart(text) # <<>>
<1>1. PICK head \in Seq(Plain), tail \in Seq(RulesWords) : text = (head \o block(d)) \o tail
  BY DEF Carries
<1> DEFINE n == Len(head)
<1>2. head \in Seq(RulesWords) /\ n \in Nat /\ \A i \in 1..n : head[i] \in Plain
  BY SeqMonotonic, LenProperties, ElementOfSeq DEF Plain
<1>3. d \in RulesWords
  BY DEF Plain
<1>4. /\ head \o block(d) \in Seq(RulesWords) /\ Len(head \o block(d)) = n + 3
      /\ \A i \in 1 .. n + 3 : (head \o block(d))[i] = IF i <= n THEN head[i] ELSE block(d)[i - n]
  <2> DEFINE mid == block(d)
  <2>1. mid \in Seq(RulesWords) /\ Len(mid) = 3
    BY <1>3, BlockFacts
  <2> HIDE DEF mid
  <2>2. /\ head \o mid \in Seq(RulesWords) /\ Len(head \o mid) = Len(head) + Len(mid)
        /\ \A i \in 1 .. Len(head) + Len(mid) : (head \o mid)[i] = IF i <= Len(head) THEN head[i] ELSE mid[i - Len(head)]
    BY <1>2, <2>1, ConcatProperties
  <2> QED
    BY <2>1, <2>2 DEF mid
<1>5. /\ text \in Seq(RulesWords) /\ Len(tail) \in Nat /\ Len(text) = n + 3 + Len(tail)
      /\ \A i \in 1 .. n + 3 : text[i] = (head \o block(d))[i]
  <2> DEFINE mid == head \o block(d)
  <2>1. mid \in Seq(RulesWords) /\ Len(mid) = n + 3 /\ n \in Nat /\ Len(tail) \in Nat
    BY <1>2, <1>4, LenProperties
  <2> HIDE DEF mid
  <2>2. /\ mid \o tail \in Seq(RulesWords) /\ Len(mid \o tail) = Len(mid) + Len(tail)
        /\ \A i \in 1 .. Len(mid) + Len(tail) : (mid \o tail)[i] = IF i <= Len(mid) THEN mid[i] ELSE tail[i - Len(mid)]
    BY <2>1, ConcatProperties
  <2>3. text = mid \o tail
    BY <1>1 DEF mid
  <2> HIDE DEF n
  <2>4. \A i \in 1 .. n + 3 : i \in 1 .. Len(mid) + Len(tail) /\ i <= Len(mid)
    BY <2>1
  <2> QED
    BY <2>1, <2>2, <2>3, <2>4 DEF mid
<1>6. /\ \A i \in 1..n : text[i] \in Plain
      /\ text[n + 1] = BEGIN /\ text[n + 2] = d /\ text[n + 3] = END
  <2>1. \A i \in 1..n : text[i] = head[i]
    BY <1>2, <1>4, <1>5
  <2>2. text[n + 1] = block(d)[1] /\ text[n + 2] = block(d)[2] /\ text[n + 3] = block(d)[3]
    <3>1. \A k \in 1..3 : /\ n + k \in 1 .. n + 3 /\ ~(n + k <= n) /\ (n + k) - n = k
      BY <1>2
    <3>2. \A k \in 1..3 : text[n + k] = block(d)[k]
      BY <1>4, <1>5, <3>1
    <3> QED
      BY <3>2
  <2> QED
    BY <1>2, <1>3, <2>1, <2>2, BlockFacts
<1>7. BEGIN \notin Plain /\ END \notin Plain /\ BEGIN # END /\ d # BEGIN /\ d # END
  BY BlockFacts, <1>3 DEF Plain
<1> DEFINE b == Positions(text, BEGIN)
           e == Positions(text, END)
<1>8. /\ b \in SUBSET Nat /\ b \in SUBSET (1..Len(text)) /\ e \in SUBSET Nat /\ e \in SUBSET (1..Len(text))
      /\ \A i \in 1..Len(text) : (i \in b <=> text[i] = BEGIN) /\ (i \in e <=> text[i] = END)
  BY <1>5, PlaceFacts
<1>9. n + 1 \in b /\ n + 3 \in e /\ Len(text) \in Nat
  BY <1>2, <1>5, <1>6, <1>8
<1> HIDE DEF n, b, e
<1>10. \A j \in b : n + 1 <= j
  BY <1>2, <1>5, <1>6, <1>7, <1>8
<1>11. \A j \in e : n + 3 <= j
  <2>1. \A j \in e : j # n + 1 /\ j # n + 2 /\ j \in Nat /\ ~(j \in 1..n)
    BY <1>2, <1>5, <1>6, <1>7, <1>8
  <2>2. \A j \in e : j >= 1
    BY <1>8
  <2> QED
    BY <1>2, <2>1, <2>2
<1>12. First(b) = n + 1 /\ First(e) = n + 3
  BY <1>8, <1>9, <1>10, <1>11, FirstIs
<1>13. Located(text)
  BY <1>2, <1>9, <1>12 DEF Located, Malformed, b, e
<1>14. Managed(text) = block(d)
  <2> DEFINE m == SubSeq(text, n + 1, n + 3)
  <2>1. Managed(text) = m
    BY <1>12 DEF Managed, b, e
  <2>2. \A i \in (n + 1) .. (n + 3) : text[i] \in RulesWords
    BY <1>2, <1>5, ElementOfSeq
  <2>3. /\ m \in Seq(RulesWords) /\ Len(m) = 3
        /\ \A i \in 1 .. 3 : m[i] = text[n + i]
    <3>1. n + 1 \in Int /\ n + 3 \in Int /\ n + 1 <= n + 3 /\ (n + 3) - (n + 1) + 1 = 3
          /\ \A i \in 1..3 : (n + 1) + i - 1 = n + i
      BY <1>2
    <3> QED
      BY <2>2, <3>1, SubSeqProperties
  <2> HIDE DEF m
  <2>4. m[1] = block(d)[1] /\ m[2] = block(d)[2] /\ m[3] = block(d)[3]
    BY <1>3, <1>6, <2>3, BlockFacts
  <2>5. \A i \in 1 .. Len(m) : m[i] = block(d)[i]
    BY <2>3, <2>4
  <2>6. Len(m) = Len(block(d)) /\ block(d) \in Seq(RulesWords)
    BY <1>3, <2>3, BlockFacts
  <2>7. m = block(d)
    BY <2>3, <2>5, <2>6, SeqEqual
  <2> QED
    BY <2>1, <2>7
<1>15. TrimStart(text) # <<>>
  <2> DEFINE kept == {Len(text) + 1} \cup {i \in DOMAIN text : text[i] # "nl"}
  <2>1. DOMAIN text = 1..Len(text)
    BY <1>5, LenProperties
  <2>2. kept \in SUBSET Nat /\ n + 1 \in kept /\ \A j \in kept : j >= 1
    BY <1>2, <1>5, <1>6, <1>9, <2>1 DEF BEGIN
  <2> DEFINE f == First(kept)
  <2>3. f \in kept /\ f <= n + 1 /\ f \in Nat /\ f >= 1
    <3> HIDE DEF kept
    <3> QED
      BY <2>2, FirstOf
  <2> HIDE DEF f
  <2>4. f <= Len(text) /\ \A i \in f .. Len(text) : text[i] \in RulesWords
    BY <1>2, <1>5, <2>3, ElementOfSeq
  <2>5. Len(SubSeq(text, f, Len(text))) = Len(text) - f + 1
    BY <1>9, <2>3, <2>4, SubSeqProperties
  <2>6. SubSeq(text, f, Len(text)) # <<>>
    <3>1. Len(text) - f + 1 # 0
      BY <1>9, <2>3, <2>4
    <3> QED
      BY <2>5, <3>1, EmptySeq
  <2> QED
    BY <2>6 DEF TrimStart, f
<1> QED
  BY <1>13, <1>14, <1>15

\* The two sides of the block.
LEMMA SplitFacts ==
  ASSUME NEW text \in Seq(RulesWords), Located(text)
  PROVE  /\ Before(text) \in Seq(Plain) /\ After(text) \in Seq(RulesWords)
         /\ OneBlock(text) => After(text) \in Blockless
<1> DEFINE b == Positions(text, BEGIN)
           e == Positions(text, END)
           x == First(b)
           y == First(e)
<1>1. b # {} /\ e # {} /\ y > x
  BY DEF Located, Malformed
<1>2. /\ Len(text) \in Nat /\ b \in SUBSET Nat /\ b \in SUBSET (1..Len(text)) /\ e \in SUBSET Nat /\ e \in SUBSET (1..Len(text))
      /\ \A i \in 1..Len(text) : (i \in b <=> text[i] = BEGIN) /\ (i \in e <=> text[i] = END)
  BY PlaceFacts
<1>3. x \in b /\ y \in e /\ (\A j \in b : x <= j) /\ (\A j \in e : y <= j)
  <2> HIDE DEF b, e
  <2> QED
    BY <1>1, <1>2, FirstOf
<1>4. \A i \in 1..Len(text) : text[i] \in RulesWords
  BY ElementOfSeq
<1>5. Before(text) = SubSeq(text, 1, x - 1) /\ After(text) = SubSeq(text, y + 1, Len(text))
  BY DEF Before, After
<1> HIDE DEF b, e, x, y
<1>6. x \in 1..Len(text) /\ y \in 1..Len(text) /\ x - 1 \in Int /\ y + 1 \in Int
  BY <1>2, <1>3
<1>7. \A i \in 1 .. (x - 1) : i \in 1..Len(text) /\ ~(x <= i) /\ ~(y <= i)
  BY <1>1, <1>2, <1>6
<1>8. \A i \in 1 .. (x - 1) : text[i] \in Plain
  BY <1>2, <1>3, <1>4, <1>7 DEF Plain
<1>9. Before(text) \in Seq(Plain)
  BY <1>5, <1>6, <1>8, SubSeqProperties
<1>10. \A i \in (y + 1) .. Len(text) : i \in 1..Len(text) /\ i # x
  BY <1>1, <1>2, <1>6
<1>11. After(text) \in Seq(RulesWords)
  BY <1>2, <1>4, <1>5, <1>6, <1>10, SubSeqProperties
<1>12. ASSUME OneBlock(text) PROVE After(text) \in Blockless
  <2>1. \A i \in b : i = x
    BY <1>3, <1>12 DEF OneBlock, b
  <2>2. \A i \in (y + 1) .. Len(text) : text[i] \in RulesWords \ {BEGIN}
    BY <1>2, <1>4, <1>10, <2>1
  <2> DEFINE free == RulesWords \ {BEGIN}
  <2> HIDE DEF free
  <2>3. SubSeq(text, y + 1, Len(text)) \in Seq(free)
    BY <1>2, <1>6, <2>2, SubSeqProperties DEF free
  <2> QED
    BY <1>5, <2>3 DEF free, Blockless
<1> QED
  BY <1>9, <1>11, <1>12

\* Concatenation of sequences of known lengths.
LEMMA Joined ==
  ASSUME NEW S, NEW s \in Seq(S), NEW t \in Seq(S), NEW m, NEW k, Len(s) = m, Len(t) = k
  PROVE  /\ s \o t \in Seq(S) /\ Len(s \o t) = m + k
         /\ \A i \in 1 .. m + k : (s \o t)[i] = IF i <= m THEN s[i] ELSE t[i - m]
  BY ConcatProperties

\* A block put between words without a marker before it and without a begin after it is
\* the only one.
LEMMA OnceCarried ==
  ASSUME NEW head \in Seq(Plain), NEW tail \in Blockless, NEW d \in Plain
  PROVE  OneBlock((head \o block(d)) \o tail)
<1> DEFINE n == Len(head)
           mid == block(d)
           text == (head \o mid) \o tail
<1>0. d \in RulesWords /\ d # BEGIN /\ d # END
  BY DEF Plain
<1>1. mid \in Seq(RulesWords) /\ Len(mid) = 3 /\ mid[1] = BEGIN /\ mid[2] # BEGIN /\ mid[3] # BEGIN
  BY <1>0, BlockFacts
<1> HIDE DEF mid
<1>2. /\ head \in Seq(RulesWords) /\ n \in Nat /\ (\A i \in 1..n : head[i] # BEGIN)
      /\ tail \in Seq(RulesWords) /\ Len(tail) \in Nat /\ \A i \in 1..Len(tail) : tail[i] # BEGIN
  <2>1. \A i \in 1..n : head[i] \in Plain
    BY ElementOfSeq
  <2>2. \A i \in 1..Len(tail) : tail[i] \in RulesWords \ {BEGIN}
    BY ElementOfSeq DEF Blockless
  <2>3. head \in Seq(RulesWords) /\ tail \in Seq(RulesWords)
    BY SeqMonotonic DEF Plain, Blockless
  <2> QED
    BY <2>1, <2>2, <2>3, LenProperties DEF Plain
<1>3. /\ head \o mid \in Seq(RulesWords) /\ Len(head \o mid) = n + 3
      /\ \A i \in 1 .. n + 3 : (head \o mid)[i] = IF i <= n THEN head[i] ELSE mid[i - n]
  <2>1. /\ head \o mid \in Seq(RulesWords) /\ Len(head \o mid) = Len(head) + Len(mid)
        /\ \A i \in 1 .. Len(head) + Len(mid) : (head \o mid)[i] = IF i <= Len(head) THEN head[i] ELSE mid[i - Len(head)]
    BY <1>1, <1>2, ConcatProperties
  <2> QED
    BY <1>1, <2>1
<1>4. /\ text \in Seq(RulesWords) /\ Len(text) = n + 3 + Len(tail)
      /\ \A i \in 1 .. n + 3 + Len(tail) : text[i] = IF i <= n + 3 THEN (head \o mid)[i] ELSE tail[i - (n + 3)]
  <2> DEFINE front == head \o mid
  <2>1. front \in Seq(RulesWords) /\ Len(front) = n + 3
    BY <1>3
  <2> HIDE DEF front, n
  <2>2. /\ front \o tail \in Seq(RulesWords) /\ Len(front \o tail) = (n + 3) + Len(tail)
        /\ \A i \in 1 .. (n + 3) + Len(tail) :
             (front \o tail)[i] = IF i <= n + 3 THEN front[i] ELSE tail[i - (n + 3)]
    BY <1>2, <2>1, Joined
  <2> QED
    BY <2>2 DEF front
<1> HIDE DEF text
<1>5. \A i \in 1..Len(text) : text[i] = BEGIN => i = n + 1
  <2> SUFFICES ASSUME NEW i \in 1..Len(text), i # n + 1 PROVE text[i] # BEGIN
    OBVIOUS
  <2> HIDE DEF n
  <2>1. CASE i <= n
    <3>1. i \in 1..n /\ i \in 1 .. n + 3 /\ i <= n + 3 /\ i \in 1 .. n + 3 + Len(tail)
      BY <1>2, <1>4, <2>1
    <3> QED
      BY <1>2, <1>3, <1>4, <2>1, <3>1
  <2>2. CASE i = n + 2 \/ i = n + 3
    <3>1. i \in 1 .. n + 3 /\ i <= n + 3 /\ i \in 1 .. n + 3 + Len(tail) /\ ~(i <= n) /\ i - n \in {2, 3}
      BY <1>2, <1>4, <2>2
    <3>2. mid[i - n] # BEGIN
      BY <1>1, <3>1
    <3> QED
      BY <1>3, <1>4, <3>1, <3>2
  <2>3. CASE i > n + 3
    <3>1. ~(i <= n + 3) /\ i \in 1 .. n + 3 + Len(tail) /\ i - (n + 3) \in 1..Len(tail)
      BY <1>2, <1>4, <2>3
    <3> QED
      BY <1>2, <1>4, <3>1
  <2> QED
    BY <1>2, <1>4, <2>1, <2>2, <2>3
<1>6. OneBlock(text)
  BY <1>4, <1>5, PlaceFacts DEF OneBlock
<1> QED
  BY <1>6 DEF text, mid

LEMMA UpsertFacts ==
  ASSUME NEW text \in Seq(RulesWords), ~Malformed(text), NEW d \in Plain, d # "nl"
  PROVE  LET next == upsert(text, block(d))
         IN  /\ next \in Seq(RulesWords) /\ Carries(next, d)
             /\ OneBlock(text) => OneBlock(next)
<1> DEFINE next == upsert(text, block(d))
<1>0. d \in RulesWords /\ block(d) \in Seq(RulesWords) /\ "nl" \in Plain
  BY BlockFacts DEF Plain, RulesWords, BEGIN, END
<1>1. \E head \in Seq(Plain), tail \in Seq(RulesWords) :
        /\ next = (head \o block(d)) \o tail
        /\ OneBlock(text) => tail \in Blockless
  <2>1. CASE Located(text)
    BY <2>1, SplitFacts DEF upsert
  <2>2. CASE ~Located(text)
    <3> DEFINE gap == IF text = <<>> THEN <<>> ELSE IF EndsLine(text) THEN <<"nl">> ELSE <<"nl", "nl">>
    <3>1. Positions(text, BEGIN) = {} /\ Positions(text, END) = {}
      BY <2>2 DEF Located, Malformed
    <3>2. text \in Seq(Plain)
      <4>1. Len(text) \in Nat /\ text \in [1..Len(text) -> RulesWords] /\ DOMAIN text = 1..Len(text)
        BY SeqDef, LenProperties
      <4>2. \A i \in 1..Len(text) : text[i] \in Plain
        BY <3>1, <4>1 DEF Positions, Plain
      <4>3. text \in [1..Len(text) -> Plain]
        BY <4>1, <4>2
      <4> QED
        BY <4>1, <4>3, SeqDef
    <3>3. gap \in Seq(Plain) /\ <<"nl">> \in Blockless /\ <<"nl">> \in Seq(RulesWords)
      <4>1. "nl" \in RulesWords \ {BEGIN} /\ "nl" \in RulesWords
        BY <1>0 DEF Plain
      <4>2. <<"nl">> \in Blockless /\ <<"nl">> \in Seq(RulesWords)
        <5> DEFINE free == RulesWords \ {BEGIN}
        <5>1. "nl" \in free
          BY <4>1
        <5> HIDE DEF free
        <5>2. <<"nl">> \in Seq(free)
          BY <5>1
        <5> QED
          BY <4>1, <5>2 DEF Blockless, free
      <4>3. gap \in Seq(Plain)
        BY <1>0
      <4> QED
        BY <4>2, <4>3
    <3>4. next = ((text \o gap) \o block(d)) \o <<"nl">>
      BY <2>2 DEF upsert
    <3> HIDE DEF gap
    <3>5. text \o gap \in Seq(Plain)
      BY <3>2, <3>3, ConcatProperties
    <3> QED
      BY <3>3, <3>4, <3>5
  <2> QED
    BY <2>1, <2>2
<1> HIDE DEF next
<1>2. PICK head \in Seq(Plain), tail \in Seq(RulesWords) :
        /\ next = (head \o block(d)) \o tail
        /\ OneBlock(text) => tail \in Blockless
  BY <1>1
<1>3. next \in Seq(RulesWords)
  <2>1. head \in Seq(RulesWords)
    BY SeqMonotonic DEF Plain
  <2>2. head \o block(d) \in Seq(RulesWords)
    BY <1>0, <2>1, ConcatProperties
  <2> QED
    BY <1>2, <2>2, ConcatProperties
<1>4. Carries(next, d)
  BY <1>2 DEF Carries
<1>5. OneBlock(text) => OneBlock(next)
  BY <1>2, OnceCarried
<1> QED
  BY <1>3, <1>4, <1>5 DEF next

\* Trimming takes no word that is not there.
LEMMA TrimFacts ==
  ASSUME NEW text \in Blockless
  PROVE  TrimEnd(text) \in Blockless /\ TrimStart(text) \in Blockless
<1> DEFINE free == RulesWords \ {BEGIN}
           n == Len(text)
           words == {i \in DOMAIN text : text[i] # "nl"}
<1> HIDE DEF free
<1>1. text \in Seq(free) /\ n \in Nat /\ DOMAIN text = 1..n /\ \A i \in 1..n : text[i] \in free
  BY LenProperties, ElementOfSeq DEF Blockless, free
<1>2. words \in SUBSET (1..n)
  BY <1>1
<1>3. TrimEnd(text) \in Seq(free)
  <2> DEFINE kept == {0} \cup words
             top == CHOOSE i \in kept : \A j \in kept : j <= i
  <2>1. \E i \in kept : \A j \in kept : j <= i
    <3>1. CASE words = {}
      BY <3>1
    <3>2. CASE words # {}
      <4> HIDE DEF words, n
      <4>1. PICK m \in words : \A k \in words : k <= m
        BY <1>1, <1>2, <3>2, LastPlace
      <4>2. 0 <= m
        BY <1>1, <1>2
      <4> QED
        BY <4>1, <4>2
    <3> QED
      BY <3>1, <3>2
  <2>2. top \in kept
    BY <2>1
  <2>3. TrimEnd(text) = SubSeq(text, 1, top)
    BY DEF TrimEnd
  <2>4. top \in 0..n
    <3> HIDE DEF top, words, n
    <3> QED
      BY <1>1, <1>2, <2>2
  <2> HIDE DEF top, n
  <2>5. top \in Int /\ \A i \in 1..top : text[i] \in free
    BY <1>1, <2>4
  <2>6. SubSeq(text, 1, top) \in Seq(free)
    BY <2>5, SubSeqProperties
  <2> QED
    BY <2>3, <2>6
<1>4. TrimStart(text) \in Seq(free)
  <2> DEFINE kept == {n + 1} \cup words
             f == First(kept)
  <2>1. kept \in SUBSET Nat /\ kept # {} /\ \A j \in kept : j >= 1
    BY <1>1, <1>2
  <2>2. f \in Nat /\ f >= 1
    <3> HIDE DEF kept
    <3> QED
      BY <2>1, FirstOf
  <2>3. TrimStart(text) = SubSeq(text, f, n)
    BY DEF TrimStart
  <2> HIDE DEF f, n
  <2>4. \A i \in f .. n : text[i] \in free
    BY <1>1, <2>2
  <2>5. SubSeq(text, f, n) \in Seq(free)
    BY <1>1, <2>2, <2>4, SubSeqProperties
  <2> QED
    BY <2>3, <2>5
<1> QED
  BY <1>3, <1>4 DEF Blockless, free

LEMMA StripFacts ==
  ASSUME NEW text \in Seq(RulesWords), ~Malformed(text), OneBlock(text)
  PROVE  Uninstalled(text) \in Blockless
<1> DEFINE free == RulesWords \ {BEGIN}
<1> HIDE DEF free
<1>1. Blockless = Seq(free) /\ "nl" \in free /\ <<>> \in Seq(free)
  BY EmptySeq DEF free, Blockless, RulesWords, BEGIN
<1>2. strip(text) \in Seq(free)
  <2>1. CASE ~Located(text)
    <3>1. Positions(text, BEGIN) = {}
      BY <2>1 DEF Located, Malformed
    <3> QED
      BY <1>1, <2>1, <3>1, BlocklessFacts DEF strip
  <2>2. CASE Located(text)
    <3> DEFINE head == TrimEnd(Before(text))
               tail == TrimStart(After(text))
               gap == IF head # <<>> /\ tail # <<>> THEN <<"nl", "nl">> ELSE <<>>
               joined == (head \o gap) \o tail
    <3>1. head \in Seq(free) /\ tail \in Seq(free)
      <4>1. Before(text) \in Blockless /\ After(text) \in Blockless
        BY <2>2, SplitFacts, SeqMonotonic DEF Blockless, Plain
      <4> QED
        BY <1>1, <4>1, TrimFacts
    <3>2. strip(text) = IF joined # <<>> /\ ~EndsLine(joined) THEN Append(joined, "nl") ELSE joined
      BY <2>2 DEF strip
    <3> HIDE DEF head, tail
    <3>3. gap \in Seq(free)
      BY <1>1
    <3> HIDE DEF gap
    <3>4. joined \in Seq(free)
      BY <3>1, <3>3, ConcatProperties
    <3> HIDE DEF joined
    <3>5. Append(joined, "nl") \in Seq(free)
      BY <1>1, <3>4, AppendProperties
    <3> QED
      BY <3>2, <3>4, <3>5
  <2> QED
    BY <2>1, <2>2
<1> QED
  BY <1>1, <1>2 DEF Uninstalled

-----------------------------------------------------------------------------
(* What a run leaves in the rules file.                                    *)

\* The file a run is about to write, and the one it reports on.
RulesDone(r, text) ==
    IF Installs(r) THEN r.req.rules => Carries(text, r.req.rules_domains) ELSE text \in Blockless
RulesDraft(r) ==
    /\ r.text.text \in Seq(RulesWords) /\ OneBlock(r.text.text) /\ RulesDone(r, r.text.text)
    /\ Installs(r) => r.text.there
RulesInv ==
    /\ rules.text \in Seq(RulesWords) /\ OneBlock(rules.text)
    /\ run.at = "write" => RulesDraft(run)
    /\ run.at = "done" /\ ~run.req.dry => RulesDone(run, rules.text)

LEMMA BlocklessOnce ==
  ASSUME NEW text \in Blockless
  PROVE  text \in Seq(RulesWords) /\ OneBlock(text)
<1>1. text \in Seq(RulesWords)
  BY SeqMonotonic DEF Blockless
<1> QED
  BY <1>1, BlocklessFacts DEF OneBlock

LEMMA RulesReadStep ==
  ASSUME AgentInv, RulesInv, RulesRead
  PROVE  RulesInv'
<1> DEFINE text == rules.text
           next == IF run.req.op = "install" THEN upsert(text, block(run.req.rules_domains)) ELSE Uninstalled(text)
<1>0. run.at = "rules" /\ run.at \in AgentStages /\ UNCHANGED rules
  BY DEF RulesRead, AgentStages
<1>1. /\ run.req \in Requests /\ DOMAIN run = RunFields /\ run.req.rules \in BOOLEAN
      /\ run.req.rules_domains \in Plain /\ run.req.rules_domains # "nl"
  <2>1. run.req \in Requests /\ DOMAIN run = RunFields
    BY <1>0, RunFacts
  <2>2. run.req.rules_domains \notin {"begin", "end", "nl"} /\ run.req.rules \in BOOLEAN
    BY <2>1, AgentAssumption
  <2> QED
    BY <2>1, <2>2 DEF Plain, RulesWords, BEGIN, END
<1>2. text \in Seq(RulesWords) /\ OneBlock(text)
  BY DEF RulesInv
<1>3. ~Malformed(text) =>
        /\ next \in Seq(RulesWords) /\ OneBlock(next)
        /\ IF Installs(run) THEN Carries(next, run.req.rules_domains) ELSE next \in Blockless
        /\ Installs(run) => TrimStart(next) # <<>>
  <2> SUFFICES ASSUME ~Malformed(text)
               PROVE  /\ next \in Seq(RulesWords) /\ OneBlock(next)
                      /\ IF Installs(run) THEN Carries(next, run.req.rules_domains) ELSE next \in Blockless
                      /\ Installs(run) => TrimStart(next) # <<>>
    OBVIOUS
  <2>1. CASE Installs(run)
    <3>1. next = upsert(text, block(run.req.rules_domains))
      BY <2>1 DEF Installs
    <3> HIDE DEF next, text
    <3>2. next \in Seq(RulesWords) /\ Carries(next, run.req.rules_domains) /\ OneBlock(next)
      BY <1>1, <1>2, <3>1, UpsertFacts
    <3> QED
      BY <1>1, <2>1, <3>2, CarriesFacts
  <2>2. CASE ~Installs(run)
    <3>1. next = Uninstalled(text)
      BY <2>2 DEF Installs
    <3> HIDE DEF next, text
    <3> QED
      BY <1>2, <2>2, <3>1, StripFacts, BlocklessOnce
  <2> QED
    BY <2>1, <2>2
<1>4. \/ Installs(run) /\ ~run.req.rules /\ GoesTo("done")
      \/ Fail
      \/ ~Malformed(text) /\ (run.req.dry \/ next = text) /\ GoesTo("done")
      \/ /\ ~Malformed(text)
         /\ run' = [run EXCEPT !.at = "write", !.text = [there |-> TrimStart(next) # <<>>, text |-> next]]
  BY DEF RulesRead, Installs
<1> HIDE DEF next
<1>5. CASE GoesTo("done") \/ Fail
  <2>1. run'.req = run.req /\ run'.at \in {"done", "failed"} /\ (run'.at = "done" => GoesTo("done"))
    BY <1>1, <1>5 DEF GoesTo, Fail, RunFields
  <2>2. GoesTo("done") => run' # [run EXCEPT !.at = "failed"] /\ run'.at = "done"
    BY <1>1 DEF GoesTo, RunFields
  <2>3. run' = [run EXCEPT !.at = "write", !.text = [there |-> TrimStart(next) # <<>>, text |-> next]] => run'.at = "write"
    BY <1>1 DEF RunFields
  <2>4. run'.at = "done" /\ ~run'.req.dry => RulesDone(run, text)
    BY <1>3, <1>4, <2>1, <2>2, <2>3 DEF RulesDone, Fail
  <2>5. run'.at = "done" /\ ~run'.req.dry => RulesDone(run', rules'.text)
    BY <1>0, <2>1, <2>4 DEF RulesDone, Installs
  <2> QED
    BY <1>0, <1>2, <2>1, <2>5 DEF RulesInv
<1>6. CASE ~Malformed(text) /\ run' = [run EXCEPT !.at = "write", !.text = [there |-> TrimStart(next) # <<>>, text |-> next]]
  <2> DEFINE stays == TrimStart(next) # <<>>
  <2>a. stays \in BOOLEAN
    OBVIOUS
  <2>b. run' = [run EXCEPT !.at = "write", !.text = [there |-> stays, text |-> next]]
    BY <1>6
  <2>c. Installs(run) => stays
    BY <1>3, <1>6
  <2> HIDE DEF stays
  <2>1. run'.req = run.req /\ run'.at = "write" /\ run'.text = [there |-> stays, text |-> next]
    BY <1>1, <2>b DEF RunFields
  <2>2. run'.text.text = next /\ (stays => run'.text.there)
    BY <2>a, <2>1
  <2>3. Installs(run') <=> Installs(run)
    BY <2>1 DEF Installs
  <2>4. RulesDone(run', next)
    BY <1>3, <1>6, <2>1, <2>3 DEF RulesDone
  <2>5. RulesDraft(run')
    BY <1>3, <1>6, <2>c, <2>2, <2>3, <2>4 DEF RulesDraft
  <2> QED
    BY <1>0, <1>2, <2>1, <2>5 DEF RulesInv
<1> QED
  BY <1>4, <1>5, <1>6

LEMMA RulesWriteStep ==
  ASSUME AgentInv, RulesInv, RulesWrite
  PROVE  RulesInv'
<1>0. run.at = "write" /\ run.at \in AgentStages /\ DOMAIN run = RunFields /\ RulesDraft(run)
  <2>1. run.at = "write" /\ run.at \in AgentStages
    BY DEF RulesWrite, AgentStages
  <2> QED
    BY <2>1, RunFacts DEF RulesInv
<1>1. CASE Fail /\ UNCHANGED rules
  <2>1. run'.at = "failed"
    BY <1>0, <1>1 DEF Fail, RunFields
  <2> QED
    BY <1>1, <2>1 DEF RulesInv
<1>2. CASE /\ rules' = IF run.text.there THEN run.text ELSE [there |-> FALSE, text |-> <<>>]
           /\ GoesTo("done")
  <2>1. run'.at = "done" /\ run'.req = run.req
    BY <1>0, <1>2 DEF GoesTo, RunFields
  <2>2. /\ rules'.text \in Seq(RulesWords) /\ OneBlock(rules'.text) /\ RulesDone(run, rules'.text)
    <3>1. CASE run.text.there
      <4>1. rules'.text = run.text.text
        BY <1>2, <3>1
      <4> QED
        BY <1>0, <4>1 DEF RulesDraft
    <3>2. CASE ~run.text.there
      <4>1. rules'.text = <<>>
        BY <1>2, <3>2
      <4>2. rules'.text \in Blockless
        BY <4>1, EmptySeq DEF Blockless
      <4> QED
        BY <1>0, <3>2, <4>2, BlocklessOnce DEF RulesDraft, RulesDone
    <3> QED
      BY <3>1, <3>2
  <2>3. RulesDone(run', rules'.text)
    BY <2>1, <2>2 DEF RulesDone, Installs
  <2> QED
    BY <2>1, <2>2, <2>3 DEF RulesInv
<1> QED
  BY <1>1, <1>2 DEF RulesWrite

\* A word added at either end of the file.
LEMMA EditedFacts ==
  ASSUME NEW text \in Seq(RulesWords), NEW new \in {<<"w">> \o text, text \o <<"w">>}
  PROVE  /\ new \in Seq(RulesWords)
         /\ OneBlock(text) => OneBlock(new)
         /\ text \in Blockless => new \in Blockless
         /\ \A d \in Plain : Carries(text, d) => Carries(new, d)
<1> DEFINE word == <<"w">>
           free == RulesWords \ {BEGIN}
<1>1. /\ word \in Seq(RulesWords) /\ word \in Seq(Plain) /\ word \in Seq(free) /\ Len(word) = 1
      /\ word[1] # BEGIN
  <2>1. "w" \in Plain /\ "w" \in free /\ "w" \in RulesWords /\ "w" # BEGIN
    BY DEF Plain, RulesWords, BEGIN, END
  <2> HIDE DEF free
  <2> QED
    BY <2>1
<1>2. new = word \o text \/ new = text \o word
  OBVIOUS
<1> HIDE DEF word
<1>3. new \in Seq(RulesWords)
  BY <1>1, <1>2, ConcatProperties
<1>4. text \in Blockless => new \in Blockless
  <2> HIDE DEF free
  <2>1. Blockless = Seq(free)
    BY DEF Blockless, free
  <2> QED
    BY <1>1, <1>2, <2>1, ConcatProperties
<1>5. ASSUME OneBlock(text) PROVE OneBlock(new)
  <2> DEFINE n == Len(text)
  <2>0. n \in Nat /\ \A i \in 1..n : i \in Positions(text, BEGIN) <=> text[i] = BEGIN
    BY PlaceFacts
  <2>1. \A i, j \in 1..n : text[i] = BEGIN /\ text[j] = BEGIN => i = j
    BY <1>5, <2>0 DEF OneBlock
  <2>2. CASE new = word \o text
    <3>1. Len(word \o text) = Len(word) + n /\ \A i \in 1 .. Len(word) + n : new[i] = IF i <= Len(word) THEN word[i] ELSE text[i - Len(word)]
      BY <1>1, <2>2, ConcatProperties
    <3>2. Len(new) = 1 + n /\ \A i \in 1 .. 1 + n : new[i] = IF i <= 1 THEN word[i] ELSE text[i - 1]
      BY <1>1, <2>2, <3>1
    <3> HIDE DEF n
    <3>3. \A i \in 1 .. 1 + n : new[i] = BEGIN => i - 1 \in 1..n /\ text[i - 1] = BEGIN
      <4> SUFFICES ASSUME NEW i \in 1 .. 1 + n, new[i] = BEGIN PROVE i - 1 \in 1..n /\ text[i - 1] = BEGIN
        OBVIOUS
      <4>1. CASE i <= 1
        <5>1. i = 1
          BY <2>0, <4>1
        <5> QED
          BY <1>1, <3>2, <4>1, <5>1
      <4>2. CASE ~(i <= 1)
        BY <2>0, <3>2, <4>2
      <4> QED
        BY <4>1, <4>2
    <3>4. \A i, j \in 1 .. 1 + n : i - 1 = j - 1 => i = j
      BY <2>0
    <3>5. \A i, j \in 1 .. 1 + n : new[i] = BEGIN /\ new[j] = BEGIN => i = j
      BY <2>1, <3>3, <3>4
    <3> QED
      BY <1>3, <3>2, <3>5, PlaceFacts DEF OneBlock
  <2>3. CASE new = text \o word
    <3>1. Len(text \o word) = n + Len(word) /\ \A i \in 1 .. n + Len(word) : new[i] = IF i <= n THEN text[i] ELSE word[i - n]
      BY <1>1, <2>3, ConcatProperties
    <3>2. Len(new) = n + 1 /\ \A i \in 1 .. n + 1 : new[i] = IF i <= n THEN text[i] ELSE word[i - n]
      BY <1>1, <2>3, <3>1
    <3> HIDE DEF n
    <3>3. \A i \in 1 .. n + 1 : new[i] = BEGIN => i \in 1..n /\ text[i] = BEGIN
      <4> SUFFICES ASSUME NEW i \in 1 .. n + 1, new[i] = BEGIN PROVE i \in 1..n /\ text[i] = BEGIN
        OBVIOUS
      <4>1. CASE ~(i <= n)
        <5>1. i - n = 1
          BY <2>0, <4>1
        <5> QED
          BY <1>1, <3>2, <4>1, <5>1
      <4>2. CASE i <= n
        BY <2>0, <3>2, <4>2
      <4> QED
        BY <4>1, <4>2
    <3>4. \A i, j \in 1 .. n + 1 : new[i] = BEGIN /\ new[j] = BEGIN => i = j
      BY <2>1, <3>3
    <3> QED
      BY <1>3, <3>2, <3>4, PlaceFacts DEF OneBlock
  <2> QED
    BY <1>2, <2>2, <2>3
<1>6. ASSUME NEW d \in Plain, Carries(text, d) PROVE Carries(new, d)
  <2> DEFINE mid == block(d)
  <2>1. mid \in Seq(RulesWords)
    BY BlockFacts DEF Plain
  <2>2. PICK head \in Seq(Plain), tail \in Seq(RulesWords) : text = (head \o mid) \o tail
    BY <1>6 DEF Carries
  <2> HIDE DEF mid
  <2>3. head \in Seq(RulesWords)
    BY SeqMonotonic DEF Plain
  <2>4. head \o mid \in Seq(RulesWords)
    BY <2>1, <2>3, ConcatProperties
  <2>5. CASE new = word \o text
    <3>1. (word \o head) \o mid = word \o (head \o mid)
      BY <1>1, <2>1, <2>3, ConcatAssociative
    <3>2. (word \o (head \o mid)) \o tail = word \o ((head \o mid) \o tail)
      <4> DEFINE front == head \o mid
      <4>1. front \in Seq(RulesWords)
        BY <2>4
      <4> HIDE DEF front
      <4>2. (word \o front) \o tail = word \o (front \o tail)
        BY <1>1, <4>1, ConcatAssociative
      <4> QED
        BY <4>2 DEF front
    <3>3. word \o head \in Seq(Plain) /\ new = ((word \o head) \o mid) \o tail
      BY <1>1, <2>2, <2>5, <3>1, <3>2, ConcatProperties
    <3> QED
      BY <3>3 DEF Carries, mid
  <2>6. CASE new = text \o word
    <3>1. ((head \o mid) \o tail) \o word = (head \o mid) \o (tail \o word)
      <4> DEFINE front == head \o mid
      <4>1. front \in Seq(RulesWords) /\ word \in Seq(RulesWords)
        BY <1>1, <2>4
      <4> HIDE DEF front, word
      <4>2. (front \o tail) \o word = front \o (tail \o word)
        BY <4>1, ConcatAssociative
      <4> QED
        BY <4>2 DEF front, word
    <3>2. tail \o word \in Seq(RulesWords) /\ new = (head \o mid) \o (tail \o word)
      BY <1>1, <2>2, <2>6, <3>1, ConcatProperties
    <3> QED
      BY <3>2 DEF Carries, mid
  <2> QED
    BY <1>2, <2>5, <2>6
<1> QED
  BY <1>3, <1>4, <1>5, <1>6

LEMMA EditRulesStep ==
  ASSUME AgentInv, RulesInv, EditRules
  PROVE  RulesInv'
<1>1. PICK new \in {<<"w">> \o rules.text, rules.text \o <<"w">>} : rules' = [there |-> TRUE, text |-> new]
  BY DEF EditRules
<1>2. rules'.text = new /\ run' = run
  BY <1>1 DEF EditRules
<1>3. /\ new \in Seq(RulesWords) /\ OneBlock(new)
      /\ rules.text \in Blockless => new \in Blockless
      /\ \A d \in Plain : Carries(rules.text, d) => Carries(new, d)
  BY EditedFacts DEF RulesInv
<1>4. run.at = "done" => run.req \in Requests
  BY DEF AgentInv, AgentFits, RunShape
<1>5. run.at = "done" => run.req.rules_domains \in Plain
  BY <1>4, AgentAssumption DEF Plain, RulesWords, BEGIN, END
<1>6. run.at = "done" /\ ~run.req.dry => RulesDone(run, new)
  BY <1>3, <1>5 DEF RulesInv, RulesDone
<1> QED
  BY <1>2, <1>3, <1>6 DEF RulesInv

\* The steps that neither touch the rules file nor come to it.
LEMMA BeforeRules ==
  ASSUME AgentInv,
         \/ \E req \in Requests : BeginInstall(req) \/ BeginUninstall(req)
         \/ Confirm \/ EnsureReady \/ ProbeAgent \/ Drop \/ Add \/ Restore \/ Store \/ Legacy \/ Kill
  PROVE  UNCHANGED rules /\ run'.at \notin {"write", "done"}
<1>0. DOMAIN run = RunFields
  BY DEF AgentInv, AgentFits, RunShape
<1>1. UNCHANGED rules
  BY DEF BeginInstall, BeginUninstall, Confirm, EnsureReady, ProbeAgent, Drop, Add, Restore, Store, Legacy, Kill, worldVars
<1>2. CASE \E req \in Requests : BeginInstall(req) \/ BeginUninstall(req)
  <2>1. PICK req \in Requests : BeginInstall(req) \/ BeginUninstall(req)
    BY <1>2
  <2>2. run'.at \in {"failed", "ensure", "panicked", "confirm", "probe"}
    BY <2>1 DEF BeginInstall, BeginUninstall, NoRun
  <2> QED
    BY <1>1, <2>2
<1>3. CASE Confirm \/ EnsureReady \/ ProbeAgent
  BY <1>0, <1>1, <1>3 DEF Confirm, EnsureReady, ProbeAgent, GoesTo, Fail, RunFields
<1>4. ASSUME NEW name, NEW next \in {"add", "legacy", "rules"}, DropEntry(name, next)
      PROVE  run'.at \notin {"write", "done"}
  BY <1>0, <1>4 DEF DropEntry, GoesTo, Fail, RunFields
<1>5. CASE Drop
  <2>1. DropEntry(SERVER_NAME, IF run.req.op = "install" THEN "add" ELSE "legacy")
    BY <1>5 DEF Drop
  <2> QED
    BY <1>1, <1>4, <2>1
<1>6. CASE Add
  BY <1>0, <1>1, <1>6 DEF Add, GoesTo, Fail, RunFields
<1>7. CASE Restore
  BY <1>0, <1>1, <1>7 DEF Restore, Fail, RunFields
<1>8. CASE Store
  <2>1. run.after \in {"legacy", "rules"}
    BY <1>8 DEF Store, AgentInv, AgentFits, RunShape
  <2> QED
    BY <1>0, <1>1, <1>8, <2>1 DEF Store, Fail, RunFields
<1>9. CASE Legacy
  <2>1. DropEntry(LEGACY, "rules") \/ Fail \/ GoesTo("rules")
    BY <1>9 DEF Legacy
  <2>2. Fail \/ GoesTo("rules") => run'.at \notin {"write", "done"}
    BY <1>0 DEF Fail, GoesTo, RunFields
  <2> QED
    BY <1>1, <1>4, <2>1, <2>2
<1>10. CASE Kill
  BY <1>1, <1>10 DEF Kill, NoRun
<1> QED
  BY <1>2, <1>3, <1>5, <1>6, <1>7, <1>8, <1>9, <1>10

\* Whatever fails, is killed or is edited meanwhile, a run that reports success leaves the
\* agent registered and the rules file with the block as it says (install), or neither
\* (uninstall); and an install that fails leaves the agent with a registration, if it had
\* one and the agent's CLI did not fail twice (install_mcp, install_rules, uninstall). The
\* hypothesis is about the file the first run finds: strip takes one block, and of a file
\* with two of them uninstall would leave the second.
THEOREM InstallIsHonest ==
  ASSUME \A text \in RulesTexts : OneBlock(text)
  PROVE  AgentSpec => []InstallHonest
<1>1. AgentInit => AgentInv /\ RulesInv
  <2> SUFFICES ASSUME AgentInit PROVE RulesInv
    BY AgentInitInv
  <2>1. PICK text \in RulesTexts : rules = [there |-> text # <<>>, text |-> text]
    BY DEF AgentInit
  <2>2. rules.text = text
    BY <2>1
  <2>3. text \in Seq(RulesWords)
    <3>1. text \in Seq({text[i] : i \in DOMAIN text})
      BY AgentAssumption
    <3>2. {text[i] : i \in DOMAIN text} \subseteq RulesWords
      BY DEF RulesWords
    <3> QED
      BY <3>1, <3>2, SeqMonotonic
  <2>4. run.at = "idle"
    BY DEF AgentInit, NoRun
  <2> QED
    BY <2>2, <2>3, <2>4 DEF RulesInv
<1>2. AgentInv /\ RulesInv /\ [AgentNext]_agentVars => (AgentInv /\ RulesInv)'
  <2> SUFFICES ASSUME AgentInv, RulesInv, [AgentNext]_agentVars PROVE RulesInv'
    BY AgentStep
  <2>1. CASE \/ \E req \in Requests : BeginInstall(req) \/ BeginUninstall(req)
             \/ Confirm \/ EnsureReady \/ ProbeAgent \/ Drop \/ Add \/ Restore \/ Store \/ Legacy \/ Kill
    BY <2>1, BeforeRules DEF RulesInv
  <2>2. CASE RulesRead
    BY <2>2, RulesReadStep
  <2>3. CASE RulesWrite
    BY <2>3, RulesWriteStep
  <2>4. CASE EditRules
    BY <2>4, EditRulesStep
  <2>5. CASE EditDocument \/ ServiceChanges \/ UNCHANGED agentVars
    <3>1. UNCHANGED <<run, rules>>
      BY <2>5 DEF EditDocument, ServiceChanges, agentVars
    <3> QED
      BY <3>1 DEF RulesInv
  <2> QED
    BY <2>1, <2>2, <2>3, <2>4, <2>5 DEF AgentNext
<1>3. AgentInv /\ RulesInv => InstallHonest
  <2> SUFFICES ASSUME AgentInv, RulesInv PROVE InstallHonest
    OBVIOUS
  <2>1. RegistrationAsReported /\ ReplacementKeepsOne
    BY AgentInvSound
  <2>2. RulesAsReported
    <3> SUFFICES ASSUME run.at = "done", ~run.req.dry
                 PROVE  IF run.req.op = "install"
                        THEN run.req.rules => Located(rules.text) /\ Managed(rules.text) = block(run.req.rules_domains)
                        ELSE Positions(rules.text, BEGIN) = {}
      BY DEF RulesAsReported
    <3>1. run.req \in Requests
      BY DEF AgentInv, AgentFits, RunShape
    <3>2. run.req.rules_domains \in Plain /\ run.req.rules_domains # "nl"
      BY <3>1, AgentAssumption DEF Plain, RulesWords, BEGIN, END
    <3>3. RulesDone(run, rules.text) /\ rules.text \in Seq(RulesWords)
      BY DEF RulesInv
    <3> QED
      BY <3>2, <3>3, CarriesFacts, BlocklessFacts DEF RulesDone, Installs
  <2> QED
    BY <2>1, <2>2 DEF InstallHonest, ReportedIsSo
<1> QED
  BY <1>1, <1>2, <1>3, PTL DEF AgentSpec
=============================================================================
