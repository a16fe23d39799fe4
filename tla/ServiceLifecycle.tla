-------------------------- MODULE ServiceLifecycle --------------------------
(***************************************************************************)
(* The managed MCP service (crates/ah-service): one scheduled registration *)
(* per user, an index of immutable definitions beside it, a runner process *)
(* that holds the instance lease while it lives, and the lifecycle         *)
(* commands install, start, stop, restart, uninstall and the updater's     *)
(* stop-and-restore.  The lifecycle lease admits one command at a time, so *)
(* the commands share one program counter; runners, the scheduler, the     *)
(* user's own edits and crashes interleave with every step of it.          *)
(*                                                                         *)
(* A configuration id is the number of the definition that carries it;     *)
(* a process id is the number of the launch.  Both are fresh, as the       *)
(* UUIDs and live pids of the code are.  Timeouts are steps a waiting      *)
(* command may take at any moment.                                         *)
(***************************************************************************)
EXTENDS Naturals, Sequences, FiniteSets

CONSTANTS Settings,     \* what an install may ask for
          Port,         \* Settings -> port of the endpoint
          MaxDefs,      \* bound: definitions ever written
          MaxLaunches,  \* bound: scheduler instances ever started
          Retries,      \* RETRY_COUNT of the launcher (0 without a launcher)
          MaxFaults     \* bound: crashes, logons, user edits and status calls

ASSUME ServiceAssumption ==
  /\ MaxDefs \in Nat \ {0} /\ MaxLaunches \in Nat \ {0}
  /\ Retries \in Nat /\ MaxFaults \in Nat
  /\ Port \in [Settings -> Nat]

VARIABLES task,    \* the registration: NoTask, Foreign, or marker and drift
          made,    \* every definition ever written, in order
          defs,    \* the definition files present
          lost,    \* definition files deleted by the user
          cur,     \* current.json: configuration id, 0 when missing
          rt,      \* runtime.json
          life,    \* lifecycle.json
          lease,   \* holder of the instance lease: Free, Ctl, Peek or a process id
          proc,    \* process id -> launcher and its child runner
          ids,     \* runner instance ids given out
          ctl,     \* the running lifecycle command
          faults

vars == <<task, made, defs, lost, cur, rt, life, lease, proc, ids, ctl, faults>>
disk == <<made, defs, lost, cur>>

Free == 0
Ctl == MaxLaunches + 1
Peek == MaxLaunches + 2
NoTask == [kind |-> "missing", cfg |-> 0, drift |-> FALSE]
Foreign == [kind |-> "foreign", cfg |-> 0, drift |-> FALSE]
NoRt == [cfg |-> 0, inst |-> 0, pid |-> 0, phase |-> "none"]
Gone == [st |-> "none", owned |-> FALSE, cfg |-> 0, tries |-> 0,
         stop |-> FALSE, child |-> "none", id |-> 0]
Quiet == [st |-> "not_ready", id |-> 0]

Pids == 1..MaxLaunches
Ops == {"install", "start", "stop", "restart", "update", "uninstall"}
Live == {"leased", "starting", "serving", "draining", "stopping", "exiting"}

Idle == [pc |-> "idle", op |-> "none", out |-> "none", set |-> 0,
         nostart |-> FALSE, old |-> 0, target |-> 0, seen |-> NoRt,
         ready |-> Quiet, obs |-> FALSE, drift |-> FALSE, tgt |-> 0,
         own |-> FALSE, del |-> {}, oldId |-> 0, mark |-> 0, prev |-> 0,
         run |-> FALSE, ran |-> FALSE]

Fresh == {n \in Pids : \A m \in Pids : m >= n => proc[m].st = "none" /\ proc[m].cfg = 0}

(***************************************************************************)
(* The scheduler port.  It keeps at most one instance of the registration: *)
(* systemd by construction, the Task Scheduler by IgnoreNew.               *)
(***************************************************************************)
Instances == {n \in Pids : proc[n].owned /\ proc[n].st # "none"}

Queued(p, n) == [p EXCEPT ![n] = [Gone EXCEPT !.st = "queued", !.owned = TRUE]]

Registered == task.kind = "owned"

(* Launches are numbered in order; a finished process keeps a cfg no        *)
(* definition has, so that its number is not used again.                    *)
NextPid == CHOOSE n \in Fresh : \A m \in Fresh : n <= m

Ended == [Gone EXCEPT !.cfg = MaxDefs + 1]

(***************************************************************************)
(* HttpReadinessProbe::inspect for definition d.  A server that does not   *)
(* answer in time reads as not ready.                                      *)
(***************************************************************************)
Answering(d) ==
  {n \in Pids : /\ proc[n].child = "serving"
                /\ Port[made[proc[n].cfg].set] = Port[made[d].set]}

(* The probe that takes any answer for the expected runner. *)
ProbeAnyInstance(d, seen, grace) ==
  {Quiet} \cup {[st |-> "ready", id |-> proc[n].id] : n \in Answering(d)}

Probe(d, seen, grace) ==
  {Quiet} \cup
  {[st |-> IF /\ seen.cfg = d
              /\ grace \/ (seen.pid = n /\ seen.inst = proc[n].id)
           THEN "ready" ELSE "mismatch",
    id |-> proc[n].id] : n \in Answering(d)}

-----------------------------------------------------------------------------
(***************************************************************************)
(* with_operation_policy: the lifecycle lease, the lifecycle document and  *)
(* the end of a command.  Whatever happens, the proof guard is dropped.    *)
(***************************************************************************)
Release == IF lease = Ctl THEN Free ELSE lease

Goto(pc) == ctl' = [ctl EXCEPT !.pc = pc]

Done(c, out) ==
  [Idle EXCEPT !.pc = "done", !.op = c.op, !.out = out, !.target = c.target,
               !.ready = c.ready, !.mark = c.mark, !.run = c.run]

Finish(c) ==
  /\ ctl' = Done(c, "ok")
  /\ life' = IF ctl.op = "uninstall" THEN "missing"
             ELSE IF ctl.op = "update" THEN life ELSE "completed"
  /\ lease' = Release

Refuse(reason) ==
  /\ ctl' = Done([ctl EXCEPT !.ready = Quiet], reason)
  /\ life' = IF ctl.op = "update" THEN life ELSE "failed"
  /\ lease' = Release
  /\ UNCHANGED <<task, disk, rt, proc, ids, faults>>

(* The command returns and releases the lifecycle lease. *)
Return ==
  /\ ctl.pc = "done"
  /\ ctl' = Idle
  /\ UNCHANGED <<task, disk, rt, life, lease, proc, ids, faults>>

Begin(op, set, nostart) ==
  /\ ctl.pc = "idle"
  /\ op \in {"install", "start", "restart", "update"} => Fresh # {}
  /\ op = "install" => Len(made) < MaxDefs
  /\ ctl' = [Idle EXCEPT !.op = op, !.set = set, !.nostart = nostart, !.mark = ids,
                         !.pc = CASE op = "install" -> "i_define"
                                  [] op = "uninstall" -> "u_scan"
                                  [] op = "update" -> "g_capture"
                                  [] OTHER -> "ctx"]
  /\ life' = IF op = "update" THEN life ELSE "active"
  /\ UNCHANGED <<task, disk, rt, lease, proc, ids, faults>>

(***************************************************************************)
(* The updater's guard: capture, stop, restore.  state_from_status counts  *)
(* any active layer as running, and because the guard itself holds the     *)
(* lifecycle lease a runtime document left in Starting counts too.         *)
(***************************************************************************)
WasRunning(r) ==
  \/ r.st = "ready"
  \/ Instances # {}
  \/ r.st # "mismatch" /\ (rt.phase = "starting" \/ (lease # Free /\ rt.phase # "stopping"))

GuardCapture ==
  /\ ctl.pc = "g_capture"
  /\ \/ /\ ~Registered \/ task.cfg \notin defs
        /\ ctl' = [ctl EXCEPT !.pc = "ctx", !.run = Instances # {}]
     \/ /\ Registered /\ task.cfg \in defs
        /\ \E r \in Probe(task.cfg, rt, FALSE) :
             ctl' = [ctl EXCEPT !.pc = "ctx", !.run = WasRunning(r),
                                !.prev = IF ~WasRunning(r) THEN 0
                                         ELSE IF r.id # 0 THEN r.id ELSE rt.inst]
  /\ UNCHANGED <<task, disk, rt, life, lease, proc, ids, faults>>

-----------------------------------------------------------------------------
(***************************************************************************)
(* install_locked.                                                         *)
(***************************************************************************)
(* The definition an install starts from: the registered task's, else the  *)
(* pointer's.                                                              *)
Existing == IF Registered THEN task.cfg ELSE cur

InstallDefine ==
  /\ ctl.pc = "i_define"
  /\ \/ /\ \/ task.kind = "foreign"
           \/ Registered /\ task.cfg \notin defs
           \/ ~Registered /\ cur # 0 /\ cur \notin defs
           \/ Registered /\ cur # 0 /\ made[cur].svc # made[task.cfg].svc
        /\ Refuse("state")
     \/ /\ task.kind # "foreign"
        /\ Registered => task.cfg \in defs
        /\ ~Registered /\ cur # 0 => cur \in defs
        /\ Registered /\ cur # 0 => made[cur].svc = made[task.cfg].svc
        /\ LET e == Existing
               same == e # 0 /\ made[e].set = ctl.set
               new == Len(made) + 1
           IN  /\ made' = IF same THEN made
                          ELSE Append(made, [set |-> ctl.set,
                                             svc |-> IF e = 0 THEN new ELSE made[e].svc])
               /\ defs' = IF same THEN defs ELSE defs \cup {new}
               /\ ctl' = [ctl EXCEPT !.pc = "i_register", !.old = e,
                                     !.target = IF same THEN e ELSE new,
                                     !.drift = ~same \/ ~Registered \/ task.drift]
        /\ UNCHANGED <<task, lost, cur, rt, life, lease, proc, ids, faults>>

(* register, when the task was missing or differed from the desired one. *)
InstallRegister ==
  /\ ctl.pc = "i_register"
  /\ task' = IF ctl.drift
             THEN [kind |-> "owned", cfg |-> ctl.target, drift |-> FALSE] ELSE task
  /\ Goto("i_point")
  /\ UNCHANGED <<disk, rt, life, lease, proc, ids, faults>>

InstallPoint ==
  /\ ctl.pc = "i_point"
  /\ cur' = ctl.target
  /\ Goto("i_clean")
  /\ UNCHANGED <<task, made, defs, lost, rt, life, lease, proc, ids, faults>>

(* The cleanup that keeps only what the runtime document names. *)
RetainedRuntimeOnly == {rt.cfg}

(* cleanup_definitions keeps the pointer's definition and the runtime's. *)
Retained == {cur, rt.cfg}

InstallClean ==
  /\ ctl.pc = "i_clean"
  /\ defs' = defs \cap Retained
  /\ IF ctl.nostart THEN Finish(ctl)
     ELSE /\ Goto(IF ctl.old \notin {0, ctl.target} THEN "i_replace" ELSE "s_read")
          /\ UNCHANGED <<life, lease>>
  /\ UNCHANGED <<task, made, lost, cur, rt, proc, ids, faults>>

(* prepare_configuration_replacement: a runner of the old configuration    *)
(* must be ready and is asked to stop.                                     *)
OldActive == rt.cfg = ctl.old /\ rt.phase \in {"starting", "ready", "stopping"} /\ lease # Free

InstallReplace ==
  /\ ctl.pc = "i_replace"
  /\ \/ /\ ~OldActive
        /\ Goto("s_read")
        /\ UNCHANGED <<task, disk, rt, life, lease, proc, ids, faults>>
     \/ /\ OldActive
        /\ \E r \in Probe(ctl.old, rt, FALSE) :
             \/ r.st # "ready" /\ Refuse("restart_required")
             \/ /\ r.st = "ready"
                /\ ctl' = [ctl EXCEPT !.pc = "i_post", !.oldId = r.id]
                /\ UNCHANGED <<task, disk, rt, life, lease, proc, ids, faults>>

(***************************************************************************)
(* RuntimeControl::shutdown: the server accepts only its own instance id;  *)
(* the answer may be lost after the server acted on it.                    *)
(***************************************************************************)
Asked(id) == {n \in Pids : proc[n].child = "serving" /\ proc[n].id = id}

Drained(S) == [n \in Pids |-> IF n \in S THEN [proc[n] EXCEPT !.child = "draining"] ELSE proc[n]]

Post(from, accepted, failed) ==
  /\ ctl.pc = from
  /\ \/ /\ Asked(ctl.oldId) # {}
        /\ proc' = Drained(Asked(ctl.oldId))
        /\ ctl' = [ctl EXCEPT !.pc = accepted]
        /\ UNCHANGED <<task, disk, rt, life, lease, ids, faults>>
     \/ failed

InstallPost == Post("i_post", "i_wait", Refuse("restart_required"))

InstallWait ==
  /\ ctl.pc = "i_wait"
  /\ \/ /\ lease = Free /\ Goto("s_read")
        /\ UNCHANGED <<task, disk, rt, life, lease, proc, ids, faults>>
     \/ lease # Free /\ Refuse("restart_required")

-----------------------------------------------------------------------------
(***************************************************************************)
(* require_installed_context, and what each command does with it.          *)
(***************************************************************************)
ContextError ==
  IF cur = 0 THEN "not_installed"
  ELSE IF cur \notin defs THEN "state"
  ELSE IF task.kind = "missing" THEN "not_installed"
  ELSE IF task.kind = "foreign" \/ task.cfg # cur THEN "drift"
  ELSE IF task.drift /\ (ctl.op \in {"start", "restart"} \/ ctl.ran) THEN "drift"
  ELSE "none"

Context ==
  /\ ctl.pc = "ctx"
  /\ \/ /\ ContextError = "not_installed" /\ ctl.op = "update" /\ ~ctl.ran
        /\ Goto("o_lease")
        /\ UNCHANGED <<task, disk, rt, life, lease, proc, ids, faults>>
     \/ /\ ContextError # "none"
        /\ ~(ContextError = "not_installed" /\ ctl.op = "update" /\ ~ctl.ran)
        /\ Refuse(ContextError)
     \/ /\ ContextError = "none"
        /\ ctl' = [ctl EXCEPT
                     !.pc = IF ctl.op = "start" \/ ctl.ran THEN "s_read" ELSE "p_read",
                     !.target = cur, !.obs = Instances # {}, !.drift = task.drift,
                     !.own = TRUE]
        /\ lease' = Release
        /\ UNCHANGED <<task, disk, rt, life, proc, ids, faults>>

(***************************************************************************)
(* start_definition.  The runtime document is read before the endpoint is  *)
(* probed, in the first look and in every poll.                            *)
(***************************************************************************)
StartRead ==
  /\ ctl.pc \in {"s_read", "s_poll"}
  /\ ctl' = [ctl EXCEPT !.pc = IF ctl.pc = "s_read" THEN "s_probe" ELSE "s_look",
                        !.seen = rt]
  /\ UNCHANGED <<task, disk, rt, life, lease, proc, ids, faults>>

(* A restart refuses the instance it stopped; a restore looks once more. *)
Started(r) ==
  IF ctl.op = "restart" /\ ctl.oldId # 0 /\ r.id = ctl.oldId
  THEN Refuse("restart_failed")
  ELSE /\ IF ctl.op = "update"
          THEN Goto("g_verify") /\ UNCHANGED <<life, lease>>
          ELSE Finish([ctl EXCEPT !.ready = r])
       /\ UNCHANGED <<task, disk, rt, proc, ids, faults>>

GuardVerify ==
  /\ ctl.pc = "g_verify"
  /\ \E r \in IF Registered /\ task.cfg \in defs THEN Probe(task.cfg, rt, FALSE) ELSE {Quiet} :
       IF r.st = "ready" /\ r.id # ctl.prev
       THEN /\ Finish([ctl EXCEPT !.ready = r])
            /\ UNCHANGED <<task, disk, rt, proc, ids, faults>>
       ELSE Refuse("restart_failed")

StartProbe ==
  /\ ctl.pc \in {"s_probe", "s_look"}
  /\ \E r \in Probe(ctl.target, ctl.seen, FALSE) :
       \/ r.st = "ready" /\ Started(r)
       \/ r.st = "mismatch" /\ Refuse("mismatch")
       \/ /\ r.st = "not_ready"
          /\ Goto(IF ctl.pc = "s_probe" THEN "s_run" ELSE "s_poll")
          /\ UNCHANGED <<task, disk, rt, life, lease, proc, ids, faults>>

StartTimeout == ctl.pc = "s_look" /\ Refuse("start_timeout")

AlreadyStarting ==
  /\ ctl.seen.cfg = ctl.target /\ ctl.seen.phase = "starting"
  /\ lease # Free \/ Instances # {}

StartRun ==
  /\ ctl.pc = "s_run"
  /\ \/ /\ ~AlreadyStarting /\ ~Registered
        /\ Refuse("scheduler")
     \/ /\ AlreadyStarting \/ Registered
        /\ proc' = IF AlreadyStarting \/ Instances # {} THEN proc ELSE Queued(proc, NextPid)
        /\ Goto("s_poll")
        /\ UNCHANGED <<task, disk, rt, life, lease, ids, faults>>

-----------------------------------------------------------------------------
(***************************************************************************)
(* stop_installed.                                                         *)
(***************************************************************************)
StopRead ==
  /\ ctl.pc = "p_read"
  /\ ctl' = [ctl EXCEPT !.pc = "p_probe", !.seen = rt]
  /\ UNCHANGED <<task, disk, rt, life, lease, proc, ids, faults>>

StopProbe ==
  /\ ctl.pc = "p_probe"
  /\ \E r \in Probe(ctl.target, ctl.seen, FALSE) :
       ctl' = [ctl EXCEPT !.pc = "p_lease", !.ready = r,
                          !.oldId = IF r.st = "ready" THEN r.id
                                    ELSE 0]
  /\ UNCHANGED <<task, disk, rt, life, lease, proc, ids, faults>>

(* instances() and every later look require the registration observed. *)
StillOwned == Registered /\ task.cfg = ctl.target

StopLease ==
  /\ ctl.pc = "p_lease"
  /\ \/ ~StillOwned /\ Refuse("task_changed")
     \/ /\ StillOwned
        /\ lease' = IF lease = Free THEN Ctl ELSE lease
        /\ Goto(IF /\ lease = Free /\ ~ctl.obs /\ Instances = {}
                   /\ ctl.ready.st # "ready" THEN "stopped"
                ELSE IF lease # Free /\ ctl.ready.st = "ready" THEN "p_post"
                ELSE "p_fall")
        /\ UNCHANGED <<task, disk, rt, life, proc, ids, faults>>

StopPost ==
  Post("p_post", "p_grace",
       /\ Goto("p_fall")
       /\ UNCHANGED <<task, disk, rt, life, lease, proc, ids, faults>>)

(***************************************************************************)
(* One turn of wait_for_quiescence: take the lease if it is free, and be   *)
(* done when the scheduler is inactive and the old instance is silent.     *)
(***************************************************************************)
OldSilent(r) == ctl.oldId = 0 \/ r.id # ctl.oldId

(* The wait that is satisfied by a silent endpoint. *)
QuiescedSilent(r) == OldSilent(r)

Quiesced(r) == lease \in {Free, Ctl} /\ Instances = {} /\ OldSilent(r)

StopWait(from) ==
  /\ ctl.pc = from
  /\ \/ ~StillOwned /\ Refuse("task_changed")
     \/ /\ StillOwned
        /\ \E r \in Probe(ctl.target, rt, TRUE) :
             \/ /\ Quiesced(r)
                /\ lease' = Ctl
                /\ Goto("stopped")
             \/ /\ ~Quiesced(r) /\ lease = Free
                /\ lease' = Ctl
                /\ UNCHANGED ctl
        /\ UNCHANGED <<task, disk, rt, life, proc, ids, faults>>

StopGrace ==
  \/ StopWait("p_grace")
  \/ /\ ctl.pc = "p_grace"            \* the grace period ends
     /\ Goto("p_fall")
     /\ lease' = Release
     /\ UNCHANGED <<task, disk, rt, life, proc, ids, faults>>

(* select_stop_target: the running instance whose engine pid the runtime   *)
(* document of this configuration names, or a queued one while the lease   *)
(* is held here.                                                           *)
RunningTarget ==
  {n \in Instances : /\ proc[n].st \in {"run", "backoff"}
                     /\ ctl.seen.cfg = ctl.target /\ ctl.seen.pid = n}

QueuedTarget == {n \in Instances : lease = Ctl /\ proc[n].st = "queued"}

(* The selection that takes whatever instance the scheduler runs. *)
StopTargetAny == Instances

StopTarget == IF RunningTarget # {} THEN RunningTarget ELSE QueuedTarget

StopFallback ==
  /\ ctl.pc = "p_fall"
  /\ \/ /\ ctl.drift \/ ~StillOwned \/ StopTarget = {}
        /\ Refuse("stop_unsafe")
     \/ /\ ~ctl.drift /\ StillOwned
        /\ \E n \in StopTarget :
             ctl' = [ctl EXCEPT !.pc = "p_kill", !.tgt = n,
                                !.obs = proc[n].st = "queued"]
        /\ UNCHANGED <<task, disk, rt, life, lease, proc, ids, faults>>

(* stop_instance revalidates the registration and the instance. *)
StopKill ==
  /\ ctl.pc = "p_kill"
  /\ LET gone == Instances = {}
         same == ctl.tgt \in Instances /\ (proc[ctl.tgt].st = "queued") = ctl.obs
     IN  \/ /\ ~StillOwned \/ task.drift \/ (~gone /\ ~same)
            /\ Refuse("task_changed")
         \/ /\ StillOwned /\ ~task.drift /\ (gone \/ same)
            /\ proc' = IF same THEN [proc EXCEPT ![ctl.tgt].stop = TRUE] ELSE proc
            /\ Goto("p_wait")
            /\ UNCHANGED <<task, disk, rt, life, lease, ids, faults>>

StopForced ==
  \/ StopWait("p_wait")
  \/ ctl.pc = "p_wait" /\ Refuse("stop_timeout")

(* The stop that lets go of the instance lease once it saw it free. *)
KeptGuardNever == Release

(* restart and uninstall keep the proof guard; the updater's stop drops it. *)
KeptGuard == IF ctl.op = "update" THEN Release ELSE lease

(* What a command does with the proof that the service is stopped. *)
Stopped ==
  /\ ctl.pc = "stopped"
  /\ IF ctl.op = "stop" \/ (ctl.op = "update" /\ ~ctl.run)
     THEN Finish(ctl)
     ELSE /\ ctl' = [ctl EXCEPT
                       !.pc = CASE ctl.op = "uninstall" -> IF ctl.own THEN "u_task" ELSE "u_rt"
                                [] OTHER -> "ctx",
                       !.ran = TRUE]
          /\ lease' = KeptGuard
          /\ UNCHANGED life
  /\ UNCHANGED <<task, disk, rt, proc, ids, faults>>

-----------------------------------------------------------------------------
(***************************************************************************)
(* stop_orphan: no registration, so only an exact control shutdown.        *)
(***************************************************************************)
OrphanLease ==
  /\ ctl.pc = "o_lease"
  /\ \/ /\ lease = Free
        /\ lease' = Ctl
        /\ Goto("stopped")
        /\ UNCHANGED <<task, disk, rt, life, proc, ids, faults>>
     \/ /\ lease # Free /\ (cur \notin defs \/ rt = NoRt)
        /\ Refuse("stop_unsafe")
     \/ /\ lease # Free /\ cur \in defs /\ rt # NoRt
        /\ ctl' = [ctl EXCEPT !.pc = "o_probe", !.target = cur, !.seen = rt]
        /\ UNCHANGED <<task, disk, rt, life, lease, proc, ids, faults>>

OrphanProbe ==
  /\ ctl.pc = "o_probe"
  /\ \E r \in Probe(ctl.target, ctl.seen, FALSE) :
       \/ r.st # "ready" /\ Refuse("stop_unsafe")
       \/ /\ r.st = "ready"
          /\ ctl' = [ctl EXCEPT !.pc = "o_post", !.oldId = r.id]
          /\ UNCHANGED <<task, disk, rt, life, lease, proc, ids, faults>>

OrphanPost == Post("o_post", "o_wait", Refuse("stop_unsafe"))

OrphanWait ==
  /\ ctl.pc = "o_wait"
  /\ \/ /\ lease = Free
        /\ \E r \in Probe(ctl.target, rt, FALSE) : r.id # ctl.oldId
        /\ lease' = Ctl
        /\ Goto("stopped")
        /\ UNCHANGED <<task, disk, rt, life, proc, ids, faults>>
     \/ Refuse("stop_timeout")

-----------------------------------------------------------------------------
(***************************************************************************)
(* uninstall_locked.                                                       *)
(***************************************************************************)
Trusted == IF Registered THEN task.cfg ELSE cur

(* verified_definition_deletion_set. *)
DeletionSet ==
  IF Trusted = 0 THEN {}
  ELSE {Trusted, cur} \cup
       {d \in defs \cup {rt.cfg} : d # 0 /\ made[d].svc = made[Trusted].svc}

UninstallScan ==
  /\ ctl.pc = "u_scan"
  /\ \/ task.kind = "foreign" /\ Refuse("conflict")
     \/ /\ task.kind # "foreign"
        /\ ctl' = [ctl EXCEPT !.del = DeletionSet, !.own = Registered,
                              !.target = task.cfg, !.obs = Instances # {},
                              !.drift = task.drift,
                              !.pc = IF ~Registered THEN "o_lease"
                                     ELSE IF task.cfg \in defs THEN "p_read"
                                     ELSE "u_prove"]
        /\ UNCHANGED <<task, disk, rt, life, lease, proc, ids, faults>>

(* prove_inactive_owned_task: without a definition nothing is stopped. *)
UninstallProve ==
  /\ ctl.pc = "u_prove"
  /\ \/ /\ lease # Free \/ ctl.obs \/ ~StillOwned \/ Instances # {}
        /\ Refuse("stop_unsafe")
     \/ /\ lease = Free /\ ~ctl.obs /\ StillOwned /\ Instances = {}
        /\ lease' = Ctl
        /\ Goto("stopped")
        /\ UNCHANGED <<task, disk, rt, life, proc, ids, faults>>

Detached(stop) ==
  [n \in Pids |-> IF n \in Instances
                  THEN [proc[n] EXCEPT !.owned = FALSE, !.stop = @ \/ stop] ELSE proc[n]]

(* delete_owned.  It refuses a registration with another marker, which the *)
(* lifecycle lease excludes; systemd also stops an instance that began     *)
(* since, the Task Scheduler leaves it to find the lease taken.            *)
UninstallTask ==
  /\ ctl.pc = "u_task"
  /\ task' = NoTask
  /\ \E stop \in BOOLEAN : proc' = Detached(stop)
  /\ Goto("u_rt")
  /\ UNCHANGED <<disk, rt, life, lease, ids, faults>>

UninstallRuntime ==
  /\ ctl.pc = "u_rt"
  /\ rt' = NoRt
  /\ Goto("u_defs")
  /\ UNCHANGED <<task, disk, life, lease, proc, ids, faults>>

UninstallDefinition ==
  /\ ctl.pc = "u_defs"
  /\ IF ctl.del \cap defs = {}
     THEN Goto("u_cur") /\ UNCHANGED defs
     ELSE /\ \E d \in ctl.del \cap defs : defs' = defs \ {d}
          /\ UNCHANGED ctl
  /\ UNCHANGED <<task, made, lost, cur, rt, life, lease, proc, ids, faults>>

UninstallCurrent ==
  /\ ctl.pc = "u_cur"
  /\ cur' = 0
  /\ Finish(ctl)
  /\ UNCHANGED <<task, made, defs, lost, rt, proc, ids, faults>>

Command ==
  \/ Return \/ GuardCapture \/ GuardVerify \/ InstallDefine \/ InstallRegister \/ InstallPoint \/ InstallClean
  \/ InstallReplace \/ InstallPost \/ InstallWait
  \/ Context \/ StartRead \/ StartProbe \/ StartTimeout \/ StartRun
  \/ StopRead \/ StopProbe \/ StopLease \/ StopPost \/ StopGrace
  \/ StopFallback \/ StopKill \/ StopForced \/ Stopped
  \/ OrphanLease \/ OrphanProbe \/ OrphanPost \/ OrphanWait
  \/ UninstallScan \/ UninstallProve \/ UninstallTask \/ UninstallRuntime
  \/ UninstallDefinition \/ UninstallCurrent

-----------------------------------------------------------------------------
(***************************************************************************)
(* The scheduler and the launcher (bin/ah-mcp-service.rs).  A child that   *)
(* exits 0 ends its launcher; any other end is retried Retries times.      *)
(***************************************************************************)
Freed(n) == IF lease = n THEN Free ELSE lease

(* The registration is read when the instance starts, not when it queues. *)
Launch(n) ==
  /\ proc[n].st = "queued"
  /\ proc' = [proc EXCEPT ![n] =
                IF Registered /\ proc[n].owned
                THEN [@ EXCEPT !.st = "run", !.cfg = task.cfg, !.child = "boot"] ELSE Ended]
  /\ UNCHANGED <<task, disk, rt, life, lease, ids, ctl, faults>>

(* The launcher without its retry bound. *)
ChildRetried(n) ==
  [proc[n] EXCEPT !.st = "backoff", !.tries = @ + 1, !.child = "none", !.id = 0]

ChildFailed(n) ==
  IF proc[n].tries < Retries
  THEN [proc[n] EXCEPT !.st = "backoff", !.tries = @ + 1, !.child = "none", !.id = 0]
  ELSE Ended

Retry(n) ==
  /\ proc[n].st = "backoff"
  /\ proc' = [proc EXCEPT ![n].st = "run", ![n].child = "boot"]
  /\ UNCHANGED <<task, disk, rt, life, lease, ids, ctl, faults>>

(* stop_instance reaches the launcher, whose job object takes the child. *)
Killed(n) ==
  /\ proc[n].stop
  /\ proc' = [proc EXCEPT ![n] = Ended]
  /\ lease' = Freed(n)
  /\ UNCHANGED <<task, disk, rt, life, ids, ctl, faults>>

(***************************************************************************)
(* ManagedRunner: preflight takes the lease, then writes the runtime       *)
(* document; mark_ready, mark_stopping, mark_stopped and mark_failed       *)
(* follow the server.                                                      *)
(***************************************************************************)
Preflight(n) ==
  /\ proc[n].child = "boot"
  /\ \/ /\ proc[n].cfg \notin defs
        /\ proc' = [proc EXCEPT ![n] = ChildFailed(n)]
        /\ UNCHANGED lease
     \/ /\ proc[n].cfg \in defs /\ lease # Free
        /\ proc' = [proc EXCEPT ![n] = Ended]
        /\ UNCHANGED lease
     \/ /\ proc[n].cfg \in defs /\ lease = Free
        /\ proc' = [proc EXCEPT ![n].child = "leased"]
        /\ lease' = n
  /\ UNCHANGED <<task, disk, rt, life, ids, ctl, faults>>

WriteStarting(n) ==
  /\ proc[n].child = "leased"
  /\ ids' = ids + 1
  /\ proc' = [proc EXCEPT ![n].child = "starting", ![n].id = ids + 1]
  /\ rt' = [cfg |-> proc[n].cfg, inst |-> ids + 1, pid |-> n, phase |-> "starting"]
  /\ UNCHANGED <<task, disk, life, lease, ctl, faults>>

(* ManagedRunner::update writes the runner's own state with a new phase. *)
Mark(n, phase) == [cfg |-> proc[n].cfg, inst |-> proc[n].id, pid |-> n, phase |-> phase]

RunnerStep(n, from, to, phase) ==
  /\ proc[n].child = from
  /\ proc' = [proc EXCEPT ![n].child = to]
  /\ rt' = Mark(n, phase)
  /\ UNCHANGED <<task, disk, life, lease, ids, ctl, faults>>

MarkReady(n) == RunnerStep(n, "starting", "serving", "ready")
MarkStopping(n) == RunnerStep(n, "draining", "stopping", "stopping")
MarkStopped(n) == RunnerStep(n, "stopping", "exiting", "stopped")

Exit(n) ==
  /\ proc[n].child = "exiting"
  /\ proc' = [proc EXCEPT ![n] = Ended]
  /\ lease' = Freed(n)
  /\ UNCHANGED <<task, disk, rt, life, ids, ctl, faults>>

Runner(n) ==
  \/ Launch(n) \/ Retry(n) \/ Killed(n) \/ Preflight(n) \/ WriteStarting(n)
  \/ MarkReady(n) \/ MarkStopping(n) \/ MarkStopped(n) \/ Exit(n)

(***************************************************************************)
(* instance_lease_is_occupied of a status call, which waits for nobody:    *)
(* lock::is_free takes the lease and drops it again.  The commands above   *)
(* ask the same question in one step.                                      *)
(***************************************************************************)
Fault == faults < MaxFaults /\ faults' = faults + 1

StatusPeek ==
  /\ Fault
  /\ lease = Free
  /\ lease' = Peek
  /\ UNCHANGED <<task, disk, rt, life, proc, ids, ctl>>

StatusDrop ==
  /\ lease = Peek
  /\ lease' = Free
  /\ UNCHANGED <<task, disk, rt, life, proc, ids, ctl, faults>>

-----------------------------------------------------------------------------
(***************************************************************************)
(* What the code does not control: crashes, logons and the user.           *)
(***************************************************************************)
(* The command's process dies; the system releases both leases. *)
CommandCrash ==
  /\ Fault
  /\ ctl.pc \notin {"idle", "done"}
  /\ ctl' = Idle
  /\ lease' = Release
  /\ UNCHANGED <<task, disk, rt, life, proc, ids>>

(* The runner fails and records it (mark_failed), or dies without a word. *)
RunnerFails(n) ==
  /\ Fault
  /\ proc[n].child \in Live
  /\ rt' \in {rt} \cup (IF proc[n].child \in {"starting", "serving", "draining"}
                        THEN {Mark(n, "failed")} ELSE {})
  /\ proc' = [proc EXCEPT ![n] = ChildFailed(n)]
  /\ lease' = Freed(n)
  /\ UNCHANGED <<task, disk, life, ids, ctl>>

(* The logon trigger; the last launch of the bound is left to a command. *)
Logon ==
  /\ Fault
  /\ Registered /\ Instances = {} /\ Cardinality(Fresh) > 1
  /\ proc' = Queued(proc, NextPid)
  /\ UNCHANGED <<task, disk, rt, life, lease, ids, ctl>>

UserEditsTask ==
  /\ Fault
  /\ Registered /\ ~task.drift
  /\ task' = [task EXCEPT !.drift = TRUE]
  /\ UNCHANGED <<disk, rt, life, lease, proc, ids, ctl>>

UserRemovesTask ==
  /\ Fault
  /\ Registered
  /\ task' = NoTask
  /\ proc' = Detached(FALSE)
  /\ UNCHANGED <<disk, rt, life, lease, ids, ctl>>

UserRemovesDefinition(d) ==
  /\ Fault
  /\ d \in defs
  /\ defs' = defs \ {d}
  /\ lost' = lost \cup {d}
  /\ UNCHANGED <<task, made, cur, rt, life, lease, proc, ids, ctl>>

-----------------------------------------------------------------------------
Init ==
  /\ task \in {NoTask, Foreign}
  /\ made = <<>> /\ defs = {} /\ lost = {} /\ cur = 0
  /\ rt = NoRt /\ life = "missing" /\ lease = Free
  /\ proc = [n \in Pids |-> Gone] /\ ids = 0
  /\ ctl = Idle /\ faults = 0

Next ==
  \/ \E set \in Settings, nostart \in BOOLEAN : Begin("install", set, nostart)
  \/ \E op \in Ops \ {"install"} : Begin(op, 0, FALSE)
  \/ Command
  \/ \E n \in Pids : Runner(n) \/ RunnerFails(n)
  \/ StatusPeek \/ StatusDrop
  \/ CommandCrash \/ Logon \/ UserEditsTask \/ UserRemovesTask
  \/ \E d \in 1..MaxDefs : UserRemovesDefinition(d)

Spec == Init /\ [][Next]_vars

(***************************************************************************)
(* Fairness: a command is a running process, its polls have a deadline,    *)
(* launchers, runners and status calls are running processes, and the user *)
(* tries uninstall again and again.                                        *)
(***************************************************************************)
Fairness ==
  /\ WF_vars(Command) /\ SF_vars(StartTimeout) /\ WF_vars(StatusDrop)
  /\ \A n \in Pids : WF_vars(Runner(n))
  /\ SF_vars(Begin("uninstall", 0, FALSE))

FairSpec == Spec /\ Fairness

-----------------------------------------------------------------------------
(* Every document names a definition that was written. *)
ServiceTypeOK ==
  /\ made \in Seq([set : Settings, svc : 1..MaxDefs]) /\ Len(made) <= MaxDefs
  /\ defs \subseteq DOMAIN made /\ lost \subseteq DOMAIN made
  /\ cur \in {0} \cup DOMAIN made
  /\ task \in {NoTask, Foreign}
       \cup [kind : {"owned"}, cfg : DOMAIN made, drift : BOOLEAN]
  /\ rt.cfg \in {0} \cup DOMAIN made /\ rt.pid \in {0} \cup Pids /\ rt.inst <= ids
  /\ life \in {"missing", "active", "completed", "failed"}
  /\ lease \in {Free, Ctl, Peek} \cup Pids
  /\ \A n \in Pids : /\ proc[n].child \in Live \cup {"none", "boot"}
                      /\ proc[n].st \in {"none", "queued", "run", "backoff"}
                      /\ proc[n].tries <= Retries /\ proc[n].id <= ids
  /\ faults \in 0..MaxFaults

(* The registration is the activation authority: at every moment, whatever *)
(* step a command died after, the definition it names can be read, and an  *)
(* index whose definition is gone belongs to a finished deregistration     *)
(* (cleanup_definitions' retained set, the order of uninstall_locked).     *)
TaskResolvable ==
  /\ Registered => task.cfg \in defs \cup lost
  /\ cur # 0 /\ cur \notin defs \cup lost => ~Registered

(* From the proof that the service is stopped until its last file is gone, *)
(* no runner gets past preflight, even one the scheduler starts meanwhile  *)
(* (StopResult::proof_guard, held through uninstall_locked).               *)
QuietRemoval ==
  ctl.pc \in {"u_task", "u_rt", "u_defs", "u_cur"} =>
    \A n \in Pids : proc[n].child \notin Live

(* The service is removed only while it is quiet, and what remains after a *)
(* removal that died halfway can still be read.                            *)
RemovalSafe == TaskResolvable /\ QuietRemoval

(* A command stops nothing but a runner of the configuration it proved,    *)
(* whether by control shutdown or through the scheduler                    *)
(* (readiness identity, select_stop_target, stop_instance).                *)
StopsOnlyOwn ==
  [][\A n \in Pids :
       \/ proc[n].child = "serving" /\ proc'[n].child = "draining"
       \/ ctl.pc = "p_kill" /\ ~proc[n].stop /\ proc'[n].stop /\ proc[n].st # "queued"
       => proc[n].cfg = IF ctl.op = "install" THEN ctl.old ELSE ctl.target]_vars

(* When stop reports success no runner holds the instance lease, however   *)
(* the runtime document, the endpoint and the scheduler disagreed on the   *)
(* way (wait_for_quiescence, already_stopped).                             *)
StoppedMeansQuiet ==
  [][ctl.pc = "stopped" /\ ctl.op = "stop" /\ ctl'.out = "ok" =>
       \A n \in Pids : proc[n].child \notin Live]_vars

(* The instance a successful start, install or restart names runs the      *)
(* configuration that was asked for and not one left over from before a    *)
(* reconfiguration; after a restart, or a restore that follows an update,  *)
(* it is one that did not exist when the command began, also when no old   *)
(* instance could be named (start_definition, restart_locked).             *)
StartedIsExact ==
  /\ ctl.out = "ok" /\ ctl.op \in {"start", "install", "restart"} =>
       \A n \in Pids : proc[n].id # 0 /\ proc[n].id = ctl.ready.id => proc[n].cfg = ctl.target
  /\ ctl.out = "ok" /\ (ctl.op = "restart" \/ (ctl.op = "update" /\ ctl.run)) =>
       ctl.ready.id > ctl.mark

(* A start starts, and a stop stops, the service it is about and no other. *)
CommandsExact == []StartedIsExact /\ StopsOnlyOwn /\ StoppedMeansQuiet

(* A registration is eventually removed if uninstall is repeated: "let a   *)
(* later lifecycle command perform supported reconciliation"               *)
(* (docs/agents/recipes/mcp-http.md).                                      *)
LaterCommandReconciles == Registered ~> ~Registered

(* A runner the scheduler started gives up only in favour of a runner or a *)
(* lifecycle command: status "is read-only" and can be called "at any      *)
(* time" (docs/agents/recipes/mcp-http.md).                                *)
StatusHarmless ==
  [][\A n \in Pids :
       proc[n].child = "boot" /\ proc[n].cfg \in defs /\ ~proc[n].stop /\ proc'[n].st = "none"
       => lease \in Pids \cup {Ctl}]_vars

=============================================================================
