------------------------ MODULE ServiceRegistration ------------------------
(***************************************************************************)
(* What the managed MCP service leaves with the operating system, and how  *)
(* `ah mcp service` reads it back (ah-service: store, systemd_unit,        *)
(* systemd_scheduler, windows_task, windows_scheduler, lifecycle/status).  *)
(*                                                                         *)
(* A configuration is written as an immutable definition file, registered  *)
(* with systemd (a unit file, a reload, an enable) or with the Task        *)
(* Scheduler (one call), and pointed to by `current`.  Commands run one at *)
(* a time under the lifecycle lease; each may fail or die between any two  *)
(* of its calls.  Meanwhile users edit the registration, the manager       *)
(* starts and ends invocations.                                            *)
(*                                                                         *)
(* Configurations are the members of Gens.  A unit file is the sequence of *)
(* its lines, reduced to the ownership marker, the command and the restart *)
(* policy; a task is its registration, trigger, action and settings parts. *)
(***************************************************************************)
EXTENDS Naturals, Sequences, SequencesExt

CONSTANTS Gens,        \* configuration ids
          UnitEdits,   \* what users do to a unit file: "change", "append"
          MaxUnitEdits,    \* edits by users
          MaxCommands,     \* commands
          MaxStarts    \* invocations the manager starts

VARIABLES adapter,     \* "systemd" or "task_scheduler"
          definitions, \* definition file of each configuration
          current,     \* configuration the pointer names, or "none"
          unit,        \* unit file on disk: its lines, <<>> when missing
          loaded,      \* lines the systemd manager has loaded
          shadowed,    \* the manager loaded the unit from another directory
          enabled,     \* the unit is enabled
          registration,        \* Task Scheduler's registration
          invocations, \* live invocations: [id, state]
          cmd,         \* the running command
          unitEdits, commands, starts,
          disturbed,   \* something changed since the command's first reading
          stopped      \* <<asked for, stopped>> of the last stop

registrationVars == <<adapter, definitions, current, unit, loaded, shadowed, enabled, registration,
                      invocations, cmd, unitEdits, commands, starts, disturbed, stopped>>

systemdVars == <<unit, loaded, shadowed, enabled>>
countVars == <<unitEdits, commands, starts>>

NoGen == "none"
NoRegistration == [marker |-> NoGen]

\* A configuration id is none of the words that stand for something else.
ASSUME GensAssumption == Gens \cap {NoGen, "edited", "empty"} = {}

-----------------------------------------------------------------------------
(* The two projections of a configuration and their comparison.             *)

Line(k, v) == [key |-> k, value |-> v]

\* UnitSpec::render.
render(g) == <<Line("Marker", g), Line("ExecStart", g), Line("Restart", "no")>>

\* The value UnitSpec::parse reads for a key: the first line that has it.
Value(lines, k) ==
    IF \E i \in DOMAIN lines : lines[i].key = k
      THEN lines[CHOOSE i \in DOMAIN lines : /\ lines[i].key = k
                                             /\ \A j \in 1..(i - 1) : lines[j].key # k].value
      ELSE "empty"

\* The value systemd gives a key: the last assignment in the lines it loaded.
Effective(lines, k) == Value(Reverse(lines), k)

\* Mutant: the comparison looks at the file and the manager's copy, not at the logon link.
unitDriftLinkForgotten(g, u) ==
    {k \in {"Marker", "ExecStart", "Restart"} : Value(u.lines, k) # Value(render(g), k)}
        \cup (IF u.needs_daemon_reload THEN {"needs_daemon_reload"} ELSE {})

\* systemd_unit::semantic_drift of an observed unit.
unitDrift(g, u) ==
    {k \in {"Marker", "ExecStart", "Restart"} : Value(u.lines, k) # Value(render(g), k)}
        \cup (IF u.enabled THEN {} ELSE {"enabled"})
        \cup (IF u.needs_daemon_reload THEN {"needs_daemon_reload"} ELSE {})

\* populate_definition: the task a configuration asks for.
populate_definition(g) ==
    [marker |-> g, source |-> "AIHelper", triggers |-> <<"logon">>, actions |-> <<g>>, settings |-> "canonical"]

\* The parts observe_registered reads: of several triggers or actions only the count.
observe_registered(t) ==
    [marker |-> t.marker, trigger_count |-> Len(t.triggers), action_count |-> Len(t.actions), settings |-> t.settings,
     trigger |-> IF Len(t.triggers) = 1 THEN t.triggers[1] ELSE "other",
     action |-> IF Len(t.actions) = 1 THEN t.actions[1] ELSE "other"]

\* TaskSpec::from, as it reads back.
TaskSpec(g) == observe_registered(populate_definition(g))

\* windows_task::semantic_drift: who owns it and what it runs, when; then how.
actionDrift(g, t) ==
    {f \in {"marker", "trigger_count", "trigger", "action_count", "action"} : TaskSpec(g)[f] # observe_registered(t)[f]}
settingsDrift(g, t) == {f \in {"settings"} : TaskSpec(g)[f] # observe_registered(t)[f]}
taskDrift(g, t) == actionDrift(g, t) \cup settingsDrift(g, t)

-----------------------------------------------------------------------------
(* The adapters' observations.                                              *)

Missing == [kind |-> "missing"]
ForeignTask == [kind |-> "foreign"]
Owned(g, d) == [kind |-> "owned", marker |-> g, drift |-> d]

\* manager_state: the loaded copy is not the file's.
NeedDaemonReload == loaded # unit

\* The second half of SystemdUserScheduler::inspect, on the text it has read.
inspectUnit(text) ==
    IF shadowed THEN ForeignTask
    ELSE IF Value(text, "Marker") \notin Gens THEN ForeignTask
    ELSE LET g == Value(text, "Marker")
         IN  Owned(g, unitDrift(g, [lines |-> text, enabled |-> enabled,
                                    needs_daemon_reload |-> NeedDaemonReload]))

\* WindowsTaskScheduler::inspect.
inspectTask ==
    IF registration = NoRegistration THEN Missing
    ELSE IF registration.marker \notin Gens \/ registration.source # "AIHelper" THEN ForeignTask
    ELSE Owned(registration.marker, taskDrift(registration.marker, registration))

\* read_document and ServiceDefinition::validate: a partial file is invalid.
Resolvable(g) == definitions[g] = "whole"

-----------------------------------------------------------------------------
(* Commands.  `cmd` is [op, pc, gen, text, seen, target].                   *)

NoCommand == [op |-> "idle", pc |-> "idle", gen |-> NoGen, text |-> <<>>, seen |-> Missing, target |-> 0, status |-> "none"]

At(o, p) == cmd.op = o /\ cmd.pc = p
Proceed(p) == cmd' = [cmd EXCEPT !.pc = p]
FailCommand == cmd' = [NoCommand EXCEPT !.status = "error"]
EndCommand(s) == cmd' = [NoCommand EXCEPT !.status = s, !.gen = cmd.gen]

\* A command begins: an installation, a status, a stop of an invocation seen
\* before, an uninstallation.
BeginCommand ==
    /\ cmd.op = "idle" /\ commands < MaxCommands
    /\ commands' = commands + 1 /\ disturbed' = FALSE
    /\ \/ \E o \in {"prepare", "status", "uninstall"} : cmd' = [NoCommand EXCEPT !.op = o, !.pc = "read"]
       \/ /\ current # NoGen
          /\ \E i \in invocations : cmd' = [NoCommand EXCEPT !.op = "stop", !.pc = "read", !.gen = current, !.target = i.id]
    /\ UNCHANGED <<adapter, definitions, current, systemdVars, registration, invocations, unitEdits, starts, stopped>>

\* install_locked up to the definition: a foreign registration refuses; the
\* definition of an owned one, else the pointer's, must be readable; a
\* configuration that matches keeps its id, any other gets a fresh one.
InstallPrepare ==
    /\ At("prepare", "decide")
    /\ LET existing == IF cmd.seen.kind = "owned" THEN cmd.seen.marker ELSE current
           readable == existing = NoGen \/ Resolvable(existing)
       IN  IF cmd.seen.kind = "foreign" \/ ~readable THEN FailCommand
           ELSE \E g \in {existing} \cup {x \in Gens : definitions[x] = "none"} :
                    g # NoGen /\ cmd' = [cmd EXCEPT !.op = "install", !.pc = "define", !.gen = g]
    /\ UNCHANGED <<adapter, definitions, current, systemdVars, registration, invocations, countVars, disturbed, stopped>>

\* After the definition: an owned registration without drift from it is kept.
KeptLines == cmd.seen.kind = "owned" /\ cmd.seen.marker = cmd.gen /\ cmd.seen.drift = {}
Defined == IF KeptLines THEN "point" ELSE "register"

\* Mutant: the registration before the definition is on disk.
write_immutable_definitionLate ==
    /\ \/ At("install", "define") /\ definitions' = [definitions EXCEPT ![cmd.gen] = "partial"] /\ Proceed("register")
    /\ UNCHANGED <<adapter, current, systemdVars, registration, invocations, countVars, disturbed, stopped>>

\* ServiceStore::write_immutable_definition: create_new, write and sync, read
\* back.  A file that is there already must read back as this configuration.
write_immutable_definition ==
    /\ \/ At("install", "define") /\ definitions[cmd.gen] = "none"
          /\ definitions' = [definitions EXCEPT ![cmd.gen] = "partial"] /\ Proceed("fill")
       \/ At("install", "define") /\ Resolvable(cmd.gen) /\ UNCHANGED definitions /\ Proceed(Defined)
       \/ At("install", "define") /\ definitions[cmd.gen] = "partial" /\ UNCHANGED definitions /\ FailCommand
       \/ At("install", "fill")
          /\ definitions' = [definitions EXCEPT ![cmd.gen] = "whole"] /\ Proceed(Defined)
    /\ UNCHANGED <<adapter, current, systemdVars, registration, invocations, countVars, disturbed, stopped>>

\* SystemdUserScheduler::register, WindowsTaskScheduler::register: each call
\* of the sequence is a step.
register ==
    /\ \/ /\ At("install", "register") /\ adapter = "systemd"
          /\ unit' = render(cmd.gen) /\ Proceed("reload") /\ UNCHANGED <<loaded, shadowed, enabled, registration>>
       \/ /\ At("install", "reload")
          /\ loaded' = unit /\ Proceed("enable") /\ UNCHANGED <<unit, shadowed, enabled, registration>>
       \/ /\ At("install", "enable")
          /\ enabled' = TRUE /\ Proceed("read") /\ UNCHANGED <<unit, loaded, shadowed, registration>>
       \/ /\ At("install", "register") /\ adapter = "task_scheduler"
          /\ registration' = populate_definition(cmd.gen) /\ Proceed("read") /\ UNCHANGED systemdVars
    /\ UNCHANGED <<adapter, definitions, current, invocations, countVars, disturbed, stopped>>

\* inspect: the unit file, then what the manager says of it (one call each);
\* on Windows one COM read.  Every operation begins with it.
inspect ==
    /\ cmd.op # "idle"
    /\ \/ /\ cmd.pc = "read" /\ adapter = "systemd"
          /\ IF unit = <<>> THEN cmd' = [cmd EXCEPT !.seen = Missing, !.pc = "decide"]
                            ELSE cmd' = [cmd EXCEPT !.text = unit, !.pc = "show"]
       \/ cmd.pc = "show" /\ cmd' = [cmd EXCEPT !.seen = inspectUnit(cmd.text), !.pc = "decide"]
       \/ cmd.pc = "read" /\ adapter = "task_scheduler" /\ cmd' = [cmd EXCEPT !.seen = inspectTask, !.pc = "decide"]
    /\ disturbed' = (disturbed /\ cmd.pc # "read")
    /\ UNCHANGED <<adapter, definitions, current, systemdVars, registration, invocations, countVars, stopped>>

\* The end of register and of install_locked: an owned readback without drift
\* (require_no_drift), the pointer, then every other readable definition goes
\* (cleanup_definitions).
RegisterPoint ==
    /\ \/ /\ At("install", "decide")
          /\ IF cmd.seen.kind = "owned" /\ cmd.seen.marker = cmd.gen /\ cmd.seen.drift = {} THEN Proceed("point") ELSE FailCommand
          /\ UNCHANGED <<definitions, current>>
       \/ At("install", "point") /\ current' = cmd.gen /\ Proceed("clean") /\ UNCHANGED definitions
       \/ /\ At("install", "clean")
          /\ definitions' = [g \in Gens |-> IF g # current /\ Resolvable(g) THEN "none" ELSE definitions[g]]
          /\ EndCommand("changed") /\ UNCHANGED current
    /\ UNCHANGED <<adapter, systemdVars, registration, invocations, countVars, disturbed, stopped>>

\* The pointer names the configuration the registration is marked with.
PointerAgrees(g) == current = g

\* status_snapshot, from its inspection to the registration status.
status_snapshot ==
    /\ At("status", "decide")
    /\ LET g == cmd.seen.marker
           known == cmd.seen.kind = "owned" /\ Resolvable(g)
       IN  IF cmd.seen.kind = "missing" THEN EndCommand("not_installed")
           ELSE IF known /\ PointerAgrees(g) /\ cmd.seen.drift = {}
             THEN cmd' = [NoCommand EXCEPT !.status = "installed", !.gen = g]
             ELSE EndCommand("configuration_drift")
    /\ UNCHANGED <<adapter, definitions, current, systemdVars, registration, invocations, countVars, disturbed, stopped>>

\* require_owned / require_owned_registration.
require_owned == cmd.seen.kind = "owned" /\ cmd.seen.marker = cmd.gen

\* classify_stop_target and the systemd match: the invocation is still live.
Targeted == {i \in invocations : i.id = cmd.target}

\* Mutant: the task is stopped, not the invocation.
stop_instanceByName ==
    /\ \/ /\ At("stop", "decide")
          /\ IF require_owned /\ cmd.seen.drift = {} THEN Proceed("match") ELSE FailCommand
          /\ UNCHANGED <<invocations, stopped>>
       \/ /\ At("stop", "match")
          /\ IF Targeted = {} THEN EndCommand("gone") ELSE Proceed("stop")
          /\ UNCHANGED <<invocations, stopped>>
       \/ /\ At("stop", "stop")
          /\ invocations' = {}
          /\ stopped' = [asked |-> {cmd.target}, hit |-> {i.id : i \in invocations}] /\ EndCommand("stopped")
    /\ UNCHANGED <<adapter, definitions, current, systemdVars, registration, countVars, disturbed>>

\* stop_instance: owned and without drift, the invocation still the one named,
\* then the stop: of that instance on Windows, of the unit by name on systemd.
stop_instance ==
    /\ \/ /\ At("stop", "decide")
          /\ IF require_owned /\ cmd.seen.drift = {} THEN Proceed("match") ELSE FailCommand
          /\ UNCHANGED <<invocations, stopped>>
       \/ /\ At("stop", "match")
          /\ IF Targeted = {} THEN EndCommand("gone") ELSE Proceed("stop")
          /\ UNCHANGED <<invocations, stopped>>
       \/ /\ At("stop", "stop")
          /\ LET hit == IF adapter = "systemd" THEN invocations ELSE Targeted
             IN  /\ invocations' = invocations \ hit
                 /\ stopped' = [asked |-> {cmd.target}, hit |-> {i.id : i \in hit}]
          /\ EndCommand("stopped")
    /\ UNCHANGED <<adapter, definitions, current, systemdVars, registration, countVars, disturbed>>

\* uninstall_locked up to the deletion: whose registration it is; none leaves
\* the metadata.
UninstallDecide ==
    /\ At("uninstall", "decide")
    /\ \/ cmd.seen.kind = "foreign" /\ FailCommand
       \/ cmd.seen.kind = "missing" /\ cmd' = [cmd EXCEPT !.op = "delete", !.pc = "metadata", !.gen = current]
       \/ cmd.seen.kind = "owned" /\ cmd' = [cmd EXCEPT !.op = "delete", !.pc = "read", !.gen = cmd.seen.marker]
    /\ UNCHANGED <<adapter, definitions, current, systemdVars, registration, invocations, countVars, disturbed, stopped>>

\* delete_owned: checked, then disabled and stopped, the file removed, the
\* manager reloaded; on Windows checked, then deleted by name.  The metadata
\* goes last (uninstall_locked).
delete_owned ==
    /\ \/ /\ At("delete", "decide")
          /\ \/ cmd.seen.kind = "missing" /\ Proceed("metadata")
             \/ cmd.seen.kind # "missing" /\ require_owned /\ Proceed(IF adapter = "systemd" THEN "disable" ELSE "drop")
             \/ cmd.seen.kind # "missing" /\ ~require_owned /\ FailCommand
          /\ UNCHANGED <<definitions, current, systemdVars, registration, invocations>>
       \/ /\ At("delete", "disable")
          /\ enabled' = FALSE /\ invocations' = {} /\ Proceed("drop")
          /\ UNCHANGED <<definitions, current, unit, loaded, shadowed, registration>>
       \/ /\ At("delete", "drop") /\ adapter = "systemd"
          /\ unit' = <<>> /\ Proceed("forget")
          /\ UNCHANGED <<definitions, current, loaded, shadowed, enabled, registration, invocations>>
       \/ /\ At("delete", "drop") /\ adapter = "task_scheduler"
          /\ registration' = NoRegistration /\ Proceed("metadata")
          /\ UNCHANGED <<definitions, current, systemdVars, invocations>>
       \/ /\ At("delete", "forget")
          /\ loaded' = unit /\ Proceed("metadata")
          /\ UNCHANGED <<definitions, current, unit, shadowed, enabled, registration, invocations>>
       \/ /\ At("delete", "metadata")
          /\ definitions' = [g \in Gens |-> IF g \in {cmd.gen, current} \/ Resolvable(g) THEN "none"
                                            ELSE definitions[g]]
          /\ current' = NoGen /\ EndCommand("uninstalled")
          /\ UNCHANGED <<systemdVars, registration, invocations>>
    /\ UNCHANGED <<adapter, countVars, disturbed, stopped>>

\* A systemctl or COM call fails, or the process dies: what was done stays.
Interrupted ==
    /\ cmd.op # "idle" /\ FailCommand
    /\ UNCHANGED <<adapter, definitions, current, systemdVars, registration, invocations, countVars, disturbed, stopped>>

-----------------------------------------------------------------------------
(* The operating system and its users.                                      *)

Change(lines, i, v) == [lines EXCEPT ![i].value = v]

\* A user changes or appends a line of the unit file, reloads the manager,
\* disables the unit, or puts a unit of that name in a directory that wins.
UserEditsUnit ==
    /\ adapter = "systemd" /\ unitEdits < MaxUnitEdits /\ unitEdits' = unitEdits + 1 /\ disturbed' = TRUE
    /\ \/ /\ "change" \in UnitEdits
          /\ \E i \in DOMAIN unit : unit' = Change(unit, i, "edited") /\ UNCHANGED <<loaded, shadowed, enabled>>
       \/ /\ "append" \in UnitEdits /\ unit # <<>>
          /\ \E k \in {"ExecStart", "Restart"} : unit' = Append(unit, Line(k, "edited"))
          /\ UNCHANGED <<loaded, shadowed, enabled>>
       \/ loaded # unit /\ loaded' = unit /\ UNCHANGED <<unit, shadowed, enabled>>
       \/ enabled /\ enabled' = FALSE /\ UNCHANGED <<unit, loaded, shadowed>>
       \/ shadowed' = ~shadowed /\ UNCHANGED <<unit, loaded, enabled>>
    /\ UNCHANGED <<adapter, definitions, current, registration, invocations, cmd, commands, starts, stopped>>

\* A user edits the task, adds a trigger or an action, or replaces it.
UserEditsRegistration ==
    /\ adapter = "task_scheduler" /\ unitEdits < MaxUnitEdits /\ unitEdits' = unitEdits + 1 /\ disturbed' = TRUE
    /\ registration # NoRegistration
    /\ \/ \E f \in {"marker", "source", "settings"} : registration' = [registration EXCEPT ![f] = "edited"]
       \/ \E f \in {"triggers", "actions"} : registration' = [registration EXCEPT ![f] = Append(@, "edited")]
       \/ \E f \in {"triggers", "actions"} : registration' = [registration EXCEPT ![f] = <<"edited">>]
       \/ registration' = NoRegistration
    /\ UNCHANGED <<adapter, definitions, current, systemdVars, invocations, cmd, commands, starts, stopped>>

\* The manager starts the service (a demand start or the logon trigger) when
\* none runs: Restart=no and MultipleInstances=IgnoreNew.
Starts ==
    /\ starts < MaxStarts /\ invocations = {}
    /\ IF adapter = "systemd" THEN loaded # <<>> ELSE registration # NoRegistration
    /\ starts' = starts + 1
    /\ invocations' = {[id |-> starts']}
    /\ UNCHANGED <<adapter, definitions, current, systemdVars, registration, cmd, unitEdits, commands, disturbed, stopped>>

InvocationEnds ==
    /\ invocations # {} /\ invocations' = {}
    /\ UNCHANGED <<adapter, definitions, current, systemdVars, registration, cmd, countVars, disturbed, stopped>>

-----------------------------------------------------------------------------

RegistrationInit ==
    /\ adapter \in {"systemd", "task_scheduler"}
    /\ definitions = [g \in Gens |-> "none"] /\ current = NoGen
    /\ unit = <<>> /\ loaded = <<>> /\ shadowed = FALSE /\ enabled = FALSE
    /\ registration = NoRegistration /\ invocations = {} /\ cmd = NoCommand
    /\ unitEdits = 0 /\ commands = 0 /\ starts = 0
    /\ disturbed = FALSE /\ stopped = [asked |-> {}, hit |-> {}]

RegistrationNext ==
    \/ BeginCommand \/ write_immutable_definition \/ register \/ inspect \/ InstallPrepare \/ RegisterPoint
    \/ status_snapshot \/ stop_instance \/ UninstallDecide \/ delete_owned \/ Interrupted
    \/ UserEditsUnit \/ UserEditsRegistration \/ Starts \/ InvocationEnds

RegistrationSpec == RegistrationInit /\ [][RegistrationNext]_registrationVars

-----------------------------------------------------------------------------
(* Properties.                                                              *)

\* What the manager runs and whether it does so at logon.
AsRegistered(g) ==
    IF adapter = "systemd"
      THEN ~shadowed /\ enabled /\ Effective(loaded, "ExecStart") = g /\ Effective(loaded, "Restart") = "no"
      ELSE registration = populate_definition(g)

\* A status of "installed" from an inspection nothing disturbed means what it
\* says (status_snapshot, status.rs:385): the manager would run exactly the
\* registered command under the registered policy at logon, and the pointer
\* and the definition file are those of that configuration.
InstalledIsSo ==
    [][cmd'.status = "installed" /\ cmd.op = "status" /\ ~disturbed
         => AsRegistered(cmd'.gen) /\ current = cmd'.gen /\ definitions[cmd'.gen] = "whole"]_registrationVars

\* The registration of a configuration never outruns its definition file
\* (write_immutable_definition before register): whatever a command that died
\* left behind, a registered marker names a file that is there, complete.
MarkerResolves ==
    \A g \in Gens :
        \/ adapter = "systemd" /\ Value(unit, "Marker") = g
        \/ adapter = "task_scheduler" /\ registration.marker = g
        => definitions[g] = "whole"

\* A stop hits no invocation other than the one it was asked to stop
\* (stop_instance, windows_scheduler.rs:121).
StopsOnlyNamed == adapter = "task_scheduler" => stopped.hit \subseteq stopped.asked

\* The definition a registration points at can be read at every moment, also after a
\* crash, and a stop hits the invocation it names.
RegistrationSafe == MarkerResolves /\ StopsOnlyNamed

\* The same on both platforms, as the comment on `instance` has it.
ProvesWhatItStops == stopped.hit \subseteq stopped.asked

=============================================================================
