---------------------------- MODULE ChildProcess ----------------------------
(***************************************************************************)
(* Running one child process with a deadline and bounded output: `ah run   *)
(* check` and `ah task run` (ah_domains::run::io::run_program with a job   *)
(* object on Windows and a process group elsewhere) and the update         *)
(* helper's smoke and service commands (bounded_process::run).             *)
(*                                                                         *)
(* The actors are the calling thread, one reader thread per output stream, *)
(* the root process, a descendant it may leave behind, the clock and the   *)
(* client that cancels.  A pipe holds PipeCapacity bytes: a process that   *)
(* writes into a full pipe waits.                                          *)
(***************************************************************************)
EXTENDS Naturals, Sequences, FiniteSets

CONSTANTS
    Hosts,          \* which of "job" (run, Windows), "group" (run, elsewhere), "helper"
    MaxOutputBytes, \* max_output_bytes
    Outputs,        \* how much a root may write to each stream
    PipeCapacity,
    MaxFaults       \* bound: system calls that fail

ASSUME HostsAssumption == Hosts \subseteq {"job", "group", "helper"}
ASSUME OutputAssumption == {MaxOutputBytes, PipeCapacity} \subseteq Nat \ {0}
ASSUME ChildBounds == MaxFaults \in Nat /\ Outputs \subseteq [{"stdout", "stderr"} -> Nat]

Streams == {"stdout", "stderr"}
Procs == {"root", "background"}

VARIABLES
    host, keepTail,  \* who runs the child, and tail_lines.is_some()
    want,            \* how much the root will write to each stream
    pc,              \* the calling thread
    timedOut, stopped,   \* timed_out; the child was told to stop
    code,            \* the exit status of the root: "none", "ok", "bad" or "killed"
    expired, cancelled,  \* started.elapsed() >= timeout; cancelled()
    proc,            \* "unborn", "alive", "doomed" (being terminated) or "dead"
    grouped,         \* in the job or process group
    holds,           \* the write ends each process has open
    written, drained,    \* bytes written to and read from each pipe
    reader,          \* "none", "reading", "finished" or "failed"
    captured,        \* what the reader kept, bytes numbered as written
    faults

procVars == <<proc, grouped, holds, written>>
readVars == <<reader, captured, drained>>
setup == <<host, keepTail, want>>
childVars == <<setup, pc, timedOut, stopped, code, expired, cancelled, procVars, readVars, faults>>

Windows == host \in {"job", "helper"}
Running(p) == proc[p] = "alive"
Gone(p) == proc[p] \in {"unborn", "dead"}
Ended == pc \in {"done", "failed"}

\* active_processes of the job object.
ActiveProcesses == {p \in Procs : grouped[p] /\ ~Gone(p)}
OutputFinished == \A s \in Streams : reader[s] \in {"finished", "failed"}

ChildInit ==
    /\ host \in Hosts /\ keepTail \in BOOLEAN
    /\ host = "helper" => ~keepTail
    /\ want \in Outputs
    /\ pc = "spawn" /\ timedOut = FALSE /\ stopped = FALSE /\ code = "none"
    /\ expired = FALSE /\ cancelled = FALSE
    /\ proc = [p \in Procs |-> "unborn"]
    /\ grouped = [p \in Procs |-> FALSE]
    /\ holds = [p \in Procs |-> {}]
    /\ written = [s \in Streams |-> 0] /\ drained = [s \in Streams |-> 0]
    /\ reader = [s \in Streams |-> "none"]
    /\ captured = [s \in Streams |-> << >>]
    /\ faults = 0

-----------------------------------------------------------------------------
(* The calling thread.                                                     *)

\* Terminating the job or the group: everything in it stops running at once.
Terminated == [p \in Procs |-> IF grouped[p] /\ Running(p) THEN "doomed" ELSE proc[p]]

\* An error is returned and the child is dropped; the job object's last handle
\* goes with it, which terminates the job (KILL_ON_JOB_CLOSE).
Fail ==
    /\ faults < MaxFaults
    /\ faults' = faults + 1
    /\ pc' = "failed"
    /\ proc' = IF Windows THEN Terminated ELSE proc
    /\ UNCHANGED <<setup, timedOut, stopped, code, expired, cancelled, grouped, holds, written, readVars>>

Step(from, to) ==
    /\ pc = from /\ pc' = to
    /\ UNCHANGED <<setup, expired, cancelled, grouped, holds, written, readVars, faults>>

\* spawn_child: the root is created inside its job or group, with the write
\* ends of both pipes, and the readers are started.
Spawn ==
    /\ pc = "spawn" /\ pc' = "poll"
    /\ proc' = [proc EXCEPT !["root"] = "alive"]
    /\ grouped' = [grouped EXCEPT !["root"] = TRUE]
    /\ holds' = [holds EXCEPT !["root"] = Streams]
    /\ reader' = [s \in Streams |-> "reading"]
    /\ UNCHANGED <<setup, timedOut, stopped, code, expired, cancelled, written, captured, drained, faults>>

\* try_wait: the root has been reaped and, in a job, nothing else runs in it.
PollExited ==
    /\ proc["root"] = "dead"
    /\ host = "group" \/ ActiveProcesses = {}
    /\ Step("poll", "join_stdout")
    /\ UNCHANGED <<timedOut, stopped, code, proc>>

\* Child::try_wait of `run`: helpers that hold no output pipe are not waited for.
PollBackground ==
    /\ host = "job" /\ proc["root"] = "dead" /\ ActiveProcesses # {} /\ OutputFinished
    /\ Step("poll", "kill")
    /\ UNCHANGED <<timedOut, stopped, code, proc>>

PollRunning ==
    /\ \/ proc["root"] # "dead"
       \/ Windows /\ ActiveProcesses # {} /\ ~(host = "job" /\ OutputFinished)
    /\ Step("poll", "check")
    /\ UNCHANGED <<timedOut, stopped, code, proc>>

\* Mutant: output that still arrives postpones the deadline.
CheckWhileQuiet ==
    /\ Step("check", IF (expired /\ OutputFinished) \/ (cancelled /\ host # "helper") THEN "stop" ELSE "poll")
    /\ UNCHANGED <<timedOut, stopped, code, proc>>

\* The deadline and the cancellation; bounded_process knows no cancellation.
Check ==
    /\ Step("check", IF expired \/ (cancelled /\ host # "helper") THEN "stop" ELSE "poll")
    /\ UNCHANGED <<timedOut, stopped, code, proc>>

\* timed_out is read from the clock once more.
Stop ==
    /\ Step("stop", "kill")
    /\ timedOut' = (host = "helper" \/ expired)
    /\ stopped' = TRUE
    /\ UNCHANGED <<code, proc>>

\* Mutant: only the root is killed.
KillRootOnly ==
    /\ Step("kill", "wait")
    /\ proc' = [proc EXCEPT !["root"] = IF @ = "alive" THEN "doomed" ELSE @]
    /\ UNCHANGED <<timedOut, stopped, code>>

\* kill: a group that has already exited is no error.
Kill ==
    /\ Step("kill", "wait")
    /\ proc' = Terminated
    /\ UNCHANGED <<timedOut, stopped, code>>

\* wait: for the root and, in a job, for everything else in it.
Wait ==
    /\ proc["root"] = "dead"
    /\ Windows => ActiveProcesses = {}
    /\ Step("wait", "join_stdout")
    /\ UNCHANGED <<timedOut, stopped, code, proc>>

\* join_output_reader: both readers are waited for, in this order.
Join(from, s, to) ==
    /\ reader[s] \in {"finished", "failed"}
    /\ Step(from, IF reader[s] = "failed" THEN "failed" ELSE to)
    /\ UNCHANGED <<timedOut, stopped, code, proc>>

Caller ==
    \/ Spawn \/ PollExited \/ PollBackground \/ PollRunning \/ Check
    \/ Stop \/ Kill \/ Wait
    \/ Join("join_stdout", "stdout", "join_stderr")
    \/ Join("join_stderr", "stderr", "done")

\* Spawning, looking at the child or terminating it fails.
CallFails == pc \in {"spawn", "poll", "kill", "wait"} /\ Fail

-----------------------------------------------------------------------------
(* The readers.                                                            *)

Bytes(from, to) == [i \in 1 .. to - from |-> from + i]
Suffix(q, n) == IF Len(q) <= n THEN q ELSE SubSeq(q, Len(q) - n + 1, Len(q))
Prefix(q, n) == IF Len(q) <= n THEN q ELSE SubSeq(q, 1, n)

\* Mutant: the suffix is cut from each read, not from all that was read.
AbsorbChunkwise(q, chunk) ==
    IF keepTail THEN Suffix(chunk, MaxOutputBytes) ELSE Prefix(q \o chunk, MaxOutputBytes)

\* What the reader keeps of what it has and what it has just read.
Absorb(q, chunk) ==
    IF keepTail THEN Suffix(q \o chunk, MaxOutputBytes) ELSE Prefix(q \o chunk, MaxOutputBytes)

\* Mutant: a reader whose prefix is full stops reading.
ReadUntilFull(s) ==
    /\ reader[s] = "reading" /\ drained[s] < written[s]
    /\ keepTail \/ Len(captured[s]) < MaxOutputBytes
    /\ \E n \in drained[s] + 1 .. written[s] :
         /\ drained' = [drained EXCEPT ![s] = n]
         /\ captured' = [captured EXCEPT ![s] = Absorb(@, Bytes(drained[s], n))]
    /\ UNCHANGED reader

\* One read returns whatever part of the pipe's content it likes.
Read(s) ==
    /\ reader[s] = "reading" /\ drained[s] < written[s]
    /\ \E n \in drained[s] + 1 .. written[s] :
         /\ drained' = [drained EXCEPT ![s] = n]
         /\ captured' = [captured EXCEPT ![s] = Absorb(@, Bytes(drained[s], n))]
    /\ UNCHANGED reader

\* read = 0: nothing is left and nobody has the write end open.
EndOfFile(s) ==
    /\ reader[s] = "reading" /\ drained[s] = written[s]
    /\ \A p \in Procs : s \notin holds[p]
    /\ reader' = [reader EXCEPT ![s] = "finished"]
    /\ UNCHANGED <<captured, drained>>

ReaderStep(s) ==
    /\ Read(s) \/ EndOfFile(s)
    /\ UNCHANGED <<setup, pc, timedOut, stopped, code, expired, cancelled, procVars, faults>>

ReaderFails(s) ==
    /\ reader[s] = "reading" /\ faults < MaxFaults
    /\ reader' = [reader EXCEPT ![s] = "failed"]
    /\ faults' = faults + 1
    /\ UNCHANGED <<setup, pc, timedOut, stopped, code, expired, cancelled, procVars, captured, drained>>

Truncated(s) == drained[s] > MaxOutputBytes

-----------------------------------------------------------------------------
(* The processes, the clock and the client.                                *)

CallerIdle == UNCHANGED <<setup, pc, timedOut, stopped, readVars, faults>>

\* A write waits for room in the pipe; one to a reader that is gone is lost.
RootWrites(s) ==
    /\ Running("root") /\ s \in holds["root"] /\ written[s] < want[s]
    /\ reader[s] # "reading" \/ written[s] - drained[s] < PipeCapacity
    /\ written' = [written EXCEPT ![s] = @ + 1]
    /\ CallerIdle /\ UNCHANGED <<code, expired, cancelled, proc, grouped, holds>>

\* The root starts another process, which inherits some of its pipes and, where
\* that is possible, leaves the group (a job cannot be left).
RootForks ==
    /\ Running("root") /\ proc["background"] = "unborn"
    /\ proc' = [proc EXCEPT !["background"] = "alive"]
    /\ \E inherited \in SUBSET holds["root"] :
         holds' = [holds EXCEPT !["background"] = inherited]
    /\ \E stays \in {TRUE, Windows} : grouped' = [grouped EXCEPT !["background"] = stays]
    /\ CallerIdle /\ UNCHANGED <<code, expired, cancelled, written>>

RootExits ==
    /\ Running("root") /\ written = want
    /\ code' \in {"ok", "bad"}
    /\ proc' = [proc EXCEPT !["root"] = "dead"]
    /\ holds' = [holds EXCEPT !["root"] = {}]
    /\ CallerIdle /\ UNCHANGED <<expired, cancelled, grouped, written>>

BackgroundExits ==
    /\ Running("background")
    /\ proc' = [proc EXCEPT !["background"] = "dead"]
    /\ holds' = [holds EXCEPT !["background"] = {}]
    /\ CallerIdle /\ UNCHANGED <<code, expired, cancelled, grouped, written>>

\* A terminated process is gone; its pipes are closed.
Dies(p) ==
    /\ proc[p] = "doomed"
    /\ proc' = [proc EXCEPT ![p] = "dead"]
    /\ holds' = [holds EXCEPT ![p] = {}]
    /\ code' = IF p = "root" THEN "killed" ELSE code
    /\ CallerIdle /\ UNCHANGED <<expired, cancelled, grouped, written>>

DeadlinePasses ==
    /\ ~expired /\ pc # "spawn" /\ expired' = TRUE
    /\ CallerIdle /\ UNCHANGED <<code, cancelled, procVars>>

ClientCancels ==
    /\ ~cancelled /\ cancelled' = TRUE
    /\ CallerIdle /\ UNCHANGED <<code, expired, procVars>>

ChildStep == (\E s \in Streams : RootWrites(s)) \/ RootExits \/ BackgroundExits

ChildNext ==
    \/ Caller \/ CallFails
    \/ \E s \in Streams : ReaderStep(s) \/ ReaderFails(s)
    \/ ChildStep \/ RootForks
    \/ \E p \in Procs : Dies(p)
    \/ DeadlinePasses \/ ClientCancels

ChildSpec == ChildInit /\ [][ChildNext]_childVars

\* The calling thread and the readers are scheduled, and the system finishes
\* what it terminates.  Nothing is assumed of the processes and the clock.
ChildFairSpec ==
    /\ ChildSpec
    /\ WF_childVars(Caller)
    /\ \A s \in Streams : WF_childVars(ReaderStep(s))
    /\ \A p \in Procs : WF_childVars(Dies(p))

-----------------------------------------------------------------------------
(* Properties                                                              *)

\* On Windows nothing the command started outlives the call, not even when the
\* call fails; elsewhere nothing in the group outlives a command that was
\* stopped (run.md: "terminates the command and its descendant process tree").
NoSurvivors ==
    /\ pc = "done" /\ Windows => ActiveProcesses = {}
    /\ pc = "failed" /\ Windows => ~\E p \in Procs : Running(p)
    /\ pc = "done" /\ stopped => ~\E p \in Procs : grouped[p] /\ Running(p)

\* However the reads fall, what is returned is the first or the last
\* MaxOutputBytes of everything that was written, and is marked as truncated
\* exactly when something is missing, also for a command that was killed.
CaptureExact ==
    pc = "done" =>
        \A s \in Streams :
            LET all == Bytes(0, written[s])
            IN  /\ captured[s] = IF keepTail THEN Suffix(all, MaxOutputBytes)
                                 ELSE Prefix(all, MaxOutputBytes)
                /\ Truncated(s) <=> captured[s] # all

\* A command that makes progress is not stopped by its own output: the readers
\* keep draining beyond the limit, so the call ends although no deadline passes.
OutputNeverBlocks == WF_childVars(ChildStep) => <>Ended

\* Somebody the caller does not wait for or cannot stop has an output pipe open.
Lingering ==
    host = "group" /\ pc \in {"join_stdout", "join_stderr"}
                   /\ \E p \in Procs : Running(p) /\ holds[p] # {}

\* A deadline ends the call whatever the processes do, except outside Windows
\* when the root is gone and another process keeps an output pipe open.
DeadlineEnds == expired ~> (Ended \/ Lingering)

=============================================================================
