---------------------------- MODULE MCServerProcess --------------------------
(***************************************************************************)
(* Small instances, for TLC, of the machines of the MCP server's process:  *)
(* the background jobs and the shutdown of the server.  They share no      *)
(* state here, so one is explored at a time.                               *)
(***************************************************************************)
EXTENDS JobRegistry, McpShutdown

CONSTANTS t1, t2, c1, c2   \* model values

VARIABLE machine

TwoJobs == 1..2
OwnIdTwo == [e \in TwoJobs |-> e]   \* next_detached_execution_id is fresh

-----------------------------------------------------------------------------
(* The machines that do not run stay in one initial state.                  *)

Rests(m, state) == machine = m \/ (machine # m /\ state)

ProcessInit ==
    /\ machine \in {"jobs", "shutdown"}
    /\ JobInit
    /\ Rests("shutdown", kind = "stdio") /\ ShutdownInit

ProcessNext ==
    \/ machine = "jobs" /\ JobNext /\ UNCHANGED <<machine, shutdownVars>>
    \/ machine = "shutdown" /\ ShutdownNext /\ UNCHANGED <<machine, vars>>

processVars == <<machine, vars, shutdownVars>>

\* The server stops; only the jobs must always be able to go on.
Stopped == machine = "shutdown" /\ UNCHANGED processVars

\* The fairness of JobFairSpec and ShutdownFairSpec.
ProcessSpec ==
    /\ ProcessInit /\ [][ProcessNext \/ Stopped]_processVars
    /\ \A e \in Exec :
         /\ WF_vars(machine = "jobs" /\ TaskStep(e))
         /\ WF_vars(machine = "jobs" /\ (AttachLifecycle(e) \/ AttachSnapshot(e)))
         /\ WF_vars(machine = "jobs" /\ Advance(e) /\ UNCHANGED jobVars)
    /\ \A t \in Starters : WF_shutdownVars(machine = "shutdown" /\ BeginShutdown(t))
    /\ WF_shutdownVars(machine = "shutdown" /\ Serve)
    /\ WF_shutdownVars(machine = "shutdown" /\ GraceWait)
    /\ WF_shutdownVars(machine = "shutdown" /\ ClockTick)

-----------------------------------------------------------------------------

\* What the server began comes to an end: every started job, and every shutdown.
ServerEnds == JobsFinish /\ ShutdownCompletes
=============================================================================
