---------------------------- MODULE AgentStatus ----------------------------
(***************************************************************************)
(* `ah ai status` on a terminal (crates/ah-ai: install/inspect.rs,         *)
(* progress.rs): one thread per agent reads its configuration back and     *)
(* sends what it finds over a channel; the main thread applies the events  *)
(* to a table of cells, redraws it, and prints the finished report.        *)
(***************************************************************************)
EXTENDS Naturals, Sequences, SequencesExt, FiniteSets

CONSTANTS
    Selected,      \* the agents asked for
    InProject,     \* whether the directory belongs to a project
    MaxPanics      \* bound: workers that die without an answer

AllScopes == <<"system", "user", "project", "local">>

\* Which scopes an agent has rules and servers in, for the status only.
StatusTable ==
    [claude   |-> [mcp |-> {"system", "user", "project", "local"}, rules |-> {"system", "user", "project", "local"}],
     codex    |-> [mcp |-> {"system", "user", "project"}, rules |-> {"user", "project"}],
     gemini   |-> [mcp |-> {"system", "user", "project"}, rules |-> {"user", "project"}],
     cursor   |-> [mcp |-> {"user", "project"}, rules |-> {"user", "project"}],
     copilot  |-> [mcp |-> {"user", "project"}, rules |-> {"project"}],
     opencode |-> [mcp |-> {"system", "user", "project"}, rules |-> {"user", "project"}]]

VARIABLES
    worker,        \* agent -> [at, result]: events sent so far, and how its thread ended
    events,        \* the channel: <<agent, event>>, and <<agent, result>> last
    cell,          \* agent -> the cells that show a finding
    ended,         \* agent -> none, ok, error: what its Complete said
    screen         \* the main thread: drawing, finished, failed, crashed

statusVars == <<worker, events, cell, ended, screen>>

\* status_scopes: outside a project only the machine's and the user's own.
status_scopes(t) ==
    SelectSeq(AllScopes, LAMBDA s :
        /\ s \in StatusTable[t].mcp \cup StatusTable[t].rules
        /\ s \in {"system", "user"} \/ InProject)

\* The cells LiveTarget::new allocates; an unsupported one shows that at once.
Cells(t) ==
    {<<"cli", "any">>}
    \cup {<<k, status_scopes(t)[i]>> : k \in {"mcp", "rules"}, i \in DOMAIN status_scopes(t)}
Unsupported(t) ==
    {c \in Cells(t) : c[1] # "cli" /\ c[2] \notin StatusTable[t][c[1]]}

\* scoped_rules_status and scoped_mcp_status of one scope, in that order; a probe
\* that fails is reported as unknown, not as a failure.
ScopeEvents(t, s) ==
    (IF s \in StatusTable[t].rules THEN <<<<"rules", s>>>> ELSE <<>>)
    \o (IF s \in StatusTable[t].mcp /\ t # "codex" THEN <<<<"mcp", s>>>> ELSE <<>>)

ServerEvents(t) ==
    LET listed == SelectSeq(status_scopes(t), LAMBDA s : s \in StatusTable[t].mcp)
    IN [i \in DOMAIN listed |-> <<"mcp", listed[i]>>]

\* status_target: what the worker of t sends. Codex is asked for its list after the
\* scopes were read, and its servers are reported only then.
Progress(t) ==
    <<<<"cli", "any">>>>
    \o FlattenSeq([i \in DOMAIN status_scopes(t) |-> ScopeEvents(t, status_scopes(t)[i])])
    \o (IF t = "codex" THEN ServerEvents(t) ELSE <<>>)

\* Where codex is asked for its list, and where the worker of t may fail: there, and at
\* the end, where the path of codex's configuration or another agent's legacy server is
\* looked up.
ListsAt(t) == Len(Progress(t)) - Len(ServerEvents(t))
FailsAt(t) == {Len(Progress(t))} \cup (IF t = "codex" THEN {ListsAt(t)} ELSE {})

-----------------------------------------------------------------------------

StatusInit ==
    /\ worker = [t \in Selected |-> [sent |-> 0, result |-> "none"]]
    /\ events = <<>>
    /\ cell = [t \in Selected |-> Unsupported(t)]
    /\ ended = [t \in Selected |-> "none"]
    /\ screen = "drawing"

Send(t) ==
    /\ worker[t].result = "none" /\ worker[t].sent < Len(Progress(t))
    /\ events' = Append(events, <<t, Progress(t)[worker[t].sent + 1]>>)
    /\ worker' = [worker EXCEPT ![t].sent = @ + 1]
    /\ UNCHANGED <<cell, ended, screen>>

Answer(t) ==
    /\ worker[t].result = "none"
    /\ \E r \in {"ok", "error"} :
         /\ r = "ok" => worker[t].sent = Len(Progress(t))
         /\ r = "error" => worker[t].sent \in FailsAt(t)
         /\ worker' = [worker EXCEPT ![t].result = r]
         /\ events' = Append(events, <<t, <<r, "any">>>>)
    /\ UNCHANGED <<cell, ended, screen>>

\* registrar::run waits for codex's list without a timeout: a CLI that never returns keeps
\* its worker for ever.
Hangs(t) ==
    /\ t = "codex" /\ worker[t].result = "none" /\ worker[t].sent = ListsAt(t)
    /\ worker' = [worker EXCEPT ![t].result = "hung"]
    /\ UNCHANGED <<events, cell, ended, screen>>

\* A worker panics: its sender is dropped and nothing is sent.
Panic(t) ==
    /\ worker[t].result = "none"
    /\ Cardinality({u \in Selected : worker[u].result = "panicked"}) < MaxPanics
    /\ worker' = [worker EXCEPT ![t].result = "panicked"]
    /\ UNCHANGED <<events, cell, ended, screen>>

Completed(e) == {t \in Selected : e[t] # "none"}

\* Mutant: the loop ends with the first answer.
ReceiveFirst ==
    /\ screen = "drawing" /\ events # <<>>
    /\ LET t == Head(events)[1]  ev == Head(events)[2]
       IN /\ events' = Tail(events)
          /\ IF ev[1] \in {"ok", "error"}
             THEN ended' = [ended EXCEPT ![t] = ev[1]] /\ screen' = "finished" /\ UNCHANGED cell
             ELSE cell' = [cell EXCEPT ![t] = @ \cup {ev}] /\ UNCHANGED <<ended, screen>>
    /\ UNCHANGED worker

\* recv_timeout, LiveTarget::apply and complete: the loop ends when every agent has
\* answered.
Receive ==
    /\ screen = "drawing" /\ events # <<>>
    /\ LET t == Head(events)[1]  ev == Head(events)[2]
       IN /\ events' = Tail(events)
          /\ IF ev[1] \in {"ok", "error"}
             THEN /\ ended' = [ended EXCEPT ![t] = ev[1]] /\ UNCHANGED cell
                  /\ screen' = IF Completed(ended') = Selected THEN "finished" ELSE "drawing"
             ELSE cell' = [cell EXCEPT ![t] = @ \cup {ev}] /\ UNCHANGED <<ended, screen>>
    /\ UNCHANGED worker

\* Mutant: a channel whose senders are all gone counts as a timeout.
DisconnectedIgnored == FALSE /\ UNCHANGED statusVars

\* Every sender is gone and the channel is empty (a worker that hangs keeps its sender):
\* the loop fails. The scope then
\* passes on the panic of the worker it joins.
Disconnected ==
    /\ screen = "drawing" /\ events = <<>>
    /\ \A t \in Selected : worker[t].result \notin {"none", "hung"}
    /\ screen' = "crashed"
    /\ UNCHANGED <<worker, events, cell, ended>>

StatusNext ==
    \/ \E t \in Selected : Send(t) \/ Answer(t) \/ Hangs(t) \/ Panic(t)
    \/ Receive \/ Disconnected

\* Threads run and the loop waits at most one frame at a time. That the CLI of an agent
\* returns is not assumed: Hangs ends what Answer and Send may do for its worker.
StatusFairness ==
    /\ \A t \in Selected : WF_statusVars(Send(t)) /\ WF_statusVars(Answer(t))
    /\ WF_statusVars(Receive \/ Disconnected)

StatusSpec == StatusInit /\ [][StatusNext]_statusVars /\ StatusFairness

-----------------------------------------------------------------------------
(* Properties.                                                              *)

\* The finished report has no cell that is still waiting: every agent's row either
\* shows what its worker found for every scope or ended in an error, whatever the order
\* the workers' events arrive in.
RowShown(t) == ended[t] = "error" \/ (ended[t] = "ok" /\ cell[t] = Cells(t))
NoCellLeftWaiting == screen = "finished" => \A t \in Selected : RowShown(t)

\* The screen comes to an end, also when a worker dies without an answer, and what it
\* then shows is complete (progress.rs run). Only the CLI of an agent that never returns
\* keeps it; the rows of all other workers are then shown, and it goes on waiting.
KeptByCli ==
    /\ \E t \in Selected : worker[t].result = "hung"
    /\ screen = "drawing"
    /\ \A t \in Selected : worker[t].result \in {"hung", "panicked"} \/ RowShown(t)
StatusEnds == <>((screen # "drawing" /\ NoCellLeftWaiting) \/ KeptByCli)
=============================================================================
