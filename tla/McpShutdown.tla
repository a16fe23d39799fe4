----------------------------- MODULE McpShutdown -----------------------------
(***************************************************************************)
(* The end of an MCP server process: ah_mcp::shutdown, the lifecycle part  *)
(* of ah_mcp::transport, the event queue of ah_mcp::events and the tail of *)
(* execute_mcp_serve (src/runtime_flow/mcp_serve.rs).                         *)
(*                                                                         *)
(* Any number of triggers start one shutdown: control requests and signals *)
(* over HTTP, end of input over stdio, a failing transport.  From then on  *)
(* draining the transport, flushing events and stopping the handlers share *)
(* one grace period.                                                       *)
(***************************************************************************)
EXTENDS Naturals, Sequences, FiniteSets

CONSTANTS
    Transports,   \* the transports to serve: "stdio", "http"
    Triggers,     \* control requests, signals or end of input that may arrive
    Calls,        \* tool calls that may be made
    Grace,        \* MCP_RUNTIME_SHUTDOWN_GRACE in ticks
    QueueCapacity,\* capacity of the event queue
    MaxTime       \* bound on the clock before a shutdown starts

ASSUME TransportsAssumption == Transports \subseteq {"stdio", "http"}
ASSUME GraceAssumption == Grace \in Nat \ {0}
ASSUME TimeAssumption == MaxTime \in Nat \ {0}
ASSUME CapacityAssumption == QueueCapacity \in Nat \ {0}

Main == "main"
Flush == "flush"
NoTime == 0
Starters == Triggers \cup {Main}

\* The serving task is no trigger, and a flush is no call.
ASSUME NamesAssumption == Main \notin Triggers /\ Flush \notin Calls

VARIABLES
    kind,       \* the transport of this process
    clock,      \* the time
    started,    \* ShutdownTracker::started_at, NoTime before begin
    flag,       \* HttpLifecycleController::shutdown_started
    closed,     \* the executor is closed
    token,      \* the cancellation token of the HTTP service
    begin,      \* each starter inside begin_shutdown
    waiter,     \* the future ShutdownTracker::expired
    woken,      \* notify_waiters has reached it
    transport,  \* "down", "serving", "ended" or "failed"
    busy,       \* a connection is still open
    main,       \* the serving task
    until,      \* the deadline of the current wait of the serving task
    result,     \* what the transport came to
    call,       \* each tool call: "new", "running", "over" or "rejected"
    queue,      \* messages for the event thread
    accepted,   \* history: the calls whose event entered the queue, in order
    recorded,   \* the calls whose event the sink has seen, in order
    flushed,    \* history: the events that a successful flush has to cover
    runner      \* the record of the managed runner

flow == <<flag, closed, token, begin, started>>
wait == <<waiter, woken>>
serving == <<main, until, result, transport, busy, runner>>
events == <<queue, accepted, recorded, flushed>>
shutdownVars == <<kind, clock, flow, wait, serving, call, events>>

ShutdownInit ==
    /\ kind \in Transports /\ clock = 1
    /\ started = NoTime /\ flag = FALSE /\ closed = FALSE /\ token = FALSE
    /\ begin = [t \in Starters |-> "no"]
    /\ waiter = "new" /\ woken = FALSE
    /\ transport = "down" /\ busy = FALSE
    /\ main = "bind" /\ until = 0 /\ result = "none"
    /\ call = [c \in Calls |-> "new"]
    /\ queue = <<>> /\ accepted = <<>> /\ recorded = <<>> /\ flushed = {}
    /\ runner = "starting"

-----------------------------------------------------------------------------
(* begin_shutdown: of the HTTP controller, of the stdio reader, of main.   *)

\* The controller lets one starter through; stdio has no such flag.
Enter(t) ==
    /\ begin' = [begin EXCEPT ![t] = IF kind = "http" /\ flag THEN "done" ELSE "set"]
    /\ flag' = (flag \/ kind = "http")
    /\ UNCHANGED <<closed, token, started>>

\* A control request with the right instance id, a signal, or end of input.
Trigger(t) ==
    /\ t \in Triggers /\ begin[t] = "no" /\ transport = "serving"
    /\ Enter(t)
    /\ UNCHANGED <<kind, clock, wait, serving, call, events>>

\* ShutdownTracker::begin: OnceLock::set, and only its winner notifies.
SetStarted(t) ==
    /\ begin[t] = "set"
    /\ IF started = NoTime
       THEN started' = clock /\ begin' = [begin EXCEPT ![t] = "notify"]
       ELSE UNCHANGED started /\ begin' = [begin EXCEPT ![t] = "close"]
    /\ UNCHANGED <<kind, clock, flag, closed, token, wait, serving, call, events>>

\* notify_waiters wakes only a waiter that is enabled.
NotifyWaiters(t) ==
    /\ begin[t] = "notify"
    /\ woken' = (woken \/ waiter \in {"enabled", "waiting"})
    /\ begin' = [begin EXCEPT ![t] = "close"]
    /\ UNCHANGED <<kind, clock, flag, closed, token, started, waiter, serving, call, events>>

\* Mutant: the executor is left open.
CloseExecutorForgotten(t) ==
    /\ begin[t] = "close"
    /\ begin' = [begin EXCEPT ![t] = IF kind = "http" THEN "token" ELSE "done"]
    /\ UNCHANGED <<kind, clock, flag, closed, token, started, wait, serving, call, events>>

CloseExecutor(t) ==
    /\ begin[t] = "close"
    /\ closed' = TRUE
    /\ begin' = [begin EXCEPT ![t] = IF kind = "http" THEN "token" ELSE "done"]
    /\ UNCHANGED <<kind, clock, flag, token, started, wait, serving, call, events>>

CancelToken(t) ==
    /\ begin[t] = "token"
    /\ token' = TRUE
    /\ begin' = [begin EXCEPT ![t] = "done"]
    /\ UNCHANGED <<kind, clock, flag, closed, started, wait, serving, call, events>>

BeginShutdown(t) == SetStarted(t) \/ NotifyWaiters(t) \/ CloseExecutor(t) \/ CancelToken(t)

-----------------------------------------------------------------------------
(* serve_stdio_bounded and serve_http_bounded_with_identity_and_listener.  *)

\* The listener is bound and the managed runner, if any, says so.
Bind ==
    /\ main = "bind"
    /\ main' = "serve" /\ transport' = "serving" /\ runner' = "ready"
    /\ UNCHANGED <<kind, clock, flow, wait, until, result, busy, call, events>>

\* The port is taken, the first handshake fails, or mark_ready fails.
BindFails ==
    /\ main = "bind"
    /\ main' = "begin" /\ transport' = "failed" /\ result' = "failed"
    /\ Enter(Main)
    /\ UNCHANGED <<kind, clock, wait, until, busy, runner, call, events>>

\* wait_for_transport polls the transport first ...
TransportDone ==
    /\ main = "serve" /\ transport \in {"ended", "failed"}
    /\ result' = IF transport = "ended" THEN "ok" ELSE "failed"
    /\ main' = "begin"
    /\ Enter(Main)
    /\ UNCHANGED <<kind, clock, wait, until, transport, busy, runner, call, events>>

\* ... and the expiry of the grace period second.
Expired ==
    /\ main = "serve" /\ transport = "serving" /\ waiter = "sleeping" /\ clock >= started + Grace
    /\ result' = "timeout" /\ main' = "begin"
    /\ Enter(Main)
    /\ UNCHANGED <<kind, clock, wait, until, transport, busy, runner, call, events>>

\* tracker.remaining(): what is left of the grace period, as a deadline.
Deadline == IF started = NoTime THEN clock + Grace ELSE started + Grace

\* EventDispatcher::flush, skipped when nothing was served over HTTP.
StartFlush ==
    /\ main = "begin" /\ begin[Main] = "done"
    /\ until' = Deadline
    /\ IF (kind = "http" /\ runner = "starting") \/ Deadline = clock \/ Len(queue) >= QueueCapacity
       THEN main' = "report" /\ UNCHANGED queue
       ELSE main' = "flush" /\ queue' = Append(queue, Flush)
    /\ flushed' = IF main' = "flush" THEN {accepted[i] : i \in 1 .. Len(accepted)} ELSE {}
    /\ UNCHANGED <<kind, clock, flow, wait, result, transport, busy, runner, call, accepted, recorded>>

FlushTimesOut ==
    /\ main = "flush" /\ clock >= until
    /\ main' = "report" /\ flushed' = {}
    /\ UNCHANGED <<kind, clock, flow, wait, until, result, transport, busy, runner, call, queue,
                   accepted, recorded>>

\* Mutant: the runtime gets a grace period of its own.
ShutdownRuntimeAfresh ==
    /\ main = "report"
    /\ main' = "drain" /\ until' = clock + Grace
    /\ UNCHANGED <<kind, clock, flow, wait, result, transport, busy, runner, call, events>>

\* Runtime::shutdown_timeout(remaining_shutdown_grace).
ShutdownRuntime ==
    /\ main = "report"
    /\ main' = "drain" /\ until' = Deadline
    /\ UNCHANGED <<kind, clock, flow, wait, result, transport, busy, runner, call, events>>

\* It returns when every handler has, or when the time is up; then the managed
\* runner records how the process ends, and the process ends.
Exit ==
    /\ main = "drain"
    /\ clock >= until \/ \A c \in Calls : call[c] # "running"
    /\ \A t \in Triggers : begin[t] \in {"no", "done"}   \* begin_shutdown does not yield
    /\ main' = "exited"
    /\ runner' = IF result = "ok" THEN "stopped" ELSE "failed"
    /\ UNCHANGED <<kind, clock, flow, wait, until, result, transport, busy, call, events>>

-----------------------------------------------------------------------------
(* ShutdownTracker::expired, polled by main while the transport is pending. *)

Polling == main = "serve" /\ transport = "serving"

CheckStarted ==
    /\ Polling /\ waiter = "new"
    /\ waiter' = IF started # NoTime THEN "sleeping" ELSE "checked"
    /\ UNCHANGED <<kind, clock, flow, woken, serving, call, events>>

EnableNotified ==
    /\ Polling /\ waiter = "checked"
    /\ waiter' = "enabled" /\ woken' = FALSE
    /\ UNCHANGED <<kind, clock, flow, serving, call, events>>

\* Mutant: the start is not looked at again.
RecheckStartedSkipped ==
    /\ Polling /\ waiter = "enabled"
    /\ waiter' = "waiting"
    /\ UNCHANGED <<kind, clock, flow, woken, serving, call, events>>

RecheckStarted ==
    /\ Polling /\ waiter = "enabled"
    /\ waiter' = IF started # NoTime THEN "new" ELSE "waiting"
    /\ UNCHANGED <<kind, clock, flow, woken, serving, call, events>>

Notified ==
    /\ Polling /\ waiter = "waiting" /\ woken
    /\ waiter' = "new"
    /\ UNCHANGED <<kind, clock, flow, woken, serving, call, events>>

GraceWait == CheckStarted \/ EnableNotified \/ RecheckStarted \/ Notified

-----------------------------------------------------------------------------
(* Connections, calls and the event thread.                                *)

Connect ==
    /\ transport = "serving" /\ ~busy /\ ~token /\ busy' = TRUE
    /\ UNCHANGED <<kind, clock, flow, wait, main, until, result, transport, runner, call, events>>

Disconnect ==
    /\ busy /\ busy' = FALSE
    /\ UNCHANGED <<kind, clock, flow, wait, main, until, result, transport, runner, call, events>>

\* HTTP drains its connections after the token; stdio ends with its input.
TransportEnds ==
    /\ transport = "serving" /\ ~busy
    /\ IF kind = "http" THEN token ELSE \E t \in Triggers : begin[t] = "done"
    /\ transport' = "ended"
    /\ UNCHANGED <<kind, clock, flow, wait, main, until, result, busy, runner, call, events>>

TransportFails ==
    /\ transport = "serving" /\ transport' = "failed"
    /\ UNCHANGED <<kind, clock, flow, wait, main, until, result, busy, runner, call, events>>

SubmitCall(c) ==
    /\ call[c] = "new" /\ transport = "serving"
    /\ call' = [call EXCEPT ![c] = IF closed THEN "rejected" ELSE "running"]
    /\ UNCHANGED <<kind, clock, flow, wait, serving, events>>

\* A handler returns; EventDispatcher::dispatch drops its event on overflow.
Return(c) ==
    /\ call[c] = "running" /\ main # "exited"
    /\ call' = [call EXCEPT ![c] = "over"]
    /\ IF Len(queue) < QueueCapacity
       THEN queue' = Append(queue, c) /\ accepted' = Append(accepted, c)
       ELSE UNCHANGED <<queue, accepted>>
    /\ UNCHANGED <<kind, clock, flow, wait, serving, recorded, flushed>>

\* Mutant: the event thread answers a flush as soon as it sees one.
RecordFlushFirst ==
    /\ queue # <<>> /\ main # "exited"
    /\ LET flush == \E i \in 1 .. Len(queue) : queue[i] = Flush
       IN  /\ queue' = IF flush THEN SelectSeq(queue, LAMBDA m : m # Flush) ELSE Tail(queue)
           /\ recorded' = IF flush THEN recorded ELSE Append(recorded, Head(queue))
           /\ main' = IF flush /\ main = "flush" THEN "report" ELSE main
    /\ UNCHANGED <<kind, clock, flow, wait, until, result, transport, busy, runner, call, accepted,
                   flushed>>

\* The event thread takes one message: an event for the sink, or the flush.
Record ==
    /\ queue # <<>> /\ main # "exited"
    /\ queue' = Tail(queue)
    /\ recorded' = IF Head(queue) = Flush THEN recorded ELSE Append(recorded, Head(queue))
    /\ main' = IF Head(queue) = Flush /\ main = "flush" THEN "report" ELSE main
    /\ UNCHANGED <<kind, clock, flow, wait, until, result, transport, busy, runner, call, accepted,
                   flushed>>

-----------------------------------------------------------------------------
(* Time passes while everybody waits: code between two waits takes none.   *)

Urgent ==
    \/ \E t \in Starters : begin[t] \in {"set", "notify", "close", "token"}
    \/ main \in {"bind", "begin", "report"}
    \/ main = "serve" /\ transport # "serving"
    \/ Polling /\ waiter \in {"new", "checked", "enabled"}
    \/ Polling /\ waiter = "waiting" /\ woken
    \/ Polling /\ waiter = "sleeping" /\ clock >= started + Grace
    \/ main \in {"flush", "drain"} /\ clock >= until

ClockTick ==
    /\ ~Urgent /\ main # "exited"
    /\ clock < IF started = NoTime THEN MaxTime ELSE MaxTime + 2 * Grace
    /\ clock' = clock + 1
    /\ UNCHANGED <<kind, flow, wait, serving, call, events>>

Serve == Bind \/ BindFails \/ TransportDone \/ Expired \/ StartFlush \/ FlushTimesOut
         \/ ShutdownRuntime \/ Exit
Traffic == Connect \/ Disconnect \/ TransportEnds \/ TransportFails \/ Record
           \/ \E c \in Calls : SubmitCall(c) \/ Return(c)

ShutdownNext == \/ \E t \in Starters : Trigger(t) \/ BeginShutdown(t)
        \/ Serve \/ GraceWait \/ Traffic \/ ClockTick

ShutdownSpec == ShutdownInit /\ [][ShutdownNext]_shutdownVars

\* The process runs and the clock ticks; connections, handlers and the event
\* sink may hang for ever.
ShutdownFairSpec ==
    /\ ShutdownSpec
    /\ \A t \in Starters : WF_shutdownVars(BeginShutdown(t))
    /\ WF_shutdownVars(Serve) /\ WF_shutdownVars(GraceWait) /\ WF_shutdownVars(ClockTick)
-----------------------------------------------------------------------------
(* Properties.                                                             *)

\* However many triggers race, the process is gone one grace period after the
\* first of them: draining, flushing and stopping handlers share the budget.
BudgetShared == [][started # NoTime => started' = started /\ clock' <= started + Grace]_shutdownVars

\* A shutdown that was asked for completes, whatever connections, handlers and
\* the event sink do: the wait for the grace period never misses its start.
ShutdownCompletes == (flag \/ started # NoTime) ~> main = "exited"

\* Nothing is admitted once the process stops waiting for handlers: the
\* executor is closed by then, whoever was first in begin_shutdown.
ClosedAtExit == main = "exited" => closed

\* A flush that was answered means that every event accepted before it reached
\* the sink, in the order of the calls.
FlushCovers ==
    /\ main \in {"report", "drain"} => flushed \subseteq {recorded[i] : i \in 1 .. Len(recorded)}
    /\ recorded = SubSeq(accepted, 1, Len(recorded))

\* The process leaves nothing half done: it exits within one grace period, with the
\* executor closed and, when the flush was answered, with every accepted event in the
\* sink.
ExitIsClean == BudgetShared /\ []ClosedAtExit /\ []FlushCovers

==============================================================================
