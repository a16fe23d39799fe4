------------------------------ MODULE McpServer ------------------------------
(***************************************************************************)
(* The sessions of the MCP server (ah_mcp::server): how a tool call gets an *)
(* execution id and is cancelled through its protocol id, how `ah.plugins` *)
(* tools change the live catalog (PluginManager::set_disabled_domains),    *)
(* and how every request refreshes the shared catalog snapshot and tells   *)
(* the registered peers (ah_mcp::server::catalog).                         *)
(*                                                                         *)
(* Requests of all sessions run concurrently and share the manager, the    *)
(* snapshot and the peer table; each lock or atomic operation is a step.   *)
(* The executor is seen through what ExecutionLifecycle promises: a call   *)
(* is answered once, and a cancelled handler may still be running.         *)
(***************************************************************************)
EXTENDS Naturals, FiniteSets

CONSTANTS
    Sessions, ProtocolIds, Requests, Domains,
    Kinds,         \* the requests to send: "tool", "plugins", "list", "job"
    MaxRevision    \* bound on PluginManager::catalog_revision

ASSUME KindsAssumption == Kinds \subseteq {"tool", "plugins", "list", "job"}
ASSUME RequestsAssumption == Requests \subseteq Nat \ {0}
ASSUME MaxRevisionAssumption == MaxRevision \in Nat \ {0}

None == 0

VARIABLES
    disabled,    \* PluginManager::disabled_domains
    revision,    \* PluginManager::catalog_revision
    writer,      \* the request inside set_disabled_domains' write lock
    settings,    \* the settings mutex: who holds it, and the domains loaded last
    snapshot,    \* McpShared::catalog_snapshot
    generation,  \* McpShared::catalog_generation
    peers,       \* McpShared::peers: the generation a session is registered with
    nextPeer,    \* McpShared::next_peer_generation
    sent,        \* notifications on their way: <<session, peer generation>>
    session,     \* each session: "new", "open" or "closed"
    nextId,      \* McpShared::next_execution_id
    active,      \* active_executions: <<session, protocol id, execution id>>
    cancelling,  \* execution ids cancel_request of a session has yet to cancel
    req,         \* each request: where it is and its local variables
    handler,     \* the handler of each request, which may outlive the request
    was          \* history: the disabled domains at each revision

manager == <<disabled, revision, writer, settings, was>>
catalog == <<snapshot, generation>>
table == <<peers, nextPeer, sent>>
calls == <<nextId, active, cancelling, handler>>
mcpVars == <<manager, catalog, table, session, calls, req>>

NoRequest == [pc |-> "unsent", kind |-> "tool", on |-> None, proto |-> None, id |-> None,
              seen |-> 0, built |-> {}, floor |-> 0, answer |-> "none", named |-> FALSE]

IsAt(r, pc) == req[r].pc = pc
MovesTo(r, pc) == req' = [req EXCEPT ![r].pc = pc]

McpInit ==
    /\ disabled = {} /\ revision = 1 /\ writer = None
    /\ settings = [by |-> None, disabled |-> {}]
    /\ snapshot = [revision |-> 1, hides |-> {}] /\ generation = 1
    /\ peers = [s \in Sessions |-> 0] /\ nextPeer = 1 /\ sent = {}
    /\ session = [s \in Sessions |-> "new"]
    /\ nextId = 1 /\ active = {} /\ cancelling = [s \in Sessions |-> {}]
    /\ req = [r \in Requests |-> NoRequest]
    /\ handler = [r \in Requests |-> "none"]
    /\ was = <<{}>>

-----------------------------------------------------------------------------
(* Sessions and peers.                                                     *)

\* register_peer: a new generation every time.
Register(s) ==
    /\ peers' = [peers EXCEPT ![s] = nextPeer]
    /\ nextPeer' = nextPeer + 1

\* http_session and on_initialized. The client has no tool list yet.
Initialized(s) ==
    /\ session[s] = "new"
    /\ session' = [session EXCEPT ![s] = "open"]
    /\ Register(s)
    /\ UNCHANGED <<manager, catalog, sent, calls, req>>

\* McpServer::drop, once the last of its requests has let go of it.
CloseSession(s) ==
    /\ session[s] = "open"
    /\ \A r \in Requests : req[r].on = s => req[r].pc \in {"answered", "abandoned"}
    /\ cancelling[s] = {}
    /\ session' = [session EXCEPT ![s] = "closed"]
    /\ peers' = [peers EXCEPT ![s] = 0]
    /\ UNCHANGED <<manager, catalog, nextPeer, sent, calls, req>>

\* spawn_best_effort_notification: delivered, and the client lists again ...
Delivered(s) ==
    /\ \E g \in {n[2] : n \in sent} : <<s, g>> \in sent /\ sent' = sent \ {<<s, g>>}
    /\ UNCHANGED <<manager, catalog, peers, nextPeer, session, calls, req>>

\* Mutant: whatever peer the session has now is removed.
PeerAfterFailureAny(s, g) == 0

\* remove_peer_generation: only the registration the notification was sent to.
PeerAfterFailure(s, g) == IF peers[s] = g THEN 0 ELSE peers[s]

\* ... or failed or timed out, and the peer is dropped.
Undelivered(s) ==
    /\ \E g \in {n[2] : n \in sent} :
          /\ <<s, g>> \in sent
          /\ sent' = sent \ {<<s, g>>}
          /\ peers' = [peers EXCEPT ![s] = PeerAfterFailure(s, g)]
    /\ UNCHANGED <<manager, catalog, nextPeer, session, calls, req>>

-----------------------------------------------------------------------------
(* A tool call: begin_execution, the execution, ActiveExecution::drop.     *)

\* A request arrives; `floor` is the revision its answer must not be older than.
Receive(r, k) ==
    /\ IsAt(r, "unsent") /\ k \in Kinds
    /\ \A q \in Requests : q < r => ~IsAt(q, "unsent")   \* requests are numbered as they arrive
    /\ \E s \in Sessions, p \in ProtocolIds :
          /\ k # "job" => session[s] = "open"
          /\ req' = [req EXCEPT ![r] =
                [NoRequest EXCEPT !.kind = k, !.floor = revision,
                                  !.on = IF k = "job" THEN None ELSE s,
                                  !.proto = IF k = "job" THEN None ELSE p,
                                  !.pc = IF k \in {"list", "job"} THEN "load" ELSE "begin"]]
    /\ UNCHANGED <<manager, catalog, table, session, calls>>

\* Mutant: execution ids are not unique.
BeginExecutionReused(r) ==
    /\ IsAt(r, "begin")
    /\ UNCHANGED nextId
    /\ req' = [req EXCEPT ![r].id = nextId, ![r].pc = "execute"]
    /\ active' = active \cup {<<req[r].on, req[r].proto, nextId>>}
    /\ handler' = [handler EXCEPT ![r] = "running"]
    /\ UNCHANGED <<manager, catalog, table, session, cancelling>>

\* begin_execution, then execute_observed submits the call.
BeginExecution(r) ==
    /\ IsAt(r, "begin")
    /\ nextId' = nextId + 1
    /\ req' = [req EXCEPT ![r].id = nextId, ![r].pc = "execute"]
    /\ active' = active \cup {<<req[r].on, req[r].proto, nextId>>}
    /\ handler' = [handler EXCEPT ![r] = "running"]
    /\ UNCHANGED <<manager, catalog, table, session, cancelling>>

\* The handler of any other tool, or a plugins tool that fails its validation.
HandlerReturns(r) ==
    /\ handler[r] \in {"running", "applied"}
    /\ handler' = [handler EXCEPT ![r] = "over"]
    /\ settings' = IF settings.by = r THEN [settings EXCEPT !.by = None] ELSE settings
    /\ req' = IF IsAt(r, "execute")
              THEN [req EXCEPT ![r].pc = "drop", ![r].answer = "result",
                               ![r].floor = IF handler[r] = "applied" THEN revision ELSE @]
              ELSE req
    /\ UNCHANGED <<disabled, revision, writer, was, catalog, table, session, nextId,
                   active, cancelling>>

\* PluginsHostPlugin::mutate takes the settings mutex and updates the stored set.
MutateSettings(r) ==
    /\ req[r].kind = "plugins" /\ handler[r] = "running" /\ settings.by = None
    /\ revision < MaxRevision
    /\ \E d \in Domains, D \in {settings.disabled} :
          settings' \in {[by |-> r, disabled |-> D \cup {d}], [by |-> r, disabled |-> D \ {d}]}
    /\ handler' = [handler EXCEPT ![r] = "saved"]
    /\ UNCHANGED <<disabled, revision, writer, was, catalog, table, session, nextId, active,
                   cancelling, req>>

\* set_disabled_domains: the set is replaced inside the write lock ...
SetDisabledDomains(r) ==
    /\ handler[r] = "saved" /\ writer = None
    /\ IF disabled = settings.disabled
       THEN /\ handler' = [handler EXCEPT ![r] = "applied"]
            /\ UNCHANGED <<disabled, writer>>
       ELSE /\ disabled' = settings.disabled /\ writer' = r
            /\ handler' = [handler EXCEPT ![r] = "bump"]
    /\ UNCHANGED <<revision, settings, was, catalog, table, session, nextId, active,
                   cancelling, req>>

\* ... and the revision is raised before the lock is released.
BumpRevision(r) ==
    /\ handler[r] = "bump"
    /\ revision' = revision + 1
    /\ was' = [n \in 1 .. revision + 1 |-> IF n <= revision THEN was[n] ELSE disabled]
    /\ writer' = None
    /\ handler' = [handler EXCEPT ![r] = "applied"]
    /\ UNCHANGED <<disabled, settings, catalog, table, session, nextId, active,
                   cancelling, req>>

\* Executor::cancel of one id: the call is answered, its handler goes on.
Cancel(id) ==
    req' = [q \in Requests |->
              IF IsAt(q, "execute") /\ req[q].id = id
              THEN [req[q] EXCEPT !.pc = "drop", !.answer = "cancelled"] ELSE req[q]]

\* Mutant: the sessions share one map of active executions.
CancelRequestShared(s, p) ==
    /\ session[s] = "open" /\ cancelling[s] = {}
    /\ \E a \in active : a[2] = p
    /\ cancelling' = [cancelling EXCEPT ![s] = {a[3] : a \in {x \in active : x[2] = p}}]
    /\ req' = [r \in Requests |->
                 [req[r] EXCEPT !.named = @ \/ (req[r].on = s /\ req[r].proto = p /\ IsAt(r, "execute"))]]
    /\ UNCHANGED <<manager, catalog, table, session, nextId, active, handler>>

\* cancel_request copies the ids that are active under the protocol id ...
CancelRequest(s, p) ==
    /\ session[s] = "open" /\ cancelling[s] = {}
    /\ \E a \in active : a[1] = s /\ a[2] = p
    /\ cancelling' = [cancelling EXCEPT ![s] = {a[3] : a \in {x \in active : x[1] = s /\ x[2] = p}}]
    /\ req' = [r \in Requests |->
                 [req[r] EXCEPT !.named = @ \/ (req[r].on = s /\ req[r].proto = p /\ IsAt(r, "execute"))]]
    /\ UNCHANGED <<manager, catalog, table, session, nextId, active, handler>>

\* ... and cancels them one by one without the lock.
CancelOne(s) ==
    /\ \E id \in cancelling[s] :
          /\ cancelling' = [cancelling EXCEPT ![s] = @ \ {id}]
          /\ Cancel(id)
    /\ UNCHANGED <<manager, catalog, table, session, nextId, active, handler>>

\* ActiveExecution::drop of an answered call; the refresh follows.
DropExecution(r) ==
    /\ IsAt(r, "drop")
    /\ active' = active \ {<<req[r].on, req[r].proto, req[r].id>>}
    /\ MovesTo(r, "load")
    /\ UNCHANGED <<manager, catalog, table, session, nextId, cancelling, handler>>

\* The future of a waiting call is dropped: the guard cancels the execution.
Abandon(r) ==
    /\ IsAt(r, "execute")
    /\ active' = active \ {<<req[r].on, req[r].proto, req[r].id>>}
    /\ req' = [req EXCEPT ![r].pc = "abandoned", ![r].answer = "cancelled"]
    /\ UNCHANGED <<manager, catalog, table, session, nextId, cancelling, handler>>

-----------------------------------------------------------------------------
(* refresh_catalog_generation_shared.                                      *)

LoadRevision(r) ==
    /\ IsAt(r, "load")
    /\ req' = [req EXCEPT ![r].seen = revision, ![r].pc = "compare"]
    /\ UNCHANGED <<manager, catalog, table, session, calls>>

Compare(r) ==
    /\ IsAt(r, "compare")
    /\ MovesTo(r, IF snapshot.revision = req[r].seen THEN "reply" ELSE "start")
    /\ UNCHANGED <<manager, catalog, table, session, calls>>

\* build_catalog_snapshot: the revision, the enabled commands, the revision again.
StartBuild(r) ==
    /\ IsAt(r, "start")
    /\ req' = [req EXCEPT ![r].seen = revision, ![r].pc = "list"]
    /\ UNCHANGED <<manager, catalog, table, session, calls>>

\* list_enabled_commands waits for the read lock on the disabled domains.
ListEnabled(r) ==
    /\ IsAt(r, "list") /\ writer = None
    /\ req' = [req EXCEPT ![r].built = disabled, ![r].pc = "recheck"]
    /\ UNCHANGED <<manager, catalog, table, session, calls>>

\* Mutant: the revision is not read again.
RecheckSkipped(r) ==
    /\ IsAt(r, "recheck")
    /\ MovesTo(r, "publish")
    /\ UNCHANGED <<manager, catalog, table, session, calls>>

\* Mutant: a build that was overtaken is given up.
RecheckGivesUp(r) ==
    /\ IsAt(r, "recheck")
    /\ MovesTo(r, IF revision = req[r].seen THEN "publish" ELSE "reply")
    /\ UNCHANGED <<manager, catalog, table, session, calls>>

Recheck(r) ==
    /\ IsAt(r, "recheck")
    /\ MovesTo(r, IF revision = req[r].seen THEN "publish" ELSE "start")
    /\ UNCHANGED <<manager, catalog, table, session, calls>>

\* Under the snapshot lock: only a newer build replaces the snapshot. list_tools
\* drops the result; a call and a finished job go on to notify the peers.
Publish(r) ==
    /\ IsAt(r, "publish")
    /\ IF snapshot.revision >= req[r].seen
       THEN UNCHANGED catalog /\ MovesTo(r, "reply")
       ELSE /\ snapshot' = [revision |-> req[r].seen, hides |-> req[r].built]
            /\ generation' = generation + 1
            /\ MovesTo(r, IF req[r].kind = "list" THEN "reply" ELSE "notify")
    /\ UNCHANGED <<manager, table, session, calls>>

\* register_peer for the caller, then notify_tool_list_changed_shared.
Notify(r) ==
    /\ IsAt(r, "notify")
    /\ IF req[r].on = None THEN UNCHANGED <<peers, nextPeer>> ELSE Register(req[r].on)
    /\ sent' = sent \cup {<<s, peers'[s]>> : s \in {x \in Sessions : peers'[x] # 0}}
    /\ MovesTo(r, "reply")
    /\ UNCHANGED <<manager, catalog, session, calls>>

\* The answer goes out; list_tools reads the snapshot at this point.
Reply(r) ==
    /\ IsAt(r, "reply")
    /\ req' = [req EXCEPT ![r].pc = "answered", ![r].seen = snapshot.revision, ![r].built = {}]
    /\ UNCHANGED <<manager, catalog, table, session, calls>>

-----------------------------------------------------------------------------
Handler(r) == HandlerReturns(r) \/ MutateSettings(r) \/ SetDisabledDomains(r) \/ BumpRevision(r)

Refresh(r) == LoadRevision(r) \/ Compare(r) \/ StartBuild(r) \/ ListEnabled(r) \/ Recheck(r)
              \/ Publish(r) \/ Notify(r) \/ Reply(r)

Serve(r) == BeginExecution(r) \/ DropExecution(r) \/ Refresh(r)

\* Only a server whose requests have all come to an end may stand still.
Settled == (\A r \in Requests : req[r].pc \in {"answered", "abandoned"}) /\ UNCHANGED mcpVars

McpNext ==
    \/ \E s \in Sessions : \/ Initialized(s) \/ CloseSession(s) \/ Delivered(s) \/ Undelivered(s)
                           \/ CancelOne(s)
                           \/ \E p \in ProtocolIds : CancelRequest(s, p)
    \/ \E r \in Requests : \/ \E k \in Kinds : Receive(r, k)
                           \/ Abandon(r) \/ Handler(r) \/ Serve(r)
    \/ Settled

McpSpec == McpInit /\ [][McpNext]_mcpVars

-----------------------------------------------------------------------------
(* Properties.                                                             *)

Steps == {"unsent", "begin", "execute", "drop", "abandoned", "load", "compare", "start", "list",
          "recheck", "publish", "notify", "reply", "answered"}

\* Every variable keeps its type.
McpTypeOK ==
    /\ {disabled, snapshot.hides, settings.disabled} \subseteq SUBSET Domains
    /\ revision \in 1 .. MaxRevision /\ snapshot.revision \in 1 .. MaxRevision
    /\ {writer, settings.by} \subseteq Requests \cup {None}
    /\ generation \in 1 .. MaxRevision
    /\ peers \in [Sessions -> 0 .. nextPeer - 1]
    /\ sent \subseteq Sessions \X (1 .. nextPeer - 1)
    /\ session \in [Sessions -> {"new", "open", "closed"}]
    /\ active \subseteq Sessions \X ProtocolIds \X (1 .. nextId - 1)
    /\ \A r \in Requests : req[r].pc \in Steps
    /\ handler \in [Requests -> {"none", "running", "saved", "bump", "applied", "over"}]

\* The published catalog is the one that was in force at the revision it
\* claims, never a mixture of a revision and another one's domains
\* (build_catalog_snapshot against set_disabled_domains, which changes the set
\* before the revision).
SnapshotConsistent == snapshot.hides = was[snapshot.revision]

\* A registered peer is dropped when its session ends or when a notification
\* to this very registration fails, not for one sent to an earlier registration
\* (remove_peer_generation against register_peer).
PeerKept ==
    [][\A s \in Sessions : peers[s] # 0 /\ peers'[s] = 0
          => session'[s] = "closed" \/ <<s, peers[s]>> \in sent]_mcpVars

\* Read your writes: an answered request leaves the snapshot at least as new as
\* the catalog was when it arrived, and as its own change made it, although
\* other requests change, build and publish at the same time.
FreshAnswers == \A r \in Requests : IsAt(r, "answered") => req[r].seen >= req[r].floor

\* What a session is told of the catalog is one revision of it, and none older than
\* the changes it knows of, and an open session stays registered for what comes next
\* (refresh_catalog_generation_shared, notify_tool_list_changed_shared).
CatalogSound == []SnapshotConsistent /\ []FreshAnswers /\ PeerKept

\* A cancellation reaches only calls that were running in its session under its
\* protocol id when it arrived: neither another session's call nor a later one
\* that reuses the id (begin_execution, cancel_request).
CancelsOnlyNamed ==
    \A r \in Requests : req[r].answer = "cancelled" => req[r].named \/ IsAt(r, "abandoned")

==============================================================================
