--------------------------- MODULE McpServerProofs ---------------------------
(***************************************************************************)
(* Proofs about the sessions of the MCP server, for any number of          *)
(* sessions, requests, protocol ids and domains.                           *)
(***************************************************************************)
EXTENDS McpServer, TLAPS

-----------------------------------------------------------------------------
(* The inductive invariant.                                                *)

Request == [pc : Steps, kind : {"tool", "plugins", "list", "job"}, on : Sessions \cup {None},
            proto : ProtocolIds \cup {None}, id : Nat, seen : Nat, built : SUBSET Domains,
            floor : Nat, answer : {"none", "result", "cancelled"}, named : BOOLEAN]

\* Every variable has its type, bounds aside; `was` has an entry per revision.
McpTypes ==
    /\ disabled \in SUBSET Domains
    /\ revision \in Nat \ {0}
    /\ writer \in Requests \cup {None}
    /\ settings \in [by : Requests \cup {None}, disabled : SUBSET Domains]
    /\ snapshot \in [revision : Nat, hides : SUBSET Domains]
    /\ generation \in Nat
    /\ peers \in [Sessions -> Nat]
    /\ nextPeer \in Nat \ {0}
    /\ sent \subseteq Sessions \X Nat
    /\ session \in [Sessions -> {"new", "open", "closed"}]
    /\ nextId \in Nat \ {0}
    /\ active \subseteq Sessions \X ProtocolIds \X Nat
    /\ cancelling \in [Sessions -> SUBSET Nat]
    /\ req \in [Requests -> Request]
    /\ handler \in [Requests -> {"none", "running", "saved", "bump", "applied", "over"}]
    /\ was \in [1 .. revision -> SUBSET Domains]
    /\ \A r \in Requests : IsAt(r, "begin") => req[r].on \in Sessions /\ req[r].proto \in ProtocolIds

\* What was handed out as an execution id is below the counter.
IdsBelow ==
    /\ \A a \in active : a[3] \in 1 .. nextId - 1
    /\ \A s \in Sessions : cancelling[s] \subseteq 1 .. nextId - 1
    /\ \A r \in Requests : req[r].id < nextId

\* An active execution belongs to the session and the protocol id of the
\* request that began it, and an id on a cancellation's list is that of a call
\* the cancellation named, unless that call is over.
IdsOwned ==
    /\ \A a \in active, r \in Requests :
          req[r].id = a[3] => req[r].on = a[1] /\ req[r].proto = a[2]
    /\ \A s \in Sessions, r \in Requests :
          req[r].id \in cancelling[s] /\ IsAt(r, "execute") => req[r].named
    /\ CancelsOnlyNamed

\* Outside the write lock the disabled domains are those of the revision.
LockInv ==
    /\ \A r \in Requests : handler[r] = "bump" => writer = r
    /\ writer = None => disabled = was[revision]

\* A build that is about to be published is of one revision.
BuildInv ==
    /\ snapshot.revision \in 1 .. revision
    /\ SnapshotConsistent
    /\ \A r \in Requests :
          /\ req[r].seen <= revision
          /\ req[r].pc \in {"list", "recheck", "publish"} => req[r].seen \in 1 .. revision
          /\ IsAt(r, "recheck") /\ req[r].seen = revision => req[r].built = was[revision]
          /\ IsAt(r, "publish") => req[r].built = was[req[r].seen]

\* How far the refresh of a request has come towards its floor.
FreshInv ==
    \A r \in Requests :
        /\ req[r].floor <= revision
        /\ req[r].pc \in {"compare", "list", "recheck", "publish", "answered"}
             => req[r].seen >= req[r].floor
        /\ req[r].pc \in {"notify", "reply"} => snapshot.revision >= req[r].floor

\* The settings mutex is held from the update of the stored set to the end of
\* the handler, so only one revision is raised at a time; and every counter is
\* ahead of what was handed out.
BoundInv ==
    /\ \A r \in Requests : handler[r] \in {"saved", "bump", "applied"} => settings.by = r
    /\ \A r \in Requests : handler[r] \in {"saved", "bump"} => revision < MaxRevision
    /\ revision <= MaxRevision
    /\ generation \in 1 .. snapshot.revision /\ snapshot.revision <= revision
    /\ \A s \in Sessions : peers[s] < nextPeer
    /\ \A n \in sent : n[2] \in 1 .. nextPeer - 1

McpInv ==
    McpTypes /\ IdsBelow /\ IdsOwned /\ LockInv /\ BuildInv /\ FreshInv /\ BoundInv

-----------------------------------------------------------------------------
(* What each step does to the record of a request, field by field.         *)

\* The part of the types that a proof does arithmetic or logic with.
FieldTypes ==
    /\ revision \in Nat \ {0} /\ snapshot.revision \in Nat /\ nextId \in Nat \ {0}
    /\ handler \in [Requests -> {"none", "running", "saved", "bump", "applied", "over"}]
    /\ \A r \in Requests :
        /\ req[r].pc \in Steps /\ req[r].on \in Sessions \cup {None}
        /\ req[r].proto \in ProtocolIds \cup {None}
        /\ req[r].id \in Nat /\ req[r].seen \in Nat /\ req[r].floor \in Nat
        /\ req[r].built \in SUBSET Domains /\ req[r].named \in BOOLEAN

\* The records of all other requests stay.
Others(r) == req' \in [Requests -> Request] /\ \A q \in Requests \ {r} : req'[q] = req[q]

\* Which call it is, what it has read, and how it was answered.
KeepsCall(r) ==
    req'[r].kind = req[r].kind /\ req'[r].on = req[r].on /\ req'[r].proto = req[r].proto
KeepsReading(r) == req'[r].seen = req[r].seen /\ req'[r].built = req[r].built
KeepsAnswer(r) == req'[r].answer = req[r].answer /\ req'[r].named = req[r].named

\* A step of the refresh: the request moves on, having read n and d.
Reads(r, p, n, d) ==
    /\ Others(r) /\ KeepsCall(r) /\ KeepsAnswer(r)
    /\ req'[r].id = req[r].id /\ req'[r].floor = req[r].floor
    /\ req'[r].pc = p /\ req'[r].seen = n /\ req'[r].built = d

\* It follows from the types.
LEMMA Fields == McpTypes => FieldTypes
  BY DEF McpTypes, FieldTypes, Request

\* MovesTo changes the point alone.
LEMMA Moves ==
  ASSUME McpTypes, NEW r \in Requests, NEW p \in Steps, MovesTo(r, p)
  PROVE  Reads(r, p, req[r].seen, req[r].built)
<1>1. req \in [Requests -> Request]
  BY DEF McpTypes
<1> QED
  BY <1>1 DEF MovesTo, Request, Reads, Others, KeepsCall, KeepsAnswer

\* A step that touches nothing but the record of its request.
Local == UNCHANGED <<manager, catalog, table, session, calls>>

\* LoadRevision and StartBuild read the revision, ListEnabled the domains, and
\* Reply the snapshot.
LEMMA Readings ==
  ASSUME McpTypes, NEW r \in Requests
  PROVE  /\ LoadRevision(r) => IsAt(r, "load") /\ Local /\ Reads(r, "compare", revision, req[r].built)
         /\ StartBuild(r) => IsAt(r, "start") /\ Local /\ Reads(r, "list", revision, req[r].built)
         /\ ListEnabled(r) => /\ IsAt(r, "list") /\ writer = None /\ Local
                              /\ Reads(r, "recheck", req[r].seen, disabled)
         /\ Reply(r) => IsAt(r, "reply") /\ Local /\ Reads(r, "answered", snapshot.revision, {})
<1> USE DEF Others, KeepsCall, KeepsAnswer
<1>1. /\ req \in [Requests -> Request] /\ revision \in Nat /\ disabled \in SUBSET Domains
      /\ snapshot.revision \in Nat
  BY DEF McpTypes
<1>2. {"compare", "list", "recheck", "answered"} \subseteq Steps
  BY DEF Steps
<1>3. ASSUME LoadRevision(r) PROVE Reads(r, "compare", revision, req[r].built)
  BY <1>1, <1>2, <1>3, ZenonT(60) DEF LoadRevision, Request, Reads
<1>4. ASSUME StartBuild(r) PROVE Reads(r, "list", revision, req[r].built)
  BY <1>1, <1>2, <1>4, ZenonT(60) DEF StartBuild, Request, Reads
<1>5. ASSUME ListEnabled(r) PROVE Reads(r, "recheck", req[r].seen, disabled)
  BY <1>1, <1>2, <1>5, ZenonT(60) DEF ListEnabled, Request, Reads
<1>6. ASSUME Reply(r) PROVE Reads(r, "answered", snapshot.revision, {})
  <2>1. /\ req[r] \in Request
        /\ req'[r] = [req[r] EXCEPT !.pc = "answered", !.seen = snapshot.revision, !.built = {}]
    BY <1>1, <1>6 DEF Reply
  <2>2. /\ req'[r] \in Request /\ KeepsCall(r) /\ KeepsAnswer(r)
        /\ req'[r].id = req[r].id /\ req'[r].floor = req[r].floor
        /\ req'[r].pc = "answered" /\ req'[r].seen = snapshot.revision /\ req'[r].built = {}
    BY ONLY <1>1, <1>2, <2>1, ZenonT(60) DEF Request, KeepsCall, KeepsAnswer
  <2>3. Others(r)
    BY <1>1, <1>6, <2>2 DEF Reply
  <2> QED
    BY <2>2, <2>3 DEF Reads
<1> QED
  BY <1>3, <1>4, <1>5, <1>6 DEF LoadRevision, StartBuild, ListEnabled, Reply, Local

\* A request arrives without an execution id.
LEMMA Arrival ==
  ASSUME McpTypes, NEW r \in Requests, NEW k \in Kinds, Receive(r, k)
  PROVE  /\ Others(r)
         /\ req'[r].id = 0 /\ req'[r].seen = 0 /\ req'[r].floor = revision
         /\ req'[r].pc \in {"load", "begin"} /\ req'[r].answer = "none"
         /\ req'[r].pc = "begin" => req'[r].on \in Sessions /\ req'[r].proto \in ProtocolIds
<1>1. /\ req \in [Requests -> Request] /\ revision \in Nat
      /\ k \in {"tool", "plugins", "list", "job"} /\ {"load", "begin"} \subseteq Steps
  BY KindsAssumption DEF McpTypes, Steps
<1>2. PICK s \in Sessions, p \in ProtocolIds :
         req' = [req EXCEPT ![r] =
                [NoRequest EXCEPT !.kind = k, !.floor = revision,
                                  !.on = IF k = "job" THEN None ELSE s,
                                  !.proto = IF k = "job" THEN None ELSE p,
                                  !.pc = IF k \in {"list", "job"} THEN "load" ELSE "begin"]]
  BY DEF Receive
<1>3. req'[r] = [NoRequest EXCEPT !.kind = k, !.floor = revision,
                                  !.on = IF k = "job" THEN None ELSE s,
                                  !.proto = IF k = "job" THEN None ELSE p,
                                  !.pc = IF k \in {"list", "job"} THEN "load" ELSE "begin"]
  BY <1>1, <1>2
<1>4. req'[r] = [pc |-> IF k \in {"list", "job"} THEN "load" ELSE "begin", kind |-> k,
                 on |-> IF k = "job" THEN None ELSE s, proto |-> IF k = "job" THEN None ELSE p,
                 id |-> None, seen |-> 0, built |-> {}, floor |-> revision,
                 answer |-> "none", named |-> FALSE]
  BY <1>3 DEF NoRequest
<1>5. /\ req'[r] \in Request
      /\ req'[r].id = 0 /\ req'[r].seen = 0 /\ req'[r].floor = revision
      /\ req'[r].pc \in {"load", "begin"} /\ req'[r].answer = "none"
      /\ req'[r].pc = "begin" => req'[r].on \in Sessions /\ req'[r].proto \in ProtocolIds
  BY ONLY <1>1, <1>4 DEF Request, None
<1>6. Others(r)
  BY <1>1, <1>2, <1>5 DEF Others
<1> QED
  BY <1>5, <1>6

\* begin_execution gives the request the next id.
LEMMA Beginning ==
  ASSUME McpTypes, NEW r \in Requests, BeginExecution(r)
  PROVE  /\ Others(r) /\ KeepsCall(r) /\ KeepsAnswer(r) /\ KeepsReading(r)
         /\ req'[r].floor = req[r].floor
         /\ req'[r].pc = "execute" /\ req'[r].id = nextId
<1>1. req \in [Requests -> Request] /\ nextId \in Nat /\ "execute" \in Steps
  BY DEF McpTypes, Steps
<1> QED
  BY <1>1, ZenonT(60) DEF BeginExecution, Request, Others, KeepsCall, KeepsAnswer, KeepsReading

\* The handler's return answers a call that still waits.
LEMMA Returning ==
  ASSUME McpTypes, NEW r \in Requests, HandlerReturns(r)
  PROVE  \/ req' = req
         \/ /\ IsAt(r, "execute")
            /\ Others(r) /\ KeepsCall(r) /\ KeepsReading(r)
            /\ req'[r].id = req[r].id /\ req'[r].named = req[r].named
            /\ req'[r].pc = "drop" /\ req'[r].answer = "result"
            /\ req'[r].floor \in {req[r].floor, revision}
<1> DEFINE n == IF handler[r] = "applied" THEN revision ELSE req[r].floor
<1>1. req \in [Requests -> Request] /\ revision \in Nat /\ "drop" \in Steps
  BY DEF McpTypes, Steps
<1>2. n \in Nat /\ n \in {req[r].floor, revision}
  BY <1>1 DEF Request
<1>3. CASE IsAt(r, "execute")
  <2>1. req' = [req EXCEPT ![r] = [req[r] EXCEPT !.pc = "drop", !.answer = "result", !.floor = n]]
    BY <1>1, <1>3 DEF HandlerReturns
  <2> HIDE DEF n
  <2>2. /\ req[r] \in Request
        /\ req'[r] = [req[r] EXCEPT !.pc = "drop", !.answer = "result", !.floor = n]
    BY <1>1, <2>1
  <2>3. /\ req'[r] \in Request /\ KeepsCall(r) /\ KeepsReading(r)
        /\ req'[r].id = req[r].id /\ req'[r].named = req[r].named
        /\ req'[r].pc = "drop" /\ req'[r].answer = "result" /\ req'[r].floor = n
    BY ONLY <1>1, <1>2, <2>2 DEF Request, KeepsCall, KeepsReading
  <2>4. Others(r)
    BY <1>1, <2>1, <2>3 DEF Others
  <2> QED
    BY <1>2, <1>3, <2>3, <2>4
<1>4. CASE ~IsAt(r, "execute")
  BY <1>4 DEF HandlerReturns
<1> QED
  BY <1>3, <1>4

\* An abandoned call is over and counts as cancelled.
LEMMA Abandoning ==
  ASSUME McpTypes, NEW r \in Requests, Abandon(r)
  PROVE  /\ Others(r) /\ KeepsCall(r) /\ KeepsReading(r)
         /\ req'[r].id = req[r].id /\ req'[r].floor = req[r].floor /\ req'[r].named = req[r].named
         /\ req'[r].pc = "abandoned" /\ req'[r].answer = "cancelled"
<1>1. req \in [Requests -> Request] /\ "abandoned" \in Steps
  BY DEF McpTypes, Steps
<1> QED
  BY <1>1, ZenonT(60) DEF Abandon, Request, Others, KeepsCall, KeepsReading

\* Executor::cancel answers the waiting calls with this id and no others.
LEMMA Cancelling ==
  ASSUME McpTypes, NEW id, Cancel(id)
  PROVE  /\ req' \in [Requests -> Request]
         /\ \A q \in Requests :
              \/ req'[q] = req[q]
              \/ /\ IsAt(q, "execute") /\ req[q].id = id
                 /\ KeepsCall(q) /\ KeepsReading(q)
                 /\ req'[q].id = req[q].id /\ req'[q].floor = req[q].floor
                 /\ req'[q].named = req[q].named
                 /\ req'[q].pc = "drop" /\ req'[q].answer = "cancelled"
<1>1. req \in [Requests -> Request] /\ "drop" \in Steps
  BY DEF McpTypes, Steps
<1>2. ASSUME NEW q \in Requests
      PROVE  /\ req'[q] \in Request
             /\ \/ req'[q] = req[q]
                \/ /\ IsAt(q, "execute") /\ req[q].id = id
                   /\ KeepsCall(q) /\ KeepsReading(q)
                   /\ req'[q].id = req[q].id /\ req'[q].floor = req[q].floor
                   /\ req'[q].named = req[q].named
                   /\ req'[q].pc = "drop" /\ req'[q].answer = "cancelled"
  <2>1. CASE IsAt(q, "execute") /\ req[q].id = id
    <3>1. req[q] \in Request /\ req'[q] = [req[q] EXCEPT !.pc = "drop", !.answer = "cancelled"]
      BY <1>1, <2>1 DEF Cancel
    <3> QED
      BY ONLY <1>1, <2>1, <3>1 DEF Request, KeepsCall, KeepsReading
  <2>2. CASE ~(IsAt(q, "execute") /\ req[q].id = id)
    BY <1>1, <2>2 DEF Cancel
  <2> QED
    BY <2>1, <2>2
<1>3. req' \in [Requests -> Request]
  BY <1>2 DEF Cancel
<1> QED
  BY <1>2, <1>3

\* cancel_request marks the waiting calls it names.
LEMMA Naming ==
  ASSUME McpTypes, NEW s \in Sessions, NEW p \in ProtocolIds, CancelRequest(s, p)
  PROVE  /\ req' \in [Requests -> Request]
         /\ \A q \in Requests :
              /\ KeepsCall(q) /\ KeepsReading(q)
              /\ req'[q].pc = req[q].pc /\ req'[q].id = req[q].id
              /\ req'[q].floor = req[q].floor /\ req'[q].answer = req[q].answer
              /\ req[q].named \/ (req[q].on = s /\ req[q].proto = p /\ IsAt(q, "execute"))
                   => req'[q].named
<1> DEFINE n(q) == req[q].named \/ (req[q].on = s /\ req[q].proto = p /\ IsAt(q, "execute"))
<1>1. req \in [Requests -> Request]
  BY DEF McpTypes
<1>2. req' = [q \in Requests |-> [req[q] EXCEPT !.named = n(q)]]
  BY DEF CancelRequest
<1>3. \A q : n(q) \in BOOLEAN
  OBVIOUS
<1> HIDE DEF n
<1>4. ASSUME NEW q \in Requests
      PROVE  /\ req[q] \in Request /\ n(q) \in BOOLEAN
             /\ req'[q] = [req[q] EXCEPT !.named = n(q)]
  BY <1>1, <1>2, <1>3
<1>5. ASSUME NEW q \in Requests
      PROVE  /\ req'[q] \in Request /\ KeepsCall(q) /\ KeepsReading(q)
             /\ req'[q].pc = req[q].pc /\ req'[q].id = req[q].id
             /\ req'[q].floor = req[q].floor /\ req'[q].answer = req[q].answer
             /\ req'[q].named = n(q)
  <2>1. /\ req'[q].pc = req[q].pc /\ req'[q].id = req[q].id
        /\ req'[q].floor = req[q].floor /\ req'[q].answer = req[q].answer
    BY ONLY <1>4 DEF Request
  <2>2. KeepsCall(q) /\ KeepsReading(q)
    BY ONLY <1>4 DEF Request, KeepsCall, KeepsReading
  <2>3. req'[q].named = n(q)
    BY ONLY <1>4 DEF Request
  <2>4. req'[q] \in Request
    <3>1. CASE n(q) = TRUE
      <4>1. req'[q] = [req[q] EXCEPT !.named = TRUE] /\ req[q] \in Request
        BY <1>4, <3>1
      <4> QED
        BY ONLY <4>1 DEF Request
    <3>2. CASE n(q) = FALSE
      <4>1. req'[q] = [req[q] EXCEPT !.named = FALSE] /\ req[q] \in Request
        BY <1>4, <3>2
      <4> QED
        BY ONLY <4>1 DEF Request
    <3> QED
      BY <1>4, <3>1, <3>2
  <2> QED
    BY <2>1, <2>2, <2>3, <2>4
<1>6. req' \in [Requests -> Request]
  BY <1>2, <1>5
<1> QED
  BY <1>5, <1>6 DEF n

\* The whole effect of each step that changes the record of a request.
Received(r) ==
    /\ Others(r) /\ IsAt(r, "unsent")
    /\ req'[r].id = 0 /\ req'[r].seen = 0 /\ req'[r].floor = revision
    /\ req'[r].pc \in {"load", "begin"} /\ req'[r].answer = "none"
    /\ req'[r].pc = "begin" => req'[r].on \in Sessions /\ req'[r].proto \in ProtocolIds
    /\ Local

Began(r) ==
    /\ IsAt(r, "begin")
    /\ Others(r) /\ KeepsCall(r) /\ KeepsAnswer(r) /\ KeepsReading(r)
    /\ req'[r].floor = req[r].floor
    /\ req'[r].pc = "execute" /\ req'[r].id = nextId /\ nextId' = nextId + 1
    /\ active' = active \cup {<<req[r].on, req[r].proto, nextId>>}
    /\ handler' = [handler EXCEPT ![r] = "running"]
    /\ UNCHANGED <<manager, catalog, table, session, cancelling>>

Returned(r) ==
    /\ \/ req' = req
       \/ /\ IsAt(r, "execute")
          /\ Others(r) /\ KeepsCall(r) /\ KeepsReading(r)
          /\ req'[r].id = req[r].id /\ req'[r].named = req[r].named
          /\ req'[r].pc = "drop" /\ req'[r].answer = "result"
          /\ req'[r].floor \in {req[r].floor, revision}
    /\ handler[r] \in {"running", "applied"}
    /\ handler' = [handler EXCEPT ![r] = "over"]
    /\ settings' = IF settings.by = r THEN [settings EXCEPT !.by = None] ELSE settings
    /\ UNCHANGED <<disabled, revision, writer, was, catalog, table, session, nextId, active, cancelling>>

Named(s, p) ==
    /\ req' \in [Requests -> Request]
    /\ \A q \in Requests :
         /\ KeepsCall(q) /\ KeepsReading(q)
         /\ req'[q].pc = req[q].pc /\ req'[q].id = req[q].id
         /\ req'[q].floor = req[q].floor /\ req'[q].answer = req[q].answer
         /\ req[q].named \/ (req[q].on = s /\ req[q].proto = p /\ IsAt(q, "execute"))
              => req'[q].named
    /\ cancelling' = [cancelling EXCEPT ![s] = {a[3] : a \in {x \in active : x[1] = s /\ x[2] = p}}]
    /\ UNCHANGED <<manager, catalog, table, session, nextId, active, handler>>

Abandoned(r) ==
    /\ Others(r) /\ KeepsCall(r) /\ KeepsReading(r)
    /\ req'[r].id = req[r].id /\ req'[r].floor = req[r].floor
    /\ req'[r].pc = "abandoned" /\ req'[r].answer = "cancelled"
    /\ active' = active \ {<<req[r].on, req[r].proto, req[r].id>>}
    /\ UNCHANGED <<manager, catalog, table, session, nextId, cancelling, handler>>

Dropped(r) ==
    /\ IsAt(r, "drop") /\ Reads(r, "load", req[r].seen, req[r].built)
    /\ active' = active \ {<<req[r].on, req[r].proto, req[r].id>>}
    /\ UNCHANGED <<manager, catalog, table, session, nextId, cancelling, handler>>

Loaded(r) == IsAt(r, "load") /\ Local /\ Reads(r, "compare", revision, req[r].built)

Compared(r) ==
    /\ IsAt(r, "compare") /\ Local
    /\ \/ snapshot.revision = req[r].seen /\ Reads(r, "reply", req[r].seen, req[r].built)
       \/ Reads(r, "start", req[r].seen, req[r].built)

Started(r) == IsAt(r, "start") /\ Local /\ Reads(r, "list", revision, req[r].built)

Listed(r) ==
    IsAt(r, "list") /\ writer = None /\ Local /\ Reads(r, "recheck", req[r].seen, disabled)

Rechecked(r) ==
    /\ IsAt(r, "recheck") /\ Local
    /\ \/ revision = req[r].seen /\ Reads(r, "publish", req[r].seen, req[r].built)
       \/ Reads(r, "start", req[r].seen, req[r].built)

Published(r) ==
    /\ IsAt(r, "publish")
    /\ UNCHANGED <<manager, table, session, calls>>
    /\ \/ /\ snapshot.revision >= req[r].seen
          /\ Reads(r, "reply", req[r].seen, req[r].built)
          /\ UNCHANGED <<snapshot, generation>>
       \/ /\ ~(snapshot.revision >= req[r].seen)
          /\ \/ Reads(r, "reply", req[r].seen, req[r].built)
             \/ Reads(r, "notify", req[r].seen, req[r].built)
          /\ snapshot' = [revision |-> req[r].seen, hides |-> req[r].built]
          /\ generation' = generation + 1

Notified(r) ==
    /\ IsAt(r, "notify") /\ Reads(r, "reply", req[r].seen, req[r].built)
    /\ (peers' = peers /\ nextPeer' = nextPeer) \/ Register(req[r].on)
    /\ sent' = sent \cup {<<s, peers'[s]>> : s \in {x \in Sessions : peers'[x] # 0}}
    /\ UNCHANGED <<manager, catalog, session, calls>>

Replied(r) == IsAt(r, "reply") /\ Local /\ Reads(r, "answered", snapshot.revision, {})

\* Every such step has its effect.
LEMMA Effects ==
  ASSUME McpTypes, NEW r \in Requests
  PROVE  /\ BeginExecution(r) => Began(r)
         /\ HandlerReturns(r) => Returned(r)
         /\ Abandon(r) => Abandoned(r)
         /\ DropExecution(r) => Dropped(r)
         /\ LoadRevision(r) => Loaded(r)
         /\ Compare(r) => Compared(r)
         /\ StartBuild(r) => Started(r)
         /\ ListEnabled(r) => Listed(r)
         /\ Recheck(r) => Rechecked(r)
         /\ Publish(r) => Published(r)
         /\ Notify(r) => Notified(r)
         /\ Reply(r) => Replied(r)
         /\ \A k \in Kinds : Receive(r, k) => Received(r)
<1>a. {"load", "reply", "start", "publish", "notify"} \subseteq Steps
  BY DEF Steps
<1>b. \A p \in Steps : MovesTo(r, p) => Reads(r, p, req[r].seen, req[r].built)
  BY Moves
<1>1. BeginExecution(r) => Began(r)
  BY Beginning DEF Began, BeginExecution
<1>2. HandlerReturns(r) => Returned(r)
  BY Returning DEF Returned, HandlerReturns
<1>3. Abandon(r) => Abandoned(r)
  BY Abandoning DEF Abandoned, Abandon
<1>4. DropExecution(r) => Dropped(r)
  BY <1>a, <1>b DEF DropExecution, Dropped
<1>5. LoadRevision(r) => Loaded(r)
  BY Readings DEF Loaded
<1>6. Compare(r) => Compared(r)
  BY <1>a, <1>b DEF Compare, Compared, Local
<1>7. StartBuild(r) => Started(r)
  BY Readings DEF Started
<1>8. ListEnabled(r) => Listed(r)
  BY Readings DEF Listed
<1>9. Recheck(r) => Rechecked(r)
  BY <1>a, <1>b DEF Recheck, Rechecked, Local
<1>10. ASSUME Publish(r) PROVE Published(r)
  <2>1. CASE snapshot.revision >= req[r].seen
    BY <1>a, <1>b, <1>10, <2>1 DEF Publish, Published, catalog
  <2>2. CASE ~(snapshot.revision >= req[r].seen)
    BY <1>a, <1>b, <1>10, <2>2 DEF Publish, Published
  <2> QED
    BY <2>1, <2>2
<1>11. Notify(r) => Notified(r)
  BY <1>a, <1>b DEF Notify, Notified
<1>12. Reply(r) => Replied(r)
  BY Readings DEF Replied
<1>13. ASSUME NEW k \in Kinds, Receive(r, k) PROVE Received(r)
  BY <1>13, Arrival DEF Receive, Received, Local
<1> QED
  BY <1>1, <1>2, <1>3, <1>4, <1>5, <1>6, <1>7, <1>8, <1>9, <1>10, <1>11, <1>12, <1>13

\* So has cancel_request.
LEMMA NamedEffect ==
  ASSUME McpTypes, NEW s \in Sessions, NEW p \in ProtocolIds, CancelRequest(s, p)
  PROVE  Named(s, p)
<1>1. /\ req' \in [Requests -> Request]
      /\ \A q \in Requests :
           /\ KeepsCall(q) /\ KeepsReading(q)
           /\ req'[q].pc = req[q].pc /\ req'[q].id = req[q].id
           /\ req'[q].floor = req[q].floor /\ req'[q].answer = req[q].answer
           /\ req[q].named \/ (req[q].on = s /\ req[q].proto = p /\ IsAt(q, "execute"))
                => req'[q].named
  BY Naming
<1>2. /\ cancelling' = [cancelling EXCEPT ![s] = {a[3] : a \in {x \in active : x[1] = s /\ x[2] = p}}]
      /\ UNCHANGED <<manager, catalog, table, session, nextId, active, handler>>
  BY DEF CancelRequest
<1> QED
  BY <1>1, <1>2 DEF Named

-----------------------------------------------------------------------------
(* Execution ids.                                                          *)

\* A step that hands out no id and names no call: it ends calls at most, and
\* the answer it gives as cancelled is one of a call that was named.
Carried ==
    /\ active' \subseteq active
    /\ \A s \in Sessions : cancelling'[s] \subseteq cancelling[s]
    /\ \A q \in Requests :
          /\ req'[q].id = req[q].id /\ req'[q].on = req[q].on /\ req'[q].proto = req[q].proto
          /\ req'[q].pc = "execute" => req[q].pc = "execute"
          /\ req[q].named => req'[q].named
          /\ req'[q].answer = "cancelled" => req'[q].named \/ req'[q].pc = "abandoned"

\* Such a step cannot make an id belong to another call.
LEMMA CarriedOwned == IdsOwned /\ Carried => IdsOwned'
  BY DEF IdsOwned, Carried, CancelsOnlyNamed, IsAt

\* A step of a refresh is one.
LEMMA ReadsOwned ==
  ASSUME IdsOwned, NEW r \in Requests, NEW p, NEW n, NEW d, Reads(r, p, n, d),
         req[r].pc # "abandoned", p # "execute",
         active' \subseteq active, cancelling' = cancelling
  PROVE  IdsOwned'
<1>1. ASSUME NEW q \in Requests
      PROVE  /\ req'[q].id = req[q].id /\ req'[q].on = req[q].on /\ req'[q].proto = req[q].proto
             /\ req'[q].pc = "execute" => req[q].pc = "execute"
             /\ req[q].named => req'[q].named
             /\ req'[q].answer = "cancelled" => req'[q].named \/ req'[q].pc = "abandoned"
  <2>1. CASE q = r
    BY <2>1 DEF Reads, KeepsCall, KeepsAnswer, IsAt, IdsOwned, CancelsOnlyNamed
  <2>2. CASE q # r
    BY <2>2 DEF Reads, Others, IsAt, IdsOwned, CancelsOnlyNamed
  <2> QED
    BY <2>1, <2>2
<1> QED
  BY <1>1, CarriedOwned DEF Carried

-----------------------------------------------------------------------------
(* Readings of the catalog.                                                *)

\* A step that neither changes the catalog nor takes a request into a build.
Unread ==
    /\ UNCHANGED <<revision, was, snapshot>>
    /\ \A q \in Requests :
          /\ req'[q].seen = req[q].seen /\ req'[q].built = req[q].built
          /\ req'[q].pc \in {"list", "recheck", "publish"} => req'[q].pc = req[q].pc

\* Such a step leaves every build as it is.
LEMMA UnreadBuild == BuildInv /\ Unread => BuildInv'
  BY DEF BuildInv, SnapshotConsistent, Unread, IsAt

-----------------------------------------------------------------------------
(* Each part of the invariant is kept by every step.                       *)

\* Each step keeps every variable in its range.
LEMMA TypesStep ==
  ASSUME McpTypes, [McpNext]_mcpVars
  PROVE  McpTypes'
<1> USE RequestsAssumption, MaxRevisionAssumption
<1>0. FieldTypes
  BY Fields
<1>1. ASSUME NEW s \in Sessions, Initialized(s) PROVE McpTypes'
  BY <1>1 DEF McpTypes, manager, catalog, table, calls, IsAt, None, Initialized, Register
<1>2. ASSUME NEW s \in Sessions, CloseSession(s) PROVE McpTypes'
  BY <1>2 DEF McpTypes, manager, catalog, table, calls, IsAt, None, CloseSession
<1>3. ASSUME NEW s \in Sessions, Delivered(s) PROVE McpTypes'
  BY <1>3 DEF McpTypes, manager, catalog, table, calls, IsAt, None, Delivered
<1>4. ASSUME NEW s \in Sessions, Undelivered(s) PROVE McpTypes'
  BY <1>4 DEF McpTypes, manager, catalog, table, calls, IsAt, None, Undelivered,
     PeerAfterFailure
<1>5. ASSUME NEW s \in Sessions, CancelOne(s) PROVE McpTypes'
  <2>1. PICK id \in cancelling[s] :
          Cancel(id) /\ cancelling' = [cancelling EXCEPT ![s] = @ \ {id}]
    BY <1>5 DEF CancelOne
  <2>2. /\ req' \in [Requests -> Request]
        /\ \A q \in Requests :
             \/ req'[q] = req[q]
             \/ /\ IsAt(q, "execute") /\ req[q].id = id
                /\ KeepsCall(q) /\ KeepsReading(q)
                /\ req'[q].id = req[q].id /\ req'[q].floor = req[q].floor
                /\ req'[q].named = req[q].named
                /\ req'[q].pc = "drop" /\ req'[q].answer = "cancelled"
    BY <2>1, Cancelling
  <2>3. UNCHANGED <<manager, catalog, table, session, nextId, active, handler>>
    BY <1>5 DEF CancelOne
  <2> QED
    BY <1>0, <2>1, <2>2, <2>3 DEF FieldTypes, manager, catalog, table, calls, IsAt,
       McpTypes, None, KeepsCall, KeepsReading
<1>6. ASSUME NEW s \in Sessions, NEW p \in ProtocolIds, CancelRequest(s, p) PROVE McpTypes'
  <2>1. /\ req' \in [Requests -> Request]
        /\ \A q \in Requests : req'[q].pc = req[q].pc /\ KeepsCall(q)
    BY <1>6, Naming
  <2>2. /\ cancelling' = [cancelling EXCEPT ![s] = {a[3] : a \in {x \in active : x[1] = s /\ x[2] = p}}]
        /\ UNCHANGED <<manager, catalog, table, session, nextId, active, handler>>
    BY <1>6 DEF CancelRequest
  <2>3. {a[3] : a \in {x \in active : x[1] = s /\ x[2] = p}} \in SUBSET Nat
    BY DEF McpTypes
  <2>4. cancelling' \in [Sessions -> SUBSET Nat]
    BY <2>2, <2>3 DEF McpTypes
  <2>5. \A q \in Requests : req'[q].pc = "begin" => req'[q].on \in Sessions /\ req'[q].proto \in ProtocolIds
    BY <2>1 DEF McpTypes, IsAt, KeepsCall
  <2> QED
    BY <2>1, <2>2, <2>4, <2>5 DEF McpTypes, manager, catalog, table, IsAt
<1>7. ASSUME NEW r \in Requests, NEW k \in Kinds, Receive(r, k) PROVE McpTypes'
  <2>1. Received(r)
    BY <1>7, Effects
  <2> QED
    BY <1>0, <2>1 DEF FieldTypes, manager, catalog, table, calls, IsAt, McpTypes, None,
       Received, Others, Local
<1>8. ASSUME NEW r \in Requests, Abandon(r) PROVE McpTypes'
  <2>1. Abandoned(r)
    BY <1>8, Effects
  <2> QED
    BY <1>0, <2>1 DEF FieldTypes, manager, catalog, table, calls, IsAt, McpTypes, None,
       Abandoned, Others, KeepsCall, KeepsReading
<1>9. ASSUME NEW r \in Requests, HandlerReturns(r) PROVE McpTypes'
  <2>1. Returned(r)
    BY <1>9, Effects
  <2> QED
    BY <1>0, <2>1 DEF FieldTypes, manager, catalog, table, calls, IsAt, McpTypes, None,
       Returned, Others, KeepsCall, KeepsReading
<1>10. ASSUME NEW r \in Requests, MutateSettings(r) PROVE McpTypes'
  BY <1>10 DEF McpTypes, manager, catalog, table, calls, IsAt, None, MutateSettings
<1>11. ASSUME NEW r \in Requests, SetDisabledDomains(r) PROVE McpTypes'
  BY <1>11 DEF McpTypes, manager, catalog, table, calls, IsAt, None, SetDisabledDomains
<1>12. ASSUME NEW r \in Requests, BumpRevision(r) PROVE McpTypes'
  BY <1>12 DEF McpTypes, manager, catalog, table, calls, IsAt, None, BumpRevision
<1>13. ASSUME NEW r \in Requests, BeginExecution(r) PROVE McpTypes'
  <2>1. Began(r)
    BY <1>13, Effects
  <2>2. req[r].on \in Sessions /\ req[r].proto \in ProtocolIds
    BY <2>1 DEF Began, McpTypes
  <2>3. active' \subseteq Sessions \X ProtocolIds \X Nat /\ nextId' \in Nat \ {0}
    BY <2>1, <2>2 DEF Began, McpTypes
  <2>4. handler' \in [Requests -> {"none", "running", "saved", "bump", "applied", "over"}]
    BY <2>1 DEF Began, McpTypes
  <2>5. /\ req' \in [Requests -> Request]
        /\ \A q \in Requests : req'[q].pc = "begin" => req'[q].on \in Sessions /\ req'[q].proto \in ProtocolIds
    BY <2>1 DEF Began, Others, McpTypes, IsAt
  <2> QED
    BY <2>1, <2>3, <2>4, <2>5 DEF Began, McpTypes, manager, catalog, table, IsAt
<1>14. ASSUME NEW r \in Requests, DropExecution(r) PROVE McpTypes'
  <2>1. Dropped(r)
    BY <1>14, Effects
  <2> QED
    BY <1>0, <2>1 DEF FieldTypes, manager, catalog, table, calls, IsAt, McpTypes, None,
       Dropped, Reads, Others, KeepsCall, KeepsAnswer
<1>15. ASSUME NEW r \in Requests, LoadRevision(r) PROVE McpTypes'
  <2>1. Loaded(r)
    BY <1>15, Effects
  <2> QED
    BY <1>0, <2>1 DEF FieldTypes, manager, catalog, table, calls, IsAt, McpTypes, None,
       Loaded, Local, Reads, Others, KeepsCall, KeepsAnswer
<1>16. ASSUME NEW r \in Requests, Compare(r) PROVE McpTypes'
  <2>1. Compared(r)
    BY <1>16, Effects
  <2> QED
    BY <1>0, <2>1 DEF FieldTypes, manager, catalog, table, calls, IsAt, McpTypes, None,
       Compared, Local, Reads, Others, KeepsCall, KeepsAnswer
<1>17. ASSUME NEW r \in Requests, StartBuild(r) PROVE McpTypes'
  <2>1. Started(r)
    BY <1>17, Effects
  <2> QED
    BY <1>0, <2>1 DEF FieldTypes, manager, catalog, table, calls, IsAt, McpTypes, None,
       Started, Local, Reads, Others, KeepsCall, KeepsAnswer
<1>18. ASSUME NEW r \in Requests, ListEnabled(r) PROVE McpTypes'
  <2>1. Listed(r)
    BY <1>18, Effects
  <2> QED
    BY <1>0, <2>1 DEF FieldTypes, manager, catalog, table, calls, IsAt, McpTypes, None,
       Listed, Local, Reads, Others, KeepsCall, KeepsAnswer
<1>19. ASSUME NEW r \in Requests, Recheck(r) PROVE McpTypes'
  <2>1. Rechecked(r)
    BY <1>19, Effects
  <2> QED
    BY <1>0, <2>1 DEF FieldTypes, manager, catalog, table, calls, IsAt, McpTypes, None,
       Rechecked, Local, Reads, Others, KeepsCall, KeepsAnswer
<1>20. ASSUME NEW r \in Requests, Publish(r) PROVE McpTypes'
  <2>1. /\ UNCHANGED <<manager, table, session, calls>>
        /\ \/ UNCHANGED <<snapshot, generation>>
           \/ /\ snapshot' = [revision |-> req[r].seen, hides |-> req[r].built]
              /\ generation' = generation + 1
        /\ \/ Reads(r, "reply", req[r].seen, req[r].built)
           \/ Reads(r, "notify", req[r].seen, req[r].built)
    BY <1>20, Effects DEF Published
  <2>2. /\ req' \in [Requests -> Request]
        /\ \A q \in Requests : req'[q].pc = "begin" => req'[q].on \in Sessions /\ req'[q].proto \in ProtocolIds
    BY <2>1 DEF Reads, Others, McpTypes, IsAt
  <2>3. /\ req[r].seen \in Nat /\ req[r].built \in SUBSET Domains
        /\ snapshot \in [revision : Nat, hides : SUBSET Domains] /\ generation \in Nat
    BY <1>0 DEF McpTypes, FieldTypes
  <2>4. snapshot' \in [revision : Nat, hides : SUBSET Domains] /\ generation' \in Nat
    BY <2>1, <2>3
  <2> QED
    BY <2>1, <2>2, <2>4 DEF McpTypes, manager, table, calls, IsAt
<1>21. ASSUME NEW r \in Requests, Notify(r) PROVE McpTypes'
  <2>1. /\ (peers' = peers /\ nextPeer' = nextPeer) \/ Register(req[r].on)
        /\ sent' = sent \cup {<<s, peers'[s]>> : s \in {x \in Sessions : peers'[x] # 0}}
        /\ UNCHANGED <<manager, catalog, session, calls>>
    BY <1>21 DEF Notify
  <2>2. peers' \in [Sessions -> Nat] /\ nextPeer' \in Nat \ {0} /\ nextPeer' >= nextPeer
    BY <2>1 DEF Register, McpTypes
  <2>3. sent' \subseteq Sessions \X Nat
    BY <2>1, <2>2 DEF McpTypes
  <2>4. Reads(r, "reply", req[r].seen, req[r].built)
    BY <1>21, Effects DEF Notified
  <2>5. /\ req' \in [Requests -> Request]
        /\ \A q \in Requests : req'[q].pc = "begin" => req'[q].on \in Sessions /\ req'[q].proto \in ProtocolIds
    BY <2>4 DEF Reads, Others, McpTypes, IsAt
  <2> QED
    BY <2>1, <2>2, <2>3, <2>5 DEF McpTypes, manager, catalog, calls, IsAt
<1>22. ASSUME NEW r \in Requests, Reply(r) PROVE McpTypes'
  <2>1. Replied(r)
    BY <1>22, Effects
  <2> QED
    BY <1>0, <2>1 DEF FieldTypes, manager, catalog, table, calls, IsAt, McpTypes, None,
       Replied, Local, Reads, Others, KeepsCall, KeepsAnswer
<1>23. CASE UNCHANGED mcpVars
  BY <1>23 DEF mcpVars, FieldTypes, manager, catalog, table, calls, IsAt, McpTypes, None
<1> QED
  BY <1>1, <1>2, <1>3, <1>4, <1>5, <1>6, <1>7, <1>8, <1>9, <1>10, <1>11, <1>12, <1>13,
     <1>14, <1>15, <1>16, <1>17, <1>18, <1>19, <1>20, <1>21, <1>22, <1>23 DEF McpNext,
     Handler, Serve, Refresh, Settled

\* Only begin_execution hands out an id, and it raises the counter.
LEMMA IdsBelowStep ==
  ASSUME McpTypes, IdsBelow, [McpNext]_mcpVars
  PROVE  IdsBelow'
<1> USE RequestsAssumption, MaxRevisionAssumption
<1>0. FieldTypes
  BY Fields
<1>1. ASSUME NEW s \in Sessions, Initialized(s) PROVE IdsBelow'
  BY <1>1, <1>0 DEF FieldTypes, manager, catalog, table, calls, IsAt, McpTypes, IdsBelow,
     None, Initialized, Register
<1>2. ASSUME NEW s \in Sessions, CloseSession(s) PROVE IdsBelow'
  BY <1>2, <1>0 DEF FieldTypes, manager, catalog, table, calls, IsAt, McpTypes, IdsBelow,
     None, CloseSession
<1>3. ASSUME NEW s \in Sessions, Delivered(s) PROVE IdsBelow'
  BY <1>3, <1>0 DEF FieldTypes, manager, catalog, table, calls, IsAt, McpTypes, IdsBelow,
     None, Delivered
<1>4. ASSUME NEW s \in Sessions, Undelivered(s) PROVE IdsBelow'
  BY <1>4, <1>0 DEF FieldTypes, manager, catalog, table, calls, IsAt, McpTypes, IdsBelow,
     None, Undelivered, PeerAfterFailure
<1>5. ASSUME NEW s \in Sessions, CancelOne(s) PROVE IdsBelow'
  <2>1. PICK id \in cancelling[s] :
          Cancel(id) /\ cancelling' = [cancelling EXCEPT ![s] = @ \ {id}]
    BY <1>5 DEF CancelOne
  <2>2. \A q \in Requests : req'[q].id = req[q].id
    BY <2>1, Cancelling
  <2>3. UNCHANGED <<nextId, active>> /\ cancelling \in [Sessions -> SUBSET Nat]
    BY <1>5 DEF CancelOne, McpTypes
  <2>4. \A t \in Sessions : cancelling'[t] \subseteq cancelling[t]
    BY <2>1, <2>3
  <2> QED
    BY <2>2, <2>3, <2>4 DEF IdsBelow
<1>6. ASSUME NEW s \in Sessions, NEW p \in ProtocolIds, CancelRequest(s, p) PROVE IdsBelow'
  <2>1. Named(s, p)
    BY <1>6, NamedEffect
  <2>2. \A a \in active : a[3] \in 1 .. nextId - 1
    BY DEF IdsBelow
  <2>3. {a[3] : a \in {x \in active : x[1] = s /\ x[2] = p}} \subseteq 1 .. nextId - 1
    BY <2>2
  <2>4. \A t \in Sessions : cancelling'[t] \subseteq 1 .. nextId - 1
    BY <2>1, <2>3 DEF Named, IdsBelow, McpTypes
  <2> QED
    BY <2>1, <2>4 DEF Named, IdsBelow
<1>7. ASSUME NEW r \in Requests, NEW k \in Kinds, Receive(r, k) PROVE IdsBelow'
  <2>1. Received(r)
    BY <1>7, Effects
  <2> QED
    BY <1>0, <2>1 DEF FieldTypes, manager, catalog, table, calls, IsAt, McpTypes,
       IdsBelow, None, Received, Others, Local
<1>8. ASSUME NEW r \in Requests, Abandon(r) PROVE IdsBelow'
  <2>1. Abandoned(r)
    BY <1>8, Effects
  <2> QED
    BY <1>0, <2>1 DEF FieldTypes, manager, catalog, table, calls, IsAt, McpTypes,
       IdsBelow, None, Abandoned, Others, KeepsCall, KeepsReading
<1>9. ASSUME NEW r \in Requests, HandlerReturns(r) PROVE IdsBelow'
  <2>1. Returned(r)
    BY <1>9, Effects
  <2> QED
    BY <1>0, <2>1 DEF FieldTypes, manager, catalog, table, calls, IsAt, McpTypes,
       IdsBelow, None, Returned, Others, KeepsCall, KeepsReading
<1>10. ASSUME NEW r \in Requests, MutateSettings(r) PROVE IdsBelow'
  BY <1>10, <1>0 DEF FieldTypes, manager, catalog, table, calls, IsAt, McpTypes, IdsBelow,
     None, MutateSettings
<1>11. ASSUME NEW r \in Requests, SetDisabledDomains(r) PROVE IdsBelow'
  BY <1>11, <1>0 DEF FieldTypes, manager, catalog, table, calls, IsAt, McpTypes, IdsBelow,
     None, SetDisabledDomains
<1>12. ASSUME NEW r \in Requests, BumpRevision(r) PROVE IdsBelow'
  BY <1>12, <1>0 DEF FieldTypes, manager, catalog, table, calls, IsAt, McpTypes, IdsBelow,
     None, BumpRevision
<1>13. ASSUME NEW r \in Requests, BeginExecution(r) PROVE IdsBelow'
  <2>1. Began(r)
    BY <1>13, Effects
  <2> QED
    BY <1>0, <2>1, SMTT(40) DEF FieldTypes, manager, catalog, table, calls, IsAt, McpTypes,
       IdsBelow, None, Began, Others, KeepsCall, KeepsAnswer, KeepsReading
<1>14. ASSUME NEW r \in Requests, DropExecution(r) PROVE IdsBelow'
  <2>1. Dropped(r)
    BY <1>14, Effects
  <2> QED
    BY <1>0, <2>1 DEF FieldTypes, manager, catalog, table, calls, IsAt, McpTypes,
       IdsBelow, None, Dropped, Reads, Others, KeepsCall, KeepsAnswer
<1>15. ASSUME NEW r \in Requests, LoadRevision(r) PROVE IdsBelow'
  <2>1. Loaded(r)
    BY <1>15, Effects
  <2> QED
    BY <1>0, <2>1 DEF FieldTypes, manager, catalog, table, calls, IsAt, McpTypes,
       IdsBelow, None, Loaded, Local, Reads, Others, KeepsCall, KeepsAnswer
<1>16. ASSUME NEW r \in Requests, Compare(r) PROVE IdsBelow'
  <2>1. Compared(r)
    BY <1>16, Effects
  <2> QED
    BY <1>0, <2>1 DEF FieldTypes, manager, catalog, table, calls, IsAt, McpTypes,
       IdsBelow, None, Compared, Local, Reads, Others, KeepsCall, KeepsAnswer
<1>17. ASSUME NEW r \in Requests, StartBuild(r) PROVE IdsBelow'
  <2>1. Started(r)
    BY <1>17, Effects
  <2> QED
    BY <1>0, <2>1 DEF FieldTypes, manager, catalog, table, calls, IsAt, McpTypes,
       IdsBelow, None, Started, Local, Reads, Others, KeepsCall, KeepsAnswer
<1>18. ASSUME NEW r \in Requests, ListEnabled(r) PROVE IdsBelow'
  <2>1. Listed(r)
    BY <1>18, Effects
  <2> QED
    BY <1>0, <2>1 DEF FieldTypes, manager, catalog, table, calls, IsAt, McpTypes,
       IdsBelow, None, Listed, Local, Reads, Others, KeepsCall, KeepsAnswer
<1>19. ASSUME NEW r \in Requests, Recheck(r) PROVE IdsBelow'
  <2>1. Rechecked(r)
    BY <1>19, Effects
  <2> QED
    BY <1>0, <2>1 DEF FieldTypes, manager, catalog, table, calls, IsAt, McpTypes,
       IdsBelow, None, Rechecked, Local, Reads, Others, KeepsCall, KeepsAnswer
<1>20. ASSUME NEW r \in Requests, Publish(r) PROVE IdsBelow'
  <2>1. Published(r)
    BY <1>20, Effects
  <2> QED
    BY <1>0, <2>1 DEF FieldTypes, manager, catalog, table, calls, IsAt, McpTypes,
       IdsBelow, None, Published, Reads, Others, KeepsCall, KeepsAnswer
<1>21. ASSUME NEW r \in Requests, Notify(r) PROVE IdsBelow'
  <2>1. Notified(r)
    BY <1>21, Effects
  <2> QED
    BY <1>0, <2>1 DEF FieldTypes, manager, catalog, table, calls, IsAt, McpTypes,
       IdsBelow, None, Notified, Register, Reads, Others, KeepsCall, KeepsAnswer
<1>22. ASSUME NEW r \in Requests, Reply(r) PROVE IdsBelow'
  <2>1. Replied(r)
    BY <1>22, Effects
  <2> QED
    BY <1>0, <2>1 DEF FieldTypes, manager, catalog, table, calls, IsAt, McpTypes,
       IdsBelow, None, Replied, Local, Reads, Others, KeepsCall, KeepsAnswer
<1>23. CASE UNCHANGED mcpVars
  BY <1>23 DEF mcpVars, FieldTypes, manager, catalog, table, calls, IsAt, McpTypes, IdsBelow, None
<1> QED
  BY <1>1, <1>2, <1>3, <1>4, <1>5, <1>6, <1>7, <1>8, <1>9, <1>10, <1>11, <1>12, <1>13,
     <1>14, <1>15, <1>16, <1>17, <1>18, <1>19, <1>20, <1>21, <1>22, <1>23 DEF McpNext,
     Handler, Serve, Refresh, Settled

\* A cancellation copies ids only of calls it names, and a new call has a new id.
LEMMA IdsOwnedStep ==
  ASSUME McpTypes, IdsBelow, IdsOwned, [McpNext]_mcpVars
  PROVE  IdsOwned'
<1> USE RequestsAssumption, MaxRevisionAssumption
<1>0. FieldTypes
  BY Fields
<1>1. ASSUME NEW s \in Sessions, Initialized(s) PROVE IdsOwned'
  <2>1. Carried
    BY <1>1, <1>0 DEF FieldTypes, manager, catalog, table, calls, IsAt, IdsOwned,
       CancelsOnlyNamed, None, Carried, Initialized, Register
  <2> QED
    BY <2>1, CarriedOwned
<1>2. ASSUME NEW s \in Sessions, CloseSession(s) PROVE IdsOwned'
  <2>1. Carried
    BY <1>2, <1>0 DEF FieldTypes, manager, catalog, table, calls, IsAt, IdsOwned,
       CancelsOnlyNamed, None, Carried, CloseSession
  <2> QED
    BY <2>1, CarriedOwned
<1>3. ASSUME NEW s \in Sessions, Delivered(s) PROVE IdsOwned'
  <2>1. Carried
    BY <1>3, <1>0 DEF FieldTypes, manager, catalog, table, calls, IsAt, IdsOwned,
       CancelsOnlyNamed, None, Carried, Delivered
  <2> QED
    BY <2>1, CarriedOwned
<1>4. ASSUME NEW s \in Sessions, Undelivered(s) PROVE IdsOwned'
  <2>1. Carried
    BY <1>4, <1>0 DEF FieldTypes, manager, catalog, table, calls, IsAt, IdsOwned,
       CancelsOnlyNamed, None, Carried, Undelivered, PeerAfterFailure
  <2> QED
    BY <2>1, CarriedOwned
<1>5. ASSUME NEW s \in Sessions, CancelOne(s) PROVE IdsOwned'
  <2>1. PICK id \in cancelling[s] :
          Cancel(id) /\ cancelling' = [cancelling EXCEPT ![s] = @ \ {id}]
    BY <1>5 DEF CancelOne
  <2>2. /\ req' \in [Requests -> Request]
        /\ \A q \in Requests :
             \/ req'[q] = req[q]
             \/ /\ IsAt(q, "execute") /\ req[q].id = id
                /\ KeepsCall(q) /\ KeepsReading(q)
                /\ req'[q].id = req[q].id /\ req'[q].floor = req[q].floor
                /\ req'[q].named = req[q].named
                /\ req'[q].pc = "drop" /\ req'[q].answer = "cancelled"
    BY <2>1, Cancelling
  <2>3. UNCHANGED <<manager, catalog, table, session, nextId, active, handler>>
    BY <1>5 DEF CancelOne
  <2>4. Carried
    BY <1>0, <2>1, <2>2, <2>3 DEF FieldTypes, manager, catalog, table, calls, IsAt,
       McpTypes, IdsOwned, CancelsOnlyNamed, None, Carried, KeepsCall, KeepsReading
  <2> QED
    BY <2>4, CarriedOwned
<1>6. ASSUME NEW s \in Sessions, NEW p \in ProtocolIds, CancelRequest(s, p) PROVE IdsOwned'
  <2>1. \A q \in Requests :
           /\ KeepsCall(q) /\ req'[q].pc = req[q].pc /\ req'[q].id = req[q].id
           /\ req'[q].answer = req[q].answer
           /\ req[q].named \/ (req[q].on = s /\ req[q].proto = p /\ IsAt(q, "execute"))
                => req'[q].named
    BY <1>6, Naming
  <2>2. /\ cancelling' = [cancelling EXCEPT ![s] = {a[3] : a \in {x \in active : x[1] = s /\ x[2] = p}}]
        /\ UNCHANGED active /\ cancelling \in [Sessions -> SUBSET Nat]
    BY <1>6 DEF CancelRequest, McpTypes
  <2>3. ASSUME NEW t \in Sessions, NEW q \in Requests, req'[q].id \in cancelling'[t], req'[q].pc = "execute"
        PROVE  req'[q].named
    <3>1. CASE t = s
      <4>1. PICK a \in active : a[1] = s /\ a[2] = p /\ req[q].id = a[3]
        BY <2>1, <2>2, <2>3, <3>1
      <4>2. req[q].on = s /\ req[q].proto = p /\ IsAt(q, "execute")
        BY <2>1, <2>3, <4>1 DEF IdsOwned, IsAt
      <4> QED
        BY <2>1, <4>2
    <3>2. CASE t # s
      BY <2>1, <2>2, <2>3, <3>2 DEF IdsOwned, IsAt
    <3> QED
      BY <3>1, <3>2
  <2>4. ASSUME NEW a \in active', NEW q \in Requests, req'[q].id = a[3]
        PROVE  req'[q].on = a[1] /\ req'[q].proto = a[2]
    BY <2>1, <2>2, <2>4 DEF IdsOwned, KeepsCall
  <2>5. CancelsOnlyNamed'
    BY <2>1 DEF IdsOwned, CancelsOnlyNamed, IsAt
  <2> QED
    BY <2>3, <2>4, <2>5 DEF IdsOwned, IsAt
<1>7. ASSUME NEW r \in Requests, NEW k \in Kinds, Receive(r, k) PROVE IdsOwned'
  <2>1. /\ Others(r) /\ req'[r].id = 0 /\ req'[r].answer = "none"
        /\ req'[r].pc \in {"load", "begin"} /\ UNCHANGED calls
    BY <1>7, Arrival DEF Receive
  <2>2. ASSUME NEW a \in active', NEW q \in Requests, req'[q].id = a[3]
        PROVE  req'[q].on = a[1] /\ req'[q].proto = a[2]
    BY <2>1, <2>2 DEF Others, IdsBelow, IdsOwned, calls
  <2>3. ASSUME NEW s \in Sessions, NEW q \in Requests, req'[q].id \in cancelling'[s], req'[q].pc = "execute"
        PROVE  req'[q].named
    BY <2>1, <2>3 DEF Others, IdsBelow, IdsOwned, calls, IsAt
  <2>4. CancelsOnlyNamed'
    BY <2>1 DEF Others, IdsOwned, CancelsOnlyNamed, IsAt
  <2> QED
    BY <2>2, <2>3, <2>4 DEF IdsOwned, IsAt
<1>8. ASSUME NEW r \in Requests, Abandon(r) PROVE IdsOwned'
  <2>1. /\ Others(r) /\ KeepsCall(r)
        /\ req'[r].id = req[r].id /\ req'[r].pc = "abandoned"
        /\ req'[r].named = req[r].named
        /\ active' = active \ {<<req[r].on, req[r].proto, req[r].id>>} /\ UNCHANGED cancelling
    BY <1>8, Abandoning DEF Abandon
  <2>2. active' \subseteq active /\ cancelling' = cancelling
    BY <2>1 DEF calls
  <2>3. ASSUME NEW q \in Requests
        PROVE  /\ req'[q].id = req[q].id /\ req'[q].on = req[q].on /\ req'[q].proto = req[q].proto
               /\ req'[q].pc = "execute" => req[q].pc = "execute"
               /\ req[q].named => req'[q].named
               /\ req'[q].answer = "cancelled" => req'[q].named \/ req'[q].pc = "abandoned"
    <3>1. CASE q = r
      BY <2>1, <3>1 DEF Others, KeepsCall, IsAt, IdsOwned, CancelsOnlyNamed
    <3>2. CASE q # r
      BY <2>1, <3>2 DEF Others, KeepsCall, IsAt, IdsOwned, CancelsOnlyNamed
    <3> QED
      BY <3>1, <3>2
  <2> QED
    BY <2>2, <2>3, CarriedOwned DEF Carried
<1>9. ASSUME NEW r \in Requests, HandlerReturns(r) PROVE IdsOwned'
  <2>1. Returned(r)
    BY <1>9, Effects
  <2>2. Carried
    BY <1>0, <2>1 DEF FieldTypes, manager, catalog, table, calls, IsAt, IdsOwned,
       CancelsOnlyNamed, None, Carried, Returned, Others, KeepsCall, KeepsReading
  <2> QED
    BY <2>2, CarriedOwned
<1>10. ASSUME NEW r \in Requests, MutateSettings(r) PROVE IdsOwned'
  <2>1. Carried
    BY <1>10, <1>0 DEF FieldTypes, manager, catalog, table, calls, IsAt, IdsOwned,
       CancelsOnlyNamed, None, Carried, MutateSettings
  <2> QED
    BY <2>1, CarriedOwned
<1>11. ASSUME NEW r \in Requests, SetDisabledDomains(r) PROVE IdsOwned'
  <2>1. Carried
    BY <1>11, <1>0 DEF FieldTypes, manager, catalog, table, calls, IsAt, IdsOwned,
       CancelsOnlyNamed, None, Carried, SetDisabledDomains
  <2> QED
    BY <2>1, CarriedOwned
<1>12. ASSUME NEW r \in Requests, BumpRevision(r) PROVE IdsOwned'
  <2>1. Carried
    BY <1>12, <1>0 DEF FieldTypes, manager, catalog, table, calls, IsAt, IdsOwned,
       CancelsOnlyNamed, None, Carried, BumpRevision
  <2> QED
    BY <2>1, CarriedOwned
<1>13. ASSUME NEW r \in Requests, BeginExecution(r) PROVE IdsOwned'
  <2>1. /\ IsAt(r, "begin") /\ Others(r) /\ KeepsCall(r) /\ KeepsAnswer(r)
        /\ req'[r].pc = "execute" /\ req'[r].id = nextId
    BY <1>13, Beginning DEF BeginExecution
  <2>2. /\ active' = active \cup {<<req[r].on, req[r].proto, nextId>>}
        /\ UNCHANGED cancelling /\ nextId \in Nat
    BY <1>13 DEF BeginExecution, McpTypes
  <2>3. ASSUME NEW a \in active', NEW q \in Requests, req'[q].id = a[3]
        PROVE  req'[q].on = a[1] /\ req'[q].proto = a[2]
    <3>1. CASE a \in active
      <4>1. a[3] # nextId
        BY <2>2, <3>1 DEF IdsBelow
      <4>2. q # r
        BY <2>1, <2>3, <4>1
      <4>3. req'[q] = req[q]
        BY <2>1, <4>2 DEF Others
      <4>4. req[q].id = a[3]
        BY <2>3, <4>3
      <4>5. req[q].on = a[1] /\ req[q].proto = a[2]
        BY <3>1, <4>4 DEF IdsOwned
      <4> QED
        BY <4>3, <4>5
    <3>2. CASE a = <<req[r].on, req[r].proto, nextId>>
      <4>1. a[1] = req[r].on /\ a[2] = req[r].proto /\ a[3] = nextId
        BY <3>2
      <4>2. \A x \in Requests : req[x].id \in Nat /\ req[x].id < nextId
        BY <1>0 DEF IdsBelow, FieldTypes
      <4>3. q = r
        <5>1. SUFFICES ASSUME q # r PROVE FALSE
          OBVIOUS
        <5>2. req'[q] = req[q]
          BY <2>1, <5>1 DEF Others
        <5> QED
          BY <2>2, <2>3, <4>1, <4>2, <5>2
      <4> QED
        BY <2>1, <4>1, <4>3 DEF KeepsCall
    <3> QED
      BY <2>2, <3>1, <3>2
  <2>4. ASSUME NEW s \in Sessions, NEW q \in Requests, req'[q].id \in cancelling'[s], req'[q].pc = "execute"
        PROVE  req'[q].named
    <3>1. nextId \notin cancelling[s]
      BY <2>2 DEF IdsBelow
    <3>2. q # r
      BY <2>1, <2>2, <2>4, <3>1
    <3>3. req'[q] = req[q]
      BY <2>1, <3>2 DEF Others
    <3> QED
      BY <2>2, <2>4, <3>3 DEF IdsOwned, IsAt
  <2>5. CancelsOnlyNamed'
    BY <2>1 DEF Others, KeepsAnswer, IdsOwned, CancelsOnlyNamed, IsAt
  <2> QED
    BY <2>3, <2>4, <2>5 DEF IdsOwned, IsAt
<1>14. ASSUME NEW r \in Requests, DropExecution(r) PROVE IdsOwned'
  BY <1>14, Effects, ReadsOwned DEF Dropped, IsAt, Local, calls
<1>15. ASSUME NEW r \in Requests, LoadRevision(r) PROVE IdsOwned'
  BY <1>15, Effects, ReadsOwned DEF Loaded, IsAt, Local, calls
<1>16. ASSUME NEW r \in Requests, Compare(r) PROVE IdsOwned'
  BY <1>16, Effects, ReadsOwned DEF Compared, IsAt, Local, calls
<1>17. ASSUME NEW r \in Requests, StartBuild(r) PROVE IdsOwned'
  BY <1>17, Effects, ReadsOwned DEF Started, IsAt, Local, calls
<1>18. ASSUME NEW r \in Requests, ListEnabled(r) PROVE IdsOwned'
  BY <1>18, Effects, ReadsOwned DEF Listed, IsAt, Local, calls
<1>19. ASSUME NEW r \in Requests, Recheck(r) PROVE IdsOwned'
  BY <1>19, Effects, ReadsOwned DEF Rechecked, IsAt, Local, calls
<1>20. ASSUME NEW r \in Requests, Publish(r) PROVE IdsOwned'
  BY <1>20, Effects, ReadsOwned DEF Published, IsAt, Local, calls
<1>21. ASSUME NEW r \in Requests, Notify(r) PROVE IdsOwned'
  BY <1>21, Effects, ReadsOwned DEF Notified, IsAt, Local, calls
<1>22. ASSUME NEW r \in Requests, Reply(r) PROVE IdsOwned'
  BY <1>22, Effects, ReadsOwned DEF Replied, IsAt, Local, calls
<1>23. CASE UNCHANGED mcpVars
  BY <1>23 DEF mcpVars, FieldTypes, manager, catalog, table, calls, IsAt, McpTypes, IdsBelow, IdsOwned, CancelsOnlyNamed, None
<1> QED
  BY <1>1, <1>2, <1>3, <1>4, <1>5, <1>6, <1>7, <1>8, <1>9, <1>10, <1>11, <1>12, <1>13,
     <1>14, <1>15, <1>16, <1>17, <1>18, <1>19, <1>20, <1>21, <1>22, <1>23 DEF McpNext,
     Handler, Serve, Refresh, Settled

\* The write lock covers the change of the set and of the revision.
LEMMA LockStep ==
  ASSUME McpTypes, LockInv, [McpNext]_mcpVars
  PROVE  LockInv'
<1> USE RequestsAssumption, MaxRevisionAssumption
<1>0. FieldTypes
  BY Fields
<1>1. ASSUME NEW s \in Sessions, Initialized(s) PROVE LockInv'
  BY <1>1, <1>0 DEF FieldTypes, manager, catalog, table, calls, IsAt, McpTypes, LockInv,
     None, Initialized, Register
<1>2. ASSUME NEW s \in Sessions, CloseSession(s) PROVE LockInv'
  BY <1>2, <1>0 DEF FieldTypes, manager, catalog, table, calls, IsAt, McpTypes, LockInv,
     None, CloseSession
<1>3. ASSUME NEW s \in Sessions, Delivered(s) PROVE LockInv'
  BY <1>3, <1>0 DEF FieldTypes, manager, catalog, table, calls, IsAt, McpTypes, LockInv,
     None, Delivered
<1>4. ASSUME NEW s \in Sessions, Undelivered(s) PROVE LockInv'
  BY <1>4, <1>0 DEF FieldTypes, manager, catalog, table, calls, IsAt, McpTypes, LockInv,
     None, Undelivered, PeerAfterFailure
<1>5. ASSUME NEW s \in Sessions, CancelOne(s) PROVE LockInv'
  <2>1. PICK id \in cancelling[s] :
          Cancel(id) /\ cancelling' = [cancelling EXCEPT ![s] = @ \ {id}]
    BY <1>5 DEF CancelOne
  <2>2. /\ req' \in [Requests -> Request]
        /\ \A q \in Requests :
             \/ req'[q] = req[q]
             \/ /\ IsAt(q, "execute") /\ req[q].id = id
                /\ KeepsCall(q) /\ KeepsReading(q)
                /\ req'[q].id = req[q].id /\ req'[q].floor = req[q].floor
                /\ req'[q].named = req[q].named
                /\ req'[q].pc = "drop" /\ req'[q].answer = "cancelled"
    BY <2>1, Cancelling
  <2>3. UNCHANGED <<manager, catalog, table, session, nextId, active, handler>>
    BY <1>5 DEF CancelOne
  <2> QED
    BY <1>0, <2>1, <2>2, <2>3 DEF FieldTypes, manager, catalog, table, calls, IsAt,
       McpTypes, LockInv, None, KeepsCall, KeepsReading
<1>6. ASSUME NEW s \in Sessions, NEW p \in ProtocolIds, CancelRequest(s, p) PROVE LockInv'
  <2>1. Named(s, p)
    BY <1>6, NamedEffect
  <2> QED
    BY <1>0, <2>1 DEF FieldTypes, manager, catalog, table, calls, IsAt, McpTypes, LockInv,
       None, Named, KeepsCall, KeepsReading
<1>7. ASSUME NEW r \in Requests, NEW k \in Kinds, Receive(r, k) PROVE LockInv'
  <2>1. Received(r)
    BY <1>7, Effects
  <2> QED
    BY <1>0, <2>1 DEF FieldTypes, manager, catalog, table, calls, IsAt, McpTypes, LockInv,
       None, Received, Others, Local
<1>8. ASSUME NEW r \in Requests, Abandon(r) PROVE LockInv'
  <2>1. Abandoned(r)
    BY <1>8, Effects
  <2> QED
    BY <1>0, <2>1 DEF FieldTypes, manager, catalog, table, calls, IsAt, McpTypes, LockInv,
       None, Abandoned, Others, KeepsCall, KeepsReading
<1>9. ASSUME NEW r \in Requests, HandlerReturns(r) PROVE LockInv'
  <2>1. Returned(r)
    BY <1>9, Effects
  <2> QED
    BY <1>0, <2>1 DEF FieldTypes, manager, catalog, table, calls, IsAt, McpTypes, LockInv,
       None, Returned, Others, KeepsCall, KeepsReading
<1>10. ASSUME NEW r \in Requests, MutateSettings(r) PROVE LockInv'
  BY <1>10, <1>0 DEF FieldTypes, manager, catalog, table, calls, IsAt, McpTypes, LockInv,
     None, MutateSettings
<1>11. ASSUME NEW r \in Requests, SetDisabledDomains(r) PROVE LockInv'
  BY <1>11, <1>0 DEF FieldTypes, manager, catalog, table, calls, IsAt, McpTypes, LockInv,
     None, SetDisabledDomains
<1>12. ASSUME NEW r \in Requests, BumpRevision(r) PROVE LockInv'
  BY <1>12, <1>0 DEF FieldTypes, manager, catalog, table, calls, IsAt, McpTypes, LockInv,
     None, BumpRevision
<1>13. ASSUME NEW r \in Requests, BeginExecution(r) PROVE LockInv'
  <2>1. Began(r)
    BY <1>13, Effects
  <2> QED
    BY <1>0, <2>1 DEF FieldTypes, manager, catalog, table, calls, IsAt, McpTypes, LockInv,
       None, Began, Others, KeepsCall, KeepsAnswer, KeepsReading
<1>14. ASSUME NEW r \in Requests, DropExecution(r) PROVE LockInv'
  <2>1. Dropped(r)
    BY <1>14, Effects
  <2> QED
    BY <1>0, <2>1 DEF FieldTypes, manager, catalog, table, calls, IsAt, McpTypes, LockInv,
       None, Dropped, Reads, Others, KeepsCall, KeepsAnswer
<1>15. ASSUME NEW r \in Requests, LoadRevision(r) PROVE LockInv'
  <2>1. Loaded(r)
    BY <1>15, Effects
  <2> QED
    BY <1>0, <2>1 DEF FieldTypes, manager, catalog, table, calls, IsAt, McpTypes, LockInv,
       None, Loaded, Local, Reads, Others, KeepsCall, KeepsAnswer
<1>16. ASSUME NEW r \in Requests, Compare(r) PROVE LockInv'
  <2>1. Compared(r)
    BY <1>16, Effects
  <2> QED
    BY <1>0, <2>1 DEF FieldTypes, manager, catalog, table, calls, IsAt, McpTypes, LockInv,
       None, Compared, Local, Reads, Others, KeepsCall, KeepsAnswer
<1>17. ASSUME NEW r \in Requests, StartBuild(r) PROVE LockInv'
  <2>1. Started(r)
    BY <1>17, Effects
  <2> QED
    BY <1>0, <2>1 DEF FieldTypes, manager, catalog, table, calls, IsAt, McpTypes, LockInv,
       None, Started, Local, Reads, Others, KeepsCall, KeepsAnswer
<1>18. ASSUME NEW r \in Requests, ListEnabled(r) PROVE LockInv'
  <2>1. Listed(r)
    BY <1>18, Effects
  <2> QED
    BY <1>0, <2>1 DEF FieldTypes, manager, catalog, table, calls, IsAt, McpTypes, LockInv,
       None, Listed, Local, Reads, Others, KeepsCall, KeepsAnswer
<1>19. ASSUME NEW r \in Requests, Recheck(r) PROVE LockInv'
  <2>1. Rechecked(r)
    BY <1>19, Effects
  <2> QED
    BY <1>0, <2>1 DEF FieldTypes, manager, catalog, table, calls, IsAt, McpTypes, LockInv,
       None, Rechecked, Local, Reads, Others, KeepsCall, KeepsAnswer
<1>20. ASSUME NEW r \in Requests, Publish(r) PROVE LockInv'
  <2>1. Published(r)
    BY <1>20, Effects
  <2> QED
    BY <1>0, <2>1 DEF FieldTypes, manager, catalog, table, calls, IsAt, McpTypes, LockInv,
       None, Published, Reads, Others, KeepsCall, KeepsAnswer
<1>21. ASSUME NEW r \in Requests, Notify(r) PROVE LockInv'
  <2>1. Notified(r)
    BY <1>21, Effects
  <2> QED
    BY <1>0, <2>1 DEF FieldTypes, manager, catalog, table, calls, IsAt, McpTypes, LockInv,
       None, Notified, Register, Reads, Others, KeepsCall, KeepsAnswer
<1>22. ASSUME NEW r \in Requests, Reply(r) PROVE LockInv'
  <2>1. Replied(r)
    BY <1>22, Effects
  <2> QED
    BY <1>0, <2>1 DEF FieldTypes, manager, catalog, table, calls, IsAt, McpTypes, LockInv,
       None, Replied, Local, Reads, Others, KeepsCall, KeepsAnswer
<1>23. CASE UNCHANGED mcpVars
  BY <1>23 DEF mcpVars, FieldTypes, manager, catalog, table, calls, IsAt, McpTypes, LockInv, None
<1> QED
  BY <1>1, <1>2, <1>3, <1>4, <1>5, <1>6, <1>7, <1>8, <1>9, <1>10, <1>11, <1>12, <1>13,
     <1>14, <1>15, <1>16, <1>17, <1>18, <1>19, <1>20, <1>21, <1>22, <1>23 DEF McpNext,
     Handler, Serve, Refresh, Settled

\* A build overtaken by a change of the revision is made again.
LEMMA BuildStep ==
  ASSUME McpTypes, LockInv, BuildInv, [McpNext]_mcpVars
  PROVE  BuildInv'
<1> USE RequestsAssumption, MaxRevisionAssumption
<1>0. FieldTypes
  BY Fields
<1>1. ASSUME NEW s \in Sessions, Initialized(s) PROVE BuildInv'
  BY <1>1, <1>0 DEF FieldTypes, manager, catalog, table, calls, IsAt, LockInv, BuildInv,
     SnapshotConsistent, None, Initialized, Register
<1>2. ASSUME NEW s \in Sessions, CloseSession(s) PROVE BuildInv'
  BY <1>2, <1>0 DEF FieldTypes, manager, catalog, table, calls, IsAt, LockInv, BuildInv,
     SnapshotConsistent, None, CloseSession
<1>3. ASSUME NEW s \in Sessions, Delivered(s) PROVE BuildInv'
  BY <1>3, <1>0 DEF FieldTypes, manager, catalog, table, calls, IsAt, LockInv, BuildInv,
     SnapshotConsistent, None, Delivered
<1>4. ASSUME NEW s \in Sessions, Undelivered(s) PROVE BuildInv'
  BY <1>4, <1>0 DEF FieldTypes, manager, catalog, table, calls, IsAt, LockInv, BuildInv,
     SnapshotConsistent, None, Undelivered, PeerAfterFailure
<1>5. ASSUME NEW s \in Sessions, CancelOne(s) PROVE BuildInv'
  <2>1. PICK id \in cancelling[s] : Cancel(id)
    BY <1>5 DEF CancelOne
  <2>2. Unread
    BY <1>5, <2>1, Cancelling DEF CancelOne, Unread, KeepsReading, manager, catalog
  <2> QED
    BY <2>2, UnreadBuild
<1>6. ASSUME NEW s \in Sessions, NEW p \in ProtocolIds, CancelRequest(s, p) PROVE BuildInv'
  <2>1. \A q \in Requests : KeepsReading(q) /\ req'[q].pc = req[q].pc
    BY <1>6, Naming
  <2>2. UNCHANGED <<manager, catalog>>
    BY <1>6 DEF CancelRequest
  <2> QED
    BY <2>1, <2>2, UnreadBuild DEF Unread, KeepsReading, manager, catalog
<1>7. ASSUME NEW r \in Requests, NEW k \in Kinds, Receive(r, k) PROVE BuildInv'
  <2>1. Received(r)
    BY <1>7, Effects
  <2> QED
    BY <1>0, <2>1 DEF FieldTypes, manager, catalog, table, calls, IsAt, LockInv, BuildInv,
       SnapshotConsistent, None, Received, Others, Local
<1>8. ASSUME NEW r \in Requests, Abandon(r) PROVE BuildInv'
  <2>1. Others(r) /\ KeepsReading(r) /\ req'[r].pc = "abandoned" /\ UNCHANGED <<manager, catalog>>
    BY <1>8, Abandoning DEF Abandon
  <2> QED
    BY <2>1, UnreadBuild DEF Unread, Others, KeepsReading, manager, catalog
<1>9. ASSUME NEW r \in Requests, HandlerReturns(r) PROVE BuildInv'
  <2>1. /\ req' = req \/ (Others(r) /\ KeepsReading(r) /\ req'[r].pc = "drop")
        /\ UNCHANGED <<revision, was, catalog>>
    BY <1>9, Returning DEF HandlerReturns
  <2> QED
    BY <2>1, UnreadBuild DEF Unread, Others, KeepsReading, catalog
<1>10. ASSUME NEW r \in Requests, MutateSettings(r) PROVE BuildInv'
  BY <1>10, <1>0 DEF FieldTypes, manager, catalog, table, calls, IsAt, LockInv, BuildInv,
     SnapshotConsistent, None, MutateSettings
<1>11. ASSUME NEW r \in Requests, SetDisabledDomains(r) PROVE BuildInv'
  BY <1>11, <1>0 DEF FieldTypes, manager, catalog, table, calls, IsAt, LockInv, BuildInv,
     SnapshotConsistent, None, SetDisabledDomains
<1>12. ASSUME NEW r \in Requests, BumpRevision(r) PROVE BuildInv'
  BY <1>12, <1>0 DEF FieldTypes, manager, catalog, table, calls, IsAt, LockInv, BuildInv,
     SnapshotConsistent, None, BumpRevision
<1>13. ASSUME NEW r \in Requests, BeginExecution(r) PROVE BuildInv'
  <2>1. Began(r)
    BY <1>13, Effects
  <2> QED
    BY <1>0, <2>1 DEF FieldTypes, manager, catalog, table, calls, IsAt, LockInv, BuildInv,
       SnapshotConsistent, None, Began, Others, KeepsCall, KeepsAnswer, KeepsReading
<1>14. ASSUME NEW r \in Requests, DropExecution(r) PROVE BuildInv'
  <2>1. Dropped(r)
    BY <1>14, Effects
  <2> QED
    BY <1>0, <2>1 DEF FieldTypes, manager, catalog, table, calls, IsAt, LockInv, BuildInv,
       SnapshotConsistent, None, Dropped, Reads, Others, KeepsCall, KeepsAnswer
<1>15. ASSUME NEW r \in Requests, LoadRevision(r) PROVE BuildInv'
  <2>1. Loaded(r)
    BY <1>15, Effects
  <2> QED
    BY <1>0, <2>1 DEF FieldTypes, manager, catalog, table, calls, IsAt, LockInv, BuildInv,
       SnapshotConsistent, None, Loaded, Local, Reads, Others, KeepsCall, KeepsAnswer
<1>16. ASSUME NEW r \in Requests, Compare(r) PROVE BuildInv'
  <2>1. Compared(r)
    BY <1>16, Effects
  <2> QED
    BY <1>0, <2>1 DEF FieldTypes, manager, catalog, table, calls, IsAt, LockInv, BuildInv,
       SnapshotConsistent, None, Compared, Local, Reads, Others, KeepsCall, KeepsAnswer
<1>17. ASSUME NEW r \in Requests, StartBuild(r) PROVE BuildInv'
  <2>1. Reads(r, "list", revision, req[r].built) /\ Local
    BY <1>17, Readings
  <2>2. /\ UNCHANGED <<revision, was, snapshot>> /\ revision \in Nat \ {0}
        /\ \A q \in Requests \ {r} : req'[q] = req[q]
        /\ req'[r].pc = "list" /\ req'[r].seen = revision
    BY <2>1 DEF Reads, Others, Local, manager, catalog, McpTypes
  <2>3. ASSUME NEW q \in Requests
        PROVE  /\ req'[q].seen <= revision
               /\ req'[q].pc \in {"list", "recheck", "publish"} => req'[q].seen \in 1 .. revision
               /\ req'[q].pc = "recheck" /\ req'[q].seen = revision => req'[q].built = was[revision]
               /\ req'[q].pc = "publish" => req'[q].built = was[req'[q].seen]
    <3>1. CASE q = r
      BY <2>2, <3>1
    <3>2. CASE q # r
      BY <2>2, <3>2 DEF BuildInv, IsAt
    <3> QED
      BY <3>1, <3>2
  <2> QED
    BY <2>2, <2>3 DEF BuildInv, SnapshotConsistent, IsAt
<1>18. ASSUME NEW r \in Requests, ListEnabled(r) PROVE BuildInv'
  <2>1. Listed(r)
    BY <1>18, Effects
  <2> QED
    BY <1>0, <2>1 DEF FieldTypes, manager, catalog, table, calls, IsAt, LockInv, BuildInv,
       SnapshotConsistent, None, Listed, Local, Reads, Others, KeepsCall, KeepsAnswer
<1>19. ASSUME NEW r \in Requests, Recheck(r) PROVE BuildInv'
  <2>1. Rechecked(r)
    BY <1>19, Effects
  <2> QED
    BY <1>0, <2>1 DEF FieldTypes, manager, catalog, table, calls, IsAt, LockInv, BuildInv,
       SnapshotConsistent, None, Rechecked, Local, Reads, Others, KeepsCall, KeepsAnswer
<1>20. ASSUME NEW r \in Requests, Publish(r) PROVE BuildInv'
  <2>1. Published(r)
    BY <1>20, Effects
  <2> QED
    BY <1>0, <2>1 DEF FieldTypes, manager, catalog, table, calls, IsAt, LockInv, BuildInv,
       SnapshotConsistent, None, Published, Reads, Others, KeepsCall, KeepsAnswer
<1>21. ASSUME NEW r \in Requests, Notify(r) PROVE BuildInv'
  <2>1. Reads(r, "reply", req[r].seen, req[r].built) /\ UNCHANGED <<manager, catalog>>
    BY <1>21, Effects DEF Notified
  <2> QED
    BY <2>1, UnreadBuild DEF Unread, Reads, Others, manager, catalog
<1>22. ASSUME NEW r \in Requests, Reply(r) PROVE BuildInv'
  <2>1. Replied(r)
    BY <1>22, Effects
  <2> QED
    BY <1>0, <2>1 DEF FieldTypes, manager, catalog, table, calls, IsAt, LockInv, BuildInv,
       SnapshotConsistent, None, Replied, Local, Reads, Others, KeepsCall, KeepsAnswer
<1>23. CASE UNCHANGED mcpVars
  BY <1>23 DEF mcpVars, FieldTypes, manager, catalog, table, calls, IsAt, LockInv, BuildInv, SnapshotConsistent, None
<1> QED
  BY <1>1, <1>2, <1>3, <1>4, <1>5, <1>6, <1>7, <1>8, <1>9, <1>10, <1>11, <1>12, <1>13,
     <1>14, <1>15, <1>16, <1>17, <1>18, <1>19, <1>20, <1>21, <1>22, <1>23 DEF McpNext,
     Handler, Serve, Refresh, Settled

\* Neither the revision nor the snapshot goes back.
LEMMA FreshStep ==
  ASSUME McpTypes, BuildInv, FreshInv, [McpNext]_mcpVars
  PROVE  FreshInv'
<1> USE RequestsAssumption, MaxRevisionAssumption
<1>0. FieldTypes
  BY Fields
<1>1. ASSUME NEW s \in Sessions, Initialized(s) PROVE FreshInv'
  BY <1>1, <1>0 DEF FieldTypes, manager, catalog, table, calls, IsAt, BuildInv, FreshInv,
     None, Initialized, Register
<1>2. ASSUME NEW s \in Sessions, CloseSession(s) PROVE FreshInv'
  BY <1>2, <1>0 DEF FieldTypes, manager, catalog, table, calls, IsAt, BuildInv, FreshInv,
     None, CloseSession
<1>3. ASSUME NEW s \in Sessions, Delivered(s) PROVE FreshInv'
  BY <1>3, <1>0 DEF FieldTypes, manager, catalog, table, calls, IsAt, BuildInv, FreshInv,
     None, Delivered
<1>4. ASSUME NEW s \in Sessions, Undelivered(s) PROVE FreshInv'
  BY <1>4, <1>0 DEF FieldTypes, manager, catalog, table, calls, IsAt, BuildInv, FreshInv,
     None, Undelivered, PeerAfterFailure
<1>5. ASSUME NEW s \in Sessions, CancelOne(s) PROVE FreshInv'
  <2>1. PICK id \in cancelling[s] :
          Cancel(id) /\ cancelling' = [cancelling EXCEPT ![s] = @ \ {id}]
    BY <1>5 DEF CancelOne
  <2>2. /\ req' \in [Requests -> Request]
        /\ \A q \in Requests :
             \/ req'[q] = req[q]
             \/ /\ IsAt(q, "execute") /\ req[q].id = id
                /\ KeepsCall(q) /\ KeepsReading(q)
                /\ req'[q].id = req[q].id /\ req'[q].floor = req[q].floor
                /\ req'[q].named = req[q].named
                /\ req'[q].pc = "drop" /\ req'[q].answer = "cancelled"
    BY <2>1, Cancelling
  <2>3. UNCHANGED <<manager, catalog, table, session, nextId, active, handler>>
    BY <1>5 DEF CancelOne
  <2> QED
    BY <1>0, <2>1, <2>2, <2>3 DEF FieldTypes, manager, catalog, table, calls, IsAt,
       BuildInv, FreshInv, None, KeepsCall, KeepsReading
<1>6. ASSUME NEW s \in Sessions, NEW p \in ProtocolIds, CancelRequest(s, p) PROVE FreshInv'
  <2>1. Named(s, p)
    BY <1>6, NamedEffect
  <2> QED
    BY <1>0, <2>1 DEF FieldTypes, manager, catalog, table, calls, IsAt, BuildInv,
       FreshInv, None, Named, KeepsCall, KeepsReading
<1>7. ASSUME NEW r \in Requests, NEW k \in Kinds, Receive(r, k) PROVE FreshInv'
  <2>1. Received(r)
    BY <1>7, Effects
  <2> QED
    BY <1>0, <2>1 DEF FieldTypes, manager, catalog, table, calls, IsAt, BuildInv,
       FreshInv, None, Received, Others, Local
<1>8. ASSUME NEW r \in Requests, Abandon(r) PROVE FreshInv'
  <2>1. Abandoned(r)
    BY <1>8, Effects
  <2> QED
    BY <1>0, <2>1 DEF FieldTypes, manager, catalog, table, calls, IsAt, BuildInv,
       FreshInv, None, Abandoned, Others, KeepsCall, KeepsReading
<1>9. ASSUME NEW r \in Requests, HandlerReturns(r) PROVE FreshInv'
  <2>1. /\ \/ req' = req
           \/ /\ Others(r) /\ req'[r].pc = "drop"
              /\ req'[r].floor \in {req[r].floor, revision}
        /\ UNCHANGED <<revision, catalog>> /\ revision \in Nat
    BY <1>9, Returning DEF HandlerReturns, McpTypes
  <2> QED
    BY <2>1 DEF FreshInv, Others, catalog
<1>10. ASSUME NEW r \in Requests, MutateSettings(r) PROVE FreshInv'
  BY <1>10, <1>0 DEF FieldTypes, manager, catalog, table, calls, IsAt, BuildInv, FreshInv,
     None, MutateSettings
<1>11. ASSUME NEW r \in Requests, SetDisabledDomains(r) PROVE FreshInv'
  BY <1>11, <1>0 DEF FieldTypes, manager, catalog, table, calls, IsAt, BuildInv, FreshInv,
     None, SetDisabledDomains
<1>12. ASSUME NEW r \in Requests, BumpRevision(r) PROVE FreshInv'
  BY <1>12, <1>0 DEF FieldTypes, manager, catalog, table, calls, IsAt, BuildInv, FreshInv,
     None, BumpRevision
<1>13. ASSUME NEW r \in Requests, BeginExecution(r) PROVE FreshInv'
  <2>1. Began(r)
    BY <1>13, Effects
  <2> QED
    BY <1>0, <2>1 DEF FieldTypes, manager, catalog, table, calls, IsAt, BuildInv,
       FreshInv, None, Began, Others, KeepsCall, KeepsAnswer, KeepsReading
<1>14. ASSUME NEW r \in Requests, DropExecution(r) PROVE FreshInv'
  <2>1. Dropped(r)
    BY <1>14, Effects
  <2> QED
    BY <1>0, <2>1 DEF FieldTypes, manager, catalog, table, calls, IsAt, BuildInv,
       FreshInv, None, Dropped, Reads, Others, KeepsCall, KeepsAnswer
<1>15. ASSUME NEW r \in Requests, LoadRevision(r) PROVE FreshInv'
  <2>1. Loaded(r)
    BY <1>15, Effects
  <2> QED
    BY <1>0, <2>1 DEF FieldTypes, manager, catalog, table, calls, IsAt, BuildInv,
       FreshInv, None, Loaded, Local, Reads, Others, KeepsCall, KeepsAnswer
<1>16. ASSUME NEW r \in Requests, Compare(r) PROVE FreshInv'
  <2>1. Compared(r)
    BY <1>16, Effects
  <2> QED
    BY <1>0, <2>1 DEF FieldTypes, manager, catalog, table, calls, IsAt, BuildInv,
       FreshInv, None, Compared, Local, Reads, Others, KeepsCall, KeepsAnswer
<1>17. ASSUME NEW r \in Requests, StartBuild(r) PROVE FreshInv'
  <2>1. Started(r)
    BY <1>17, Effects
  <2> QED
    BY <1>0, <2>1 DEF FieldTypes, manager, catalog, table, calls, IsAt, BuildInv,
       FreshInv, None, Started, Local, Reads, Others, KeepsCall, KeepsAnswer
<1>18. ASSUME NEW r \in Requests, ListEnabled(r) PROVE FreshInv'
  <2>1. Listed(r)
    BY <1>18, Effects
  <2> QED
    BY <1>0, <2>1 DEF FieldTypes, manager, catalog, table, calls, IsAt, BuildInv,
       FreshInv, None, Listed, Local, Reads, Others, KeepsCall, KeepsAnswer
<1>19. ASSUME NEW r \in Requests, Recheck(r) PROVE FreshInv'
  <2>1. Rechecked(r)
    BY <1>19, Effects
  <2> QED
    BY <1>0, <2>1 DEF FieldTypes, manager, catalog, table, calls, IsAt, BuildInv,
       FreshInv, None, Rechecked, Local, Reads, Others, KeepsCall, KeepsAnswer
<1>20. ASSUME NEW r \in Requests, Publish(r) PROVE FreshInv'
  <2>1. Published(r)
    BY <1>20, Effects
  <2>2. /\ revision' = revision /\ snapshot'.revision >= snapshot.revision
        /\ snapshot'.revision >= req[r].seen
        /\ \A q \in Requests \ {r} : req'[q] = req[q]
        /\ req'[r].pc \in {"reply", "notify"} /\ req'[r].floor = req[r].floor
    BY <1>0, <2>1 DEF Published, Reads, Others, FieldTypes, manager
  <2>3. req[r].seen >= req[r].floor
    BY <2>1 DEF Published, FreshInv, IsAt
  <2>4. snapshot'.revision \in Nat
    BY <1>0, <2>1 DEF Published, FieldTypes
  <2> QED
    BY <1>0, <2>2, <2>3, <2>4 DEF FreshInv, FieldTypes
<1>21. ASSUME NEW r \in Requests, Notify(r) PROVE FreshInv'
  <2>1. Notified(r)
    BY <1>21, Effects
  <2> QED
    BY <1>0, <2>1 DEF FieldTypes, manager, catalog, table, calls, IsAt, BuildInv,
       FreshInv, None, Notified, Register, Reads, Others, KeepsCall, KeepsAnswer
<1>22. ASSUME NEW r \in Requests, Reply(r) PROVE FreshInv'
  <2>1. Replied(r)
    BY <1>22, Effects
  <2> QED
    BY <1>0, <2>1 DEF FieldTypes, manager, catalog, table, calls, IsAt, BuildInv,
       FreshInv, None, Replied, Local, Reads, Others, KeepsCall, KeepsAnswer
<1>23. CASE UNCHANGED mcpVars
  BY <1>23 DEF mcpVars, FieldTypes, manager, catalog, table, calls, IsAt, BuildInv, FreshInv, None
<1> QED
  BY <1>1, <1>2, <1>3, <1>4, <1>5, <1>6, <1>7, <1>8, <1>9, <1>10, <1>11, <1>12, <1>13,
     <1>14, <1>15, <1>16, <1>17, <1>18, <1>19, <1>20, <1>21, <1>22, <1>23 DEF McpNext,
     Handler, Serve, Refresh, Settled

\* One handler at a time is between the settings and the revision.
LEMMA BoundStep ==
  ASSUME McpTypes, BuildInv, BoundInv, [McpNext]_mcpVars
  PROVE  BoundInv'
<1> USE RequestsAssumption, MaxRevisionAssumption
<1>0. FieldTypes
  BY Fields
<1>1. ASSUME NEW s \in Sessions, Initialized(s) PROVE BoundInv'
  BY <1>1, <1>0 DEF FieldTypes, manager, catalog, table, calls, IsAt, McpTypes, BuildInv,
     BoundInv, None, Initialized, Register
<1>2. ASSUME NEW s \in Sessions, CloseSession(s) PROVE BoundInv'
  BY <1>2, <1>0 DEF FieldTypes, manager, catalog, table, calls, IsAt, McpTypes, BuildInv,
     BoundInv, None, CloseSession
<1>3. ASSUME NEW s \in Sessions, Delivered(s) PROVE BoundInv'
  BY <1>3, <1>0 DEF FieldTypes, manager, catalog, table, calls, IsAt, McpTypes, BuildInv,
     BoundInv, None, Delivered
<1>4. ASSUME NEW s \in Sessions, Undelivered(s) PROVE BoundInv'
  BY <1>4, <1>0 DEF FieldTypes, manager, catalog, table, calls, IsAt, McpTypes, BuildInv,
     BoundInv, None, Undelivered, PeerAfterFailure
<1>5. ASSUME NEW s \in Sessions, CancelOne(s) PROVE BoundInv'
  <2>1. PICK id \in cancelling[s] :
          Cancel(id) /\ cancelling' = [cancelling EXCEPT ![s] = @ \ {id}]
    BY <1>5 DEF CancelOne
  <2>2. /\ req' \in [Requests -> Request]
        /\ \A q \in Requests :
             \/ req'[q] = req[q]
             \/ /\ IsAt(q, "execute") /\ req[q].id = id
                /\ KeepsCall(q) /\ KeepsReading(q)
                /\ req'[q].id = req[q].id /\ req'[q].floor = req[q].floor
                /\ req'[q].named = req[q].named
                /\ req'[q].pc = "drop" /\ req'[q].answer = "cancelled"
    BY <2>1, Cancelling
  <2>3. UNCHANGED <<manager, catalog, table, session, nextId, active, handler>>
    BY <1>5 DEF CancelOne
  <2> QED
    BY <1>0, <2>1, <2>2, <2>3 DEF FieldTypes, manager, catalog, table, calls, IsAt,
       McpTypes, BuildInv, BoundInv, None, KeepsCall, KeepsReading
<1>6. ASSUME NEW s \in Sessions, NEW p \in ProtocolIds, CancelRequest(s, p) PROVE BoundInv'
  <2>1. Named(s, p)
    BY <1>6, NamedEffect
  <2> QED
    BY <1>0, <2>1 DEF FieldTypes, manager, catalog, table, calls, IsAt, McpTypes,
       BuildInv, BoundInv, None, Named, KeepsCall, KeepsReading
<1>7. ASSUME NEW r \in Requests, NEW k \in Kinds, Receive(r, k) PROVE BoundInv'
  <2>1. Received(r)
    BY <1>7, Effects
  <2> QED
    BY <1>0, <2>1 DEF FieldTypes, manager, catalog, table, calls, IsAt, McpTypes,
       BuildInv, BoundInv, None, Received, Others, Local
<1>8. ASSUME NEW r \in Requests, Abandon(r) PROVE BoundInv'
  <2>1. Abandoned(r)
    BY <1>8, Effects
  <2> QED
    BY <1>0, <2>1 DEF FieldTypes, manager, catalog, table, calls, IsAt, McpTypes,
       BuildInv, BoundInv, None, Abandoned, Others, KeepsCall, KeepsReading
<1>9. ASSUME NEW r \in Requests, HandlerReturns(r) PROVE BoundInv'
  <2>1. Returned(r)
    BY <1>9, Effects
  <2> QED
    BY <1>0, <2>1 DEF FieldTypes, manager, catalog, table, calls, IsAt, McpTypes,
       BuildInv, BoundInv, None, Returned, Others, KeepsCall, KeepsReading
<1>10. ASSUME NEW r \in Requests, MutateSettings(r) PROVE BoundInv'
  BY <1>10, <1>0 DEF FieldTypes, manager, catalog, table, calls, IsAt, McpTypes, BuildInv,
     BoundInv, None, MutateSettings
<1>11. ASSUME NEW r \in Requests, SetDisabledDomains(r) PROVE BoundInv'
  BY <1>11, <1>0 DEF FieldTypes, manager, catalog, table, calls, IsAt, McpTypes, BuildInv,
     BoundInv, None, SetDisabledDomains
<1>12. ASSUME NEW r \in Requests, BumpRevision(r) PROVE BoundInv'
  BY <1>12, <1>0 DEF FieldTypes, manager, catalog, table, calls, IsAt, McpTypes, BuildInv,
     BoundInv, None, BumpRevision
<1>13. ASSUME NEW r \in Requests, BeginExecution(r) PROVE BoundInv'
  <2>1. Began(r)
    BY <1>13, Effects
  <2> QED
    BY <1>0, <2>1 DEF FieldTypes, manager, catalog, table, calls, IsAt, McpTypes,
       BuildInv, BoundInv, None, Began, Others, KeepsCall, KeepsAnswer, KeepsReading
<1>14. ASSUME NEW r \in Requests, DropExecution(r) PROVE BoundInv'
  <2>1. Dropped(r)
    BY <1>14, Effects
  <2> QED
    BY <1>0, <2>1 DEF FieldTypes, manager, catalog, table, calls, IsAt, McpTypes,
       BuildInv, BoundInv, None, Dropped, Reads, Others, KeepsCall, KeepsAnswer
<1>15. ASSUME NEW r \in Requests, LoadRevision(r) PROVE BoundInv'
  <2>1. Loaded(r)
    BY <1>15, Effects
  <2> QED
    BY <1>0, <2>1 DEF FieldTypes, manager, catalog, table, calls, IsAt, McpTypes,
       BuildInv, BoundInv, None, Loaded, Local, Reads, Others, KeepsCall, KeepsAnswer
<1>16. ASSUME NEW r \in Requests, Compare(r) PROVE BoundInv'
  <2>1. Compared(r)
    BY <1>16, Effects
  <2> QED
    BY <1>0, <2>1 DEF FieldTypes, manager, catalog, table, calls, IsAt, McpTypes,
       BuildInv, BoundInv, None, Compared, Local, Reads, Others, KeepsCall, KeepsAnswer
<1>17. ASSUME NEW r \in Requests, StartBuild(r) PROVE BoundInv'
  <2>1. Started(r)
    BY <1>17, Effects
  <2> QED
    BY <1>0, <2>1 DEF FieldTypes, manager, catalog, table, calls, IsAt, McpTypes,
       BuildInv, BoundInv, None, Started, Local, Reads, Others, KeepsCall, KeepsAnswer
<1>18. ASSUME NEW r \in Requests, ListEnabled(r) PROVE BoundInv'
  <2>1. Listed(r)
    BY <1>18, Effects
  <2> QED
    BY <1>0, <2>1 DEF FieldTypes, manager, catalog, table, calls, IsAt, McpTypes,
       BuildInv, BoundInv, None, Listed, Local, Reads, Others, KeepsCall, KeepsAnswer
<1>19. ASSUME NEW r \in Requests, Recheck(r) PROVE BoundInv'
  <2>1. Rechecked(r)
    BY <1>19, Effects
  <2> QED
    BY <1>0, <2>1 DEF FieldTypes, manager, catalog, table, calls, IsAt, McpTypes,
       BuildInv, BoundInv, None, Rechecked, Local, Reads, Others, KeepsCall, KeepsAnswer
<1>20. ASSUME NEW r \in Requests, Publish(r) PROVE BoundInv'
  <2>1. Published(r)
    BY <1>20, Effects
  <2> QED
    BY <1>0, <2>1 DEF FieldTypes, manager, catalog, table, calls, IsAt, McpTypes,
       BuildInv, BoundInv, None, Published, Reads, Others, KeepsCall, KeepsAnswer
<1>21. ASSUME NEW r \in Requests, Notify(r) PROVE BoundInv'
  <2>1. /\ (peers' = peers /\ nextPeer' = nextPeer) \/ Register(req[r].on)
        /\ sent' = sent \cup {<<s, peers'[s]>> : s \in {x \in Sessions : peers'[x] # 0}}
        /\ UNCHANGED <<manager, catalog, session, calls>>
    BY <1>21 DEF Notify
  <2>2. peers' \in [Sessions -> Nat] /\ nextPeer' \in Nat \ {0} /\ nextPeer' >= nextPeer
    BY <2>1 DEF Register, McpTypes
  <2>3. \A s \in Sessions : peers'[s] < nextPeer'
    <3>1. peers \in [Sessions -> Nat] /\ nextPeer \in Nat /\ \A s \in Sessions : peers[s] < nextPeer
      BY DEF McpTypes, BoundInv
    <3>2. CASE peers' = peers /\ nextPeer' = nextPeer
      BY <3>1, <3>2
    <3>3. CASE Register(req[r].on)
      BY <3>1, <3>3 DEF Register
    <3> QED
      BY <2>1, <3>2, <3>3
  <2>4. ASSUME NEW n \in sent' PROVE n[2] \in 1 .. nextPeer' - 1
    <3>1. CASE n \in sent
      BY <2>2, <3>1 DEF BoundInv, McpTypes
    <3>2. CASE n \notin sent
      <4>1. PICK s \in Sessions : peers'[s] # 0 /\ n = <<s, peers'[s]>>
        BY <2>1, <3>2
      <4> QED
        BY <2>2, <2>3, <4>1
    <3> QED
      BY <3>1, <3>2
  <2> QED
    BY <2>1, <2>3, <2>4 DEF BoundInv, manager, catalog, calls
<1>22. ASSUME NEW r \in Requests, Reply(r) PROVE BoundInv'
  <2>1. Replied(r)
    BY <1>22, Effects
  <2> QED
    BY <1>0, <2>1 DEF FieldTypes, manager, catalog, table, calls, IsAt, McpTypes,
       BuildInv, BoundInv, None, Replied, Local, Reads, Others, KeepsCall, KeepsAnswer
<1>23. CASE UNCHANGED mcpVars
  BY <1>23 DEF mcpVars, FieldTypes, manager, catalog, table, calls, IsAt, McpTypes, BuildInv, BoundInv, None
<1> QED
  BY <1>1, <1>2, <1>3, <1>4, <1>5, <1>6, <1>7, <1>8, <1>9, <1>10, <1>11, <1>12, <1>13,
     <1>14, <1>15, <1>16, <1>17, <1>18, <1>19, <1>20, <1>21, <1>22, <1>23 DEF McpNext,
     Handler, Serve, Refresh, Settled

-----------------------------------------------------------------------------
(* Theorems.                                                               *)

\* A server that has just started is in order.
LEMMA McpInvInit == McpInit => McpInv
<1> SUFFICES ASSUME McpInit PROVE McpInv
  OBVIOUS
<1> USE RequestsAssumption, MaxRevisionAssumption DEF McpInit, None
<1>1. McpTypes
  <2>1. NoRequest \in Request
    BY DEF NoRequest, Request, Steps
  <2>2. req \in [Requests -> Request] /\ \A r \in Requests : ~IsAt(r, "begin")
    BY <2>1 DEF IsAt, NoRequest
  <2>3. was \in [1 .. revision -> SUBSET Domains]
    OBVIOUS
  <2> QED
    BY <2>2, <2>3 DEF McpTypes
<1>2. \A r \in Requests : /\ req[r].pc = "unsent" /\ req[r].id = 0 /\ req[r].seen = 0
                          /\ req[r].floor = 0 /\ req[r].answer = "none"
  BY DEF NoRequest
<1>3. IdsBelow /\ IdsOwned
  BY <1>2 DEF IdsBelow, IdsOwned, CancelsOnlyNamed
<1>4. LockInv /\ BuildInv
  BY <1>2 DEF LockInv, BuildInv, SnapshotConsistent, IsAt
<1>5. FreshInv
  BY <1>2 DEF FreshInv
<1>6. BoundInv
  BY DEF BoundInv
<1> QED
  BY <1>1, <1>3, <1>4, <1>5, <1>6 DEF McpInv

\* The invariant is inductive.
LEMMA McpInductive == McpSpec => []McpInv
<1>1. McpInv /\ [McpNext]_mcpVars => McpInv'
  BY TypesStep, IdsBelowStep, IdsOwnedStep, LockStep, BuildStep, FreshStep, BoundStep DEF McpInv
<1> QED
  BY <1>1, McpInvInit, PTL DEF McpSpec

\* Every variable keeps its type: the revision stays in its bound because the
\* settings mutex admits one change at a time, and no more catalogs are
\* published than there were revisions.
THEOREM McpTypeCorrect == McpSpec => []McpTypeOK
<1>1. McpInv => McpTypeOK
  <2> SUFFICES ASSUME McpInv PROVE McpTypeOK
    OBVIOUS
  <2> USE MaxRevisionAssumption DEF McpInv, None
  <2>1. FieldTypes
    BY Fields
  <2>2. /\ {disabled, snapshot.hides, settings.disabled} \subseteq SUBSET Domains
        /\ {writer, settings.by} \subseteq Requests \cup {None}
    BY DEF McpTypes
  <2>3. /\ revision \in 1 .. MaxRevision /\ snapshot.revision \in 1 .. MaxRevision
        /\ generation \in 1 .. MaxRevision
    BY DEF McpTypes, BoundInv, BuildInv
  <2>4. peers \in [Sessions -> 0 .. nextPeer - 1]
    BY DEF McpTypes, BoundInv
  <2>5. sent \subseteq Sessions \X (1 .. nextPeer - 1)
    BY DEF McpTypes, BoundInv
  <2>6. active \subseteq Sessions \X ProtocolIds \X (1 .. nextId - 1)
    BY DEF McpTypes, IdsBelow
  <2> QED
    BY <2>1, <2>2, <2>3, <2>4, <2>5, <2>6 DEF McpTypeOK, McpTypes, FieldTypes
<1> QED
  BY <1>1, McpInductive, PTL

\* A cancellation reaches only the calls its own session named by their
\* protocol id while they ran, whatever ids other sessions and later calls use.
THEOREM CancellationExact == McpSpec => []CancelsOnlyNamed
<1>1. McpInv => CancelsOnlyNamed
  BY DEF McpInv, IdsOwned
<1> QED
  BY <1>1, McpInductive, PTL

\* A peer goes only with its session or with a notification sent to that very
\* registration.
LEMMA PeerStep ==
  ASSUME McpInv, [McpNext]_mcpVars, NEW x \in Sessions, peers[x] # 0, peers'[x] = 0
  PROVE  session'[x] = "closed" \/ <<x, peers[x]>> \in sent
<1> USE DEF McpInv, table
<1>0. peers \in [Sessions -> Nat] /\ nextPeer \in Nat \ {0} /\ session \in [Sessions -> {"new", "open", "closed"}]
  BY DEF McpTypes
<1>1. ASSUME NEW s \in Sessions, Initialized(s) PROVE FALSE
  BY <1>0, <1>1 DEF Initialized, Register
<1>2. ASSUME NEW s \in Sessions, CloseSession(s) PROVE session'[x] = "closed"
  BY <1>0, <1>2 DEF CloseSession
<1>3. ASSUME NEW s \in Sessions, Undelivered(s) PROVE <<x, peers[x]>> \in sent
  <2>1. PICK g : <<s, g>> \in sent /\ peers' = [peers EXCEPT ![s] = PeerAfterFailure(s, g)]
    BY <1>3 DEF Undelivered
  <2>2. x = s /\ PeerAfterFailure(s, g) = 0
    BY <1>0, <2>1
  <2>3. peers[x] = g
    BY <2>2 DEF PeerAfterFailure
  <2> QED
    BY <2>1, <2>2, <2>3
<1>4. ASSUME NEW r \in Requests, Notify(r) PROVE FALSE
  <2>1. (peers' = peers /\ nextPeer' = nextPeer) \/ Register(req[r].on)
    BY <1>4 DEF Notify
  <2> QED
    BY <1>0, <2>1 DEF Register
<1>5. ASSUME UNCHANGED peers PROVE FALSE
  BY <1>5
<1>6. ASSUME NEW s \in Sessions, Delivered(s) \/ CancelOne(s) PROVE FALSE
  BY <1>6 DEF Delivered, CancelOne
<1>7. ASSUME NEW s \in Sessions, NEW p \in ProtocolIds, CancelRequest(s, p) PROVE FALSE
  BY <1>7 DEF CancelRequest
<1>8. ASSUME NEW r \in Requests, NEW k \in Kinds, Receive(r, k) PROVE FALSE
  BY <1>8 DEF Receive
<1>9. ASSUME NEW r \in Requests, Handler(r) \/ Abandon(r) PROVE FALSE
  BY <1>9 DEF Handler, Abandon, HandlerReturns, MutateSettings, SetDisabledDomains, BumpRevision
<1>10. ASSUME NEW r \in Requests, Serve(r), ~Notify(r) PROVE FALSE
  BY <1>10 DEF Serve, Refresh, BeginExecution, DropExecution, LoadRevision, Compare, StartBuild,
     ListEnabled, Recheck, Publish, Reply
<1> QED
  BY <1>1, <1>2, <1>3, <1>4, <1>5, <1>6, <1>7, <1>8, <1>9, <1>10 DEF McpNext, Settled, mcpVars

\* What a session is told of the catalog is one revision of it, none older than
\* the changes it knows of, and a registered session stays registered: whatever
\* requests change, build and publish the catalog at the same time.
THEOREM CatalogTold == McpSpec => CatalogSound
<1>1. McpInv => SnapshotConsistent /\ FreshAnswers
  BY DEF McpInv, BuildInv, FreshInv, FreshAnswers, IsAt
<1>2. McpInv /\ [McpNext]_mcpVars =>
        [\A s \in Sessions : peers[s] # 0 /\ peers'[s] = 0
           => session'[s] = "closed" \/ <<s, peers[s]>> \in sent]_mcpVars
  BY PeerStep
<1> QED
  BY <1>1, <1>2, McpInductive, PTL DEF McpSpec, CatalogSound, PeerKept

==============================================================================
