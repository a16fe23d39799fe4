----------------------------- MODULE StateStore -----------------------------
(* The JSON state files of AIHelper and the two ways in which they are locked.     *)
(*  - "settings" and "tasks": ah_persist::transaction, a mutex per path inside a   *)
(*    process and a sidecar lock file between processes. The lock file outlives    *)
(*    its owner; a waiter removes one that is 300 seconds old.                     *)
(*  - "vault": VaultStore::mutate, an advisory lock that ends with its owner.      *)
(*    Values arrive from `ah secrets` in a terminal or through the browser form of *)
(*    the MCP server, which a one-time capability protects.                        *)
(* A document has Cells: the disabled domains, the saved tasks, or the parts (field *)
(* values and label) of the one secret modelled. Every actor runs one operation    *)
(* and writes its own name.                                                        *)
EXTENDS Naturals, FiniteSets

CONSTANTS Actors,      \* threads that change the store, each once
          Processes, Home,   \* the process of each actor
          Server,      \* the process that serves the browser form
          Cells, Tokens, MaxCapabilities, \* MAX_SETUP_CAPABILITIES
          MaxCrashes

ASSUME StoreAssumption ==
    /\ Home \in [Actors -> Processes]
    /\ Server \in Processes
    /\ Actors \cap {"free", "earlier", "missing", "absent", "old"} = {}
    /\ Cells # {}
    /\ "no_token" \notin Tokens
    /\ MaxCapabilities \in Nat \ {0}
    /\ MaxCrashes \in Nat

Absent == "absent"
Missing == [c \in Cells |-> "missing"]
Free == "free"
Unlocked == [by |-> Free, old |-> FALSE]
Document == [Cells -> Actors \cup {"old", Absent}]
Empty == [c \in Cells |-> Absent]

VARIABLES
    store,     \* which of the stores this is
    file,      \* the document on disk, or Missing
    lock,      \* who created the lock (or Free), and whether 300 seconds passed since
    mutex,     \* per process: the holder of the path mutex or of `submission`
    entries,   \* the capabilities of the server, numbered as they were issued
    issued,    \* tokens drawn so far
    pc, op, base, seen, result,  \* per actor: program counter, operation, copies read, answer
    crashes,
    due,       \* history: the document when every rename applies its operation alone
    stored,    \* history: how many renames each capability led to
    intruded,  \* history: the lock of a running transaction was removed by another
    overtaken  \* history: an edit overstored what changed since it read the secret

lockVars == <<lock, mutex>>
capVars == <<entries, issued>>
history == <<due, stored, intruded, overtaken>>
vars == <<store, file, lock, mutex, entries, issued, pc, op, base, seen, result, crashes,
          due, stored, intruded, overtaken>>

Sidecar == store # "vault"
NoToken == "no_token"
NoOp == [kind |-> "none", cells |-> {}, token |-> NoToken]

(* PluginSettings::{disable_domain, enable_domain, clear_all}; `ah task save`;      *)
(* VaultStore::{initialize, put, remove} and edit (resolve, then replace); and the *)
(* submission of the form for a capability.                                        *)
Ops(kinds, parts, tokens) == [kind : kinds, cells : parts, token : tokens]
SettingsOps == Ops({"disable", "enable"}, {{c} : c \in Cells}, {NoToken})
                    \cup Ops({"clear"}, {Cells}, {NoToken})
TaskOps == Ops({"save"}, {{c} : c \in Cells}, {NoToken})
VaultOps == Ops({"init"}, {{}}, {NoToken}) \cup Ops({"put", "remove"}, {Cells}, {NoToken})
                \cup Ops({"edit"}, SUBSET Cells \ {{}}, {NoToken})
SubmitOps == Ops({"submit"}, {{}}, Tokens)
Submits(a) == op[a].token # NoToken

Operations(a) ==
    CASE store = "settings" -> SettingsOps
      [] store = "tasks" -> TaskOps
      [] OTHER -> IF Home[a] = Server THEN SubmitOps ELSE VaultOps

Known(t) == {e \in entries : e.token = t}
Without(t) == {e \in entries : e.token # t}
Oldest(S) == {e \in S : \A f \in S : e.number <= f.number}

Loaded == IF file = Missing THEN Empty ELSE file
Present(d) == \E c \in Cells : d[c] # Absent

(* What the operation of an actor makes of a document. *)
Written(a, d) == [c \in Cells |-> IF c \in op[a].cells THEN a ELSE d[c]]
Effect(a, d) ==
    CASE op[a].kind \in {"enable", "clear", "remove"} ->
             [c \in Cells |-> IF c \in op[a].cells THEN Absent ELSE d[c]]
      [] op[a].kind = "init" -> d
      [] OTHER -> Written(a, d)

(* The checks made on the loaded document before anything is written: "nothing to  *)
(* do" for the settings, duplicate, not_found and not_initialized for the vault.   *)
Proceeds(a) ==
    LET d == Loaded IN
    CASE op[a].kind = "disable" -> \E c \in op[a].cells : d[c] = Absent
      [] op[a].kind \in {"enable", "clear"} -> \E c \in op[a].cells : d[c] # Absent
      [] op[a].kind = "put" -> file # Missing /\ ~Present(d)
      [] op[a].kind \in {"remove", "edit"} -> file # Missing /\ Present(d)
      [] OTHER -> TRUE

Init ==
    /\ store \in {"settings", "tasks", "vault"}
    /\ file \in {Missing, Empty} \cup {[c \in Cells |-> "old"]}
    /\ lock \in {Unlocked} \cup (IF store = "vault" THEN {} ELSE [by : {"earlier"}, old : BOOLEAN])
    /\ mutex = [p \in Processes |-> Free]
    /\ entries = {} /\ issued = {}
    /\ pc = [a \in Actors |-> "idle"]
    /\ op = [a \in Actors |-> NoOp]
    /\ base = [a \in Actors |-> Empty]
    /\ seen = [a \in Actors |-> Empty]
    /\ result = [a \in Actors |-> "none"]
    /\ crashes = 0
    /\ due = Loaded /\ stored = [t \in Tokens |-> 0] /\ intruded = FALSE /\ overtaken = FALSE

At(a, where) == pc[a] = where
Goto(a, where) == pc' = [pc EXCEPT ![a] = where]
Exit(a, r) == Goto(a, "leave") /\ result' = [result EXCEPT ![a] = r]
HasMutex(a) == mutex[Home[a]] = a

\* The path mutex of a process, or the `submission` mutex of the server.
Locked(a) ==
    /\ mutex[Home[a]] = Free
    /\ mutex' = [mutex EXCEPT ![Home[a]] = a]

\* Up to the point where an operation needs its mutex nothing is shared.
Start(a) ==
    /\ At(a, "idle")
    /\ \E o \in Operations(a) :
         /\ op' = [op EXCEPT ![a] = o]
         /\ IF Sidecar \/ o.kind = "submit" THEN Locked(a) ELSE UNCHANGED mutex
         /\ Goto(a, CASE Sidecar -> "create" [] ~Sidecar /\ o.kind = "submit" -> "inspect"
                      [] ~Sidecar /\ o.kind = "edit" -> "resolve" [] OTHER -> "flock")
    /\ UNCHANGED <<store, file, lock, capVars, base, seen, result, crashes, history>>

-----------------------------------------------------------------------------
(* ah_persist::transaction: after the path mutex, the sidecar. *)

\* create_new succeeds; writing the marker may fail, which removes the file again.
Create(a) ==
    /\ At(a, "create") /\ lock = Unlocked
    /\ lock' = [by |-> a, old |-> FALSE]
    /\ \/ Goto(a, "load") /\ UNCHANGED result
       \/ Exit(a, "io")
    /\ UNCHANGED <<store, file, mutex, capVars, op, base, seen, crashes, history>>

\* AlreadyExists: an old lock file will be removed, a young one is waited for until the
\* deadline. remove_stale_lock looks at the age in this step and removes in the next.
Examine(a) ==
    /\ At(a, "create") /\ lock # Unlocked
    /\ \/ lock.old /\ Goto(a, "break") /\ UNCHANGED result
       \/ ~lock.old /\ Goto(a, "release") /\ result' = [result EXCEPT ![a] = "timeout"]
    /\ UNCHANGED <<store, file, lockVars, capVars, op, base, seen, crashes, history>>

Inside(a) == pc[a] \in {"load", "save", "leave"}

\* fs::remove_file removes whatever lock file is there now; that it fails is ignored. An
\* advisory lock ends with the handle.
Unlock(a) ==
    \/ /\ lock' = Unlocked
       /\ intruded' = (intruded \/ \E b \in Actors \ {a} : Inside(b) /\ lock.by = b)
    \/ Sidecar /\ UNCHANGED <<lock, intruded>>

Break(a) ==
    /\ At(a, "break")
    /\ Unlock(a)
    /\ \/ Goto(a, "create") /\ UNCHANGED result
       \/ Goto(a, "release") /\ result' = [result EXCEPT ![a] = "timeout"]
    /\ UNCHANGED <<store, file, mutex, capVars, op, base, seen, crashes, due, stored, overtaken>>

Age ==
    /\ Sidecar /\ lock # Unlocked /\ ~lock.old
    /\ lock' = [lock EXCEPT !.old = TRUE]
    /\ UNCHANGED <<store, file, mutex, capVars, pc, op, base, seen, result, crashes, history>>

-----------------------------------------------------------------------------
(* The browser form: VaultSetupService::{issue, form, submit}. *)

\* Drops what has expired, evicts the oldest at the limit, and draws a new token. An edit
\* is only offered for a secret that exists.
Issue(t, kind) ==
    /\ store = "vault" /\ t \notin issued
    /\ kind = "edit" => file # Missing /\ Present(file)
    /\ LET kept == {e \in entries : ~e.expired}
           room == IF Cardinality(kept) >= MaxCapabilities THEN kept \ Oldest(kept) ELSE kept
       IN entries' = room \cup {[token |-> t, kind |-> kind, expired |-> FALSE,
                                  number |-> Cardinality(issued)]}
    /\ issued' = issued \cup {t}
    /\ UNCHANGED <<store, file, lockVars, pc, op, base, seen, result, crashes, history>>

\* All capabilities live equally long, so they expire in the order of their issue.
Expire ==
    /\ \E e \in Oldest({f \in entries : ~f.expired}) :
         entries' = (entries \ {e}) \cup {[e EXCEPT !.expired = TRUE]}
    /\ UNCHANGED <<store, file, lockVars, issued, pc, op, base, seen, result, crashes, history>>

\* GET of the form: inspect drops a capability that has expired.
Form(t) ==
    /\ \E e \in Known(t) : e.expired
    /\ entries' = Without(t)
    /\ UNCHANGED <<store, file, lockVars, issued, pc, op, base, seen, result, crashes, history>>

\* inspect, then the checks on the submitted names: an expired capability is dropped, a
\* form for a new secret must be complete.
Inspect(a) ==
    /\ At(a, "inspect")
    /\ LET known == Known(op[a].token)
           usable == {e \in known : ~e.expired}
       IN \/ /\ usable = {}
             /\ entries' = Without(op[a].token)
             /\ Goto(a, "release") /\ result' = [result EXCEPT ![a] = "capability"]
             /\ UNCHANGED op
          \/ /\ \E e \in usable :
                  /\ \E filled \in SUBSET Cells \ {{}} :
                       /\ e.kind = "put" => filled = Cells
                       /\ op' = [op EXCEPT ![a] = [kind |-> e.kind, cells |-> filled,
                                                   token |-> op[a].token]]
                  /\ Goto(a, IF e.kind = "edit" THEN "resolve" ELSE "flock")
             /\ UNCHANGED <<entries, result>>
          \/ /\ usable # {}
             /\ Goto(a, "release") /\ result' = [result EXCEPT ![a] = "invalid"]
             /\ UNCHANGED <<entries, op>>
    /\ UNCHANGED <<store, file, lockVars, issued, base, seen, crashes, history>>

\* finish: the capability is gone once its secret is stored. It fails when a concurrent
\* issue has purged or evicted the capability meanwhile.
Finish(a) ==
    /\ At(a, "finish")
    /\ entries' = Without(op[a].token)
    /\ result' = [result EXCEPT ![a] = IF Known(op[a].token) = {} THEN "capability" ELSE "ok"]
    /\ Goto(a, "release")
    /\ UNCHANGED <<store, file, lockVars, issued, op, base, seen, crashes, history>>

-----------------------------------------------------------------------------
(* VaultStore::mutate and the code under either lock. *)

\* An edit reads the secret before it takes the lock.
Resolve(a) ==
    /\ At(a, "resolve")
    /\ IF file # Missing /\ Present(file)
       THEN base' = [base EXCEPT ![a] = file] /\ Goto(a, "flock") /\ UNCHANGED result
       ELSE /\ Goto(a, "release") /\ result' = [result EXCEPT ![a] = "refused"]
            /\ UNCHANGED base
    /\ UNCHANGED <<store, file, lockVars, capVars, op, seen, crashes, history>>

\* validate, before the lock file is opened.
Invalid(a) ==
    /\ At(a, "flock") /\ op[a].kind \in {"put", "edit"}
    /\ Goto(a, "release") /\ result' = [result EXCEPT ![a] = "invalid"]
    /\ UNCHANGED <<store, file, lockVars, capVars, op, base, seen, crashes, history>>

\* The directory or the lock file cannot be created or opened, or the secret not be read.
OpenFails(a) ==
    /\ pc[a] \in {"create", "resolve", "flock"}
    /\ Goto(a, "release") /\ result' = [result EXCEPT ![a] = "io"]
    /\ UNCHANGED <<store, file, lockVars, capVars, op, base, seen, crashes, history>>

\* Mutant: lock_shared instead of lock_exclusive.
FlockShared(a) ==
    /\ At(a, "flock")
    /\ lock' = [by |-> a, old |-> FALSE]
    /\ Goto(a, "load")
    /\ UNCHANGED <<store, file, mutex, capVars, op, base, seen, result, crashes, history>>

Flock(a) ==
    /\ At(a, "flock") /\ lock = Unlocked
    /\ lock' = [by |-> a, old |-> FALSE]
    /\ Goto(a, "load")
    /\ UNCHANGED <<store, file, mutex, capVars, op, base, seen, result, crashes, history>>

\* The document is read and the operation applied to it; an edit brings the copy it merged
\* into what it had resolved.
Load(a) ==
    /\ At(a, "load")
    /\ IF Proceeds(a)
       THEN /\ seen' = [seen EXCEPT ![a] =
                           Effect(a, IF op[a].kind = "edit" THEN base[a] ELSE Loaded)]
            /\ Goto(a, "save") /\ UNCHANGED result
       ELSE Exit(a, "refused") /\ UNCHANGED seen
    /\ UNCHANGED <<store, file, lockVars, capVars, op, base, crashes, history>>

\* atomic_write: a temporary of its own name, synced, then renamed over the file.
Save(a) ==
    /\ At(a, "save")
    /\ file' = seen[a]
    /\ due' = Effect(a, due)
    /\ stored' = IF Submits(a) THEN [stored EXCEPT ![op[a].token] = @ + 1] ELSE stored
    /\ overtaken' = (overtaken \/ (/\ op[a].kind = "edit"
                                    /\ \E c \in Cells \ op[a].cells : Loaded[c] # base[a][c]))
    /\ Exit(a, "ok")
    /\ UNCHANGED <<store, lockVars, capVars, op, base, seen, crashes, intruded>>

\* Reading, decrypting, writing or renaming fails; the temporary is removed.
Fail(a) ==
    /\ pc[a] \in {"load", "save"}
    /\ Exit(a, "io")
    /\ UNCHANGED <<store, file, lockVars, capVars, op, base, seen, crashes, history>>

\* Mutant: the error of the store is ignored and the form is finished as if it was stored.
LeaveFinished(a) ==
    /\ At(a, "leave")
    /\ Unlock(a)
    /\ Goto(a, IF Submits(a) THEN "finish" ELSE "release")
    /\ UNCHANGED <<store, file, mutex, capVars, op, base, seen, result, crashes, due, stored, overtaken>>

\* The guards are dropped: the sidecar file or the advisory lock, then the mutex.
Leave(a) ==
    /\ At(a, "leave")
    /\ Unlock(a)
    /\ Goto(a, IF Submits(a) /\ result[a] = "ok" THEN "finish" ELSE "release")
    /\ UNCHANGED <<store, file, mutex, capVars, op, base, seen, result, crashes, due, stored, overtaken>>

\* The answer is given; what the thread knew is forgotten.
Release(a) ==
    /\ At(a, "release")
    /\ mutex' = IF HasMutex(a) THEN [mutex EXCEPT ![Home[a]] = Free] ELSE mutex
    /\ Goto(a, "done")
    /\ op' = [op EXCEPT ![a] = NoOp] /\ result' = [result EXCEPT ![a] = "none"]
    /\ base' = [base EXCEPT ![a] = Empty] /\ seen' = [seen EXCEPT ![a] = Empty]
    /\ UNCHANGED <<store, file, lock, capVars, crashes, history>>

\* A process dies: its threads stop, its mutexes and capabilities vanish, an advisory lock
\* is released by the system, a sidecar file stays.
Crash(p) ==
    /\ crashes < MaxCrashes
    /\ LET dying == {a \in Actors : Home[a] = p /\ pc[a] \notin {"idle", "done", "crashed"}}
       IN /\ dying # {}
          /\ pc' = [a \in Actors |-> IF a \in dying THEN "crashed" ELSE pc[a]]
          /\ op' = [a \in Actors |-> IF a \in dying THEN NoOp ELSE op[a]]
          /\ result' = [a \in Actors |-> IF a \in dying THEN "none" ELSE result[a]]
          /\ base' = [a \in Actors |-> IF a \in dying THEN Empty ELSE base[a]]
          /\ seen' = [a \in Actors |-> IF a \in dying THEN Empty ELSE seen[a]]
          /\ lock' = IF ~Sidecar /\ lock.by \in dying THEN Unlocked ELSE lock
    /\ crashes' = crashes + 1
    /\ mutex' = [mutex EXCEPT ![p] = Free]
    /\ entries' = IF p = Server THEN {} ELSE entries
    /\ UNCHANGED <<store, file, issued, history>>

Step(a) ==
    \/ Start(a) \/ Create(a) \/ Examine(a) \/ Break(a)
    \/ Inspect(a) \/ Finish(a) \/ Resolve(a) \/ Invalid(a) \/ OpenFails(a) \/ Flock(a)
    \/ Load(a) \/ Save(a) \/ Fail(a) \/ Leave(a) \/ Release(a)

Ended == \A a \in Actors : pc[a] \in {"done", "crashed"}

Next ==
    \/ \E a \in Actors : Step(a)
    \/ \E t \in Tokens, kind \in {"put", "edit"} : Issue(t, kind)
    \/ \E t \in Tokens : Form(t)
    \/ Expire \/ Age
    \/ \E p \in Processes : Crash(p)
    \/ Ended /\ UNCHANGED vars

StoreSpec == Init /\ [][Next]_vars

-----------------------------------------------------------------------------
(* No rename undoes another: the file is always what its operations make of it one *)
(* after the other, whatever transactions race, crash or fail. There are two ways  *)
(* out of the promise, and no third: a sidecar that counts as stale while its owner *)
(* still works, or that two waiters break at once, and an edit that reads its      *)
(* secret before it takes the lock. The vault's lock is never taken from its owner.*)
NoLostUpdate ==
    /\ intruded \/ overtaken \/ Loaded = due
    /\ store = "vault" => ~intruded
    /\ store # "vault" => ~overtaken

(* A capability stores at most one secret, although the form may be sent twice at  *)
(* once, expire, be evicted or be purged while it is being stored; and a form that *)
(* is answered with success was stored.                                            *)
CapabilityOnce ==
    /\ \A t \in Tokens : stored[t] <= 1
    /\ \A a \in Actors : Submits(a) /\ result[a] = "ok" => stored[op[a].token] = 1
=============================================================================
