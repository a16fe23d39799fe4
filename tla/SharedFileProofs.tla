-------------------------- MODULE SharedFileProofs --------------------------
(***************************************************************************)
(* Proofs about the files that several processes write under a lock: the   *)
(* state files and the vault (StateStore), for any number of threads,      *)
(* processes, cells and capabilities, and the event log (EventLog), for    *)
(* any number of writers, processes and days.                              *)
(***************************************************************************)
EXTENDS StateStore, EventLog, SequenceTheorems, TLAPS

Points == {"idle", "create", "break", "inspect", "resolve", "flock", "load", "save",
           "leave", "finish", "release", "done", "crashed"}
Results == {"none", "ok", "io", "timeout", "capability", "invalid", "refused"}
Kinds == {"none", "disable", "enable", "clear", "save", "init", "put", "remove", "edit",
          "submit"}
Operation == Ops(Kinds, SUBSET Cells, Tokens \cup {NoToken})
Capability == [token : Tokens, kind : {"put", "edit"}, expired : BOOLEAN,
               number : {Cardinality(S) : S \in SUBSET Tokens}]

\* The range of every variable.
TypeOK ==
  /\ store \in {"settings", "tasks", "vault"}
  /\ file \in Document \cup {Missing}
  /\ lock \in [by : Actors \cup {Free, "earlier"}, old : BOOLEAN]
  /\ mutex \in [Processes -> Actors \cup {Free}]
  /\ entries \subseteq Capability
  /\ issued \subseteq Tokens
  /\ pc \in [Actors -> Points]
  /\ op \in [Actors -> Operation]
  /\ base \in [Actors -> Document]
  /\ seen \in [Actors -> Document]
  /\ result \in [Actors -> Results]
  /\ due \in Document
  /\ stored \in [Tokens -> Nat]
  /\ intruded \in BOOLEAN
  /\ overtaken \in BOOLEAN

\* Each store keeps to its own operations and its own kind of lock.
Disciplines ==
  \A a \in Actors :
    /\ Sidecar => /\ pc[a] \notin {"inspect", "resolve", "flock", "finish"}
                  /\ op[a].kind \in {"none", "disable", "enable", "clear", "save"}
                  /\ ~Submits(a)
    /\ ~Sidecar => pc[a] \notin {"create", "break"}

\* A transaction that nobody intruded upon owns the lock.
Exclusive == ~intruded => \A a \in Actors : Inside(a) => lock.by = a

\* What a transaction is about to rename is its effect on the document as it is now.
Current(a) == seen[a] = Effect(a, IF op[a].kind = "edit" THEN base[a] ELSE Loaded)
SeenCurrent == \A a \in Actors : pc[a] = "save" /\ ~intruded => Current(a)

\* A submission holds the mutex of the server from its start to its answer.
HoldsServer(a) ==
  /\ Submits(a) => /\ store = "vault" /\ Home[a] = Server /\ mutex[Server] = a
                   /\ pc[a] \notin {"idle", "done", "crashed"}
  /\ pc[a] = "finish" => Submits(a)
Serialised == \A a \in Actors : HoldsServer(a)

\* Only capabilities that were issued are known, are being stored or have stored.
Storing(a) == Submits(a) /\ pc[a] \in {"resolve", "flock", "load", "save"}
Issued ==
  /\ \A e \in entries : e.token \in issued
  /\ \A a \in Actors : Storing(a) => op[a].token \in issued
  /\ \A t \in Tokens \ issued : stored[t] = 0

\* A capability that stored its secret is gone, or its submission is about to remove it.
Finishing(a, t) == op[a].token = t /\ pc[a] \in {"leave", "finish"} /\ result[a] = "ok"
SpentToken(t) == stored[t] # 0 => Known(t) = {} \/ \E a \in Actors : Finishing(a, t)
Spent == \A t \in Tokens : SpentToken(t)

\* How far a submission has come, what it answers and what its capability stored.
Advanced(a) ==
  /\ Storing(a) => stored[op[a].token] = 0
  /\ result[a] = "ok" => pc[a] \in {"leave", "finish", "release"}
  /\ pc[a] = "finish" => result[a] = "ok"
  /\ Submits(a) /\ result[a] = "ok" => stored[op[a].token] = 1
Progress == \A a \in Actors : Advanced(a)
OnceEach == \A t \in Tokens : stored[t] <= 1

UpdateInv == TypeOK /\ Disciplines /\ Exclusive /\ SeenCurrent /\ NoLostUpdate
FormInv == TypeOK /\ Disciplines /\ Serialised /\ Issued /\ Spent /\ Progress /\ OnceEach

USE StoreAssumption DEF Absent, Free, NoToken

-----------------------------------------------------------------------------
(* What an operation makes of a document *)

\* An operation turns a document into a document, and Loaded is one.
LEMMA EffectType ==
  ASSUME TypeOK, NEW a \in Actors
  PROVE  /\ Loaded \in Document
         /\ \A d \in Document : Effect(a, d) \in Document
<1>1. Loaded \in Document BY DEF TypeOK, Loaded, Empty, Document
<1>2. ASSUME NEW d \in Document PROVE Effect(a, d) \in Document
  BY <1>2 DEF Effect, Written, Document
<1> QED BY <1>1, <1>2

\* No document is the missing one.
LEMMA NotMissing ==
  ASSUME NEW d \in Document
  PROVE  d # Missing
<1>1. PICK c \in Cells : TRUE OBVIOUS
<1>2. d[c] # "missing" BY DEF Document
<1> QED BY <1>1, <1>2 DEF Missing

-----------------------------------------------------------------------------
(* Types *)

LEMMA UnlockTypes ==
  ASSUME TypeOK, NEW a \in Actors, Unlock(a)
  PROVE  lock' \in [by : Actors \cup {Free, "earlier"}, old : BOOLEAN] /\ intruded' \in BOOLEAN
<1>1. CASE lock' = Unlocked /\ intruded' = (intruded \/ \E b \in Actors \ {a} : Inside(b) /\ lock.by = b)
  BY <1>1 DEF TypeOK, Unlocked
<1>2. CASE UNCHANGED <<lock, intruded>>
  BY <1>2 DEF TypeOK
<1> QED BY <1>1, <1>2 DEF Unlock

\* Every step keeps every variable in its range.
LEMMA TypeStep ==
  ASSUME TypeOK, [Next]_vars
  PROVE  TypeOK'
<1> USE DEF TypeOK, vars, history, capVars, lockVars, Goto, At, Points, Results
<1>1. ASSUME NEW a \in Actors, Step(a) PROVE TypeOK'
  <2>1. CASE Start(a)
    <3>1. Operations(a) \subseteq Operation
      BY DEF Operations, SettingsOps, TaskOps, VaultOps, SubmitOps, Operation, Ops, Kinds
    <3> QED BY <2>1, <3>1 DEF Start, Locked
  <2>2. CASE Create(a)
    BY <2>2 DEF Create, Exit
  <2>3. CASE Examine(a)
    BY <2>3 DEF Examine
  <2>4. CASE Break(a)
    <3>1. Unlock(a) BY <2>4 DEF Break
    <3> QED BY <2>4, <3>1, UnlockTypes DEF Break
  <2>5. CASE Inspect(a)
    <3>1. ASSUME NEW e \in Known(op[a].token), NEW filled \in SUBSET Cells
          PROVE  [kind |-> e.kind, cells |-> filled, token |-> op[a].token] \in Operation
      BY DEF Known, Operation, Ops, Kinds, Capability
    <3> QED BY <2>5, <3>1 DEF Inspect, Without
  <2>6. CASE Finish(a)
    BY <2>6 DEF Finish, Without
  <2>7. CASE Resolve(a)
    BY <2>7 DEF Resolve
  <2>8. CASE Invalid(a) \/ OpenFails(a)
    BY <2>8 DEF Invalid, OpenFails
  <2>9. CASE Flock(a)
    BY <2>9 DEF Flock
  <2>10. CASE Load(a)
    BY <2>10, EffectType DEF Load, Exit
  <2>11. CASE Save(a)
    <3>1. op[a].token \in Tokens \cup {NoToken} BY DEF Operation, Ops
    <3> QED BY <2>11, <3>1, EffectType DEF Save, Exit, Submits
  <2>12. CASE Leave(a)
    <3>1. Unlock(a) BY <2>12 DEF Leave
    <3> QED BY <2>12, <3>1, UnlockTypes DEF Leave
  <2>13. CASE Release(a)
    <3>1. NoOp \in Operation /\ Empty \in Document
      BY DEF NoOp, Operation, Ops, Kinds, Empty, Document
    <3> QED BY <2>13, <3>1 DEF Release, HasMutex
  <2>14. CASE Fail(a)
    BY <2>14 DEF Fail, Exit
  <2> HIDE DEF TypeOK
  <2> QED BY <1>1, <2>1, <2>2, <2>3, <2>4, <2>5, <2>6, <2>7, <2>8, <2>9, <2>10, <2>11,
          <2>12, <2>13, <2>14 DEF Step
<1>2. ASSUME NEW t \in Tokens, NEW kind \in {"put", "edit"}, Issue(t, kind) PROVE TypeOK'
  <2>1. [token |-> t, kind |-> kind, expired |-> FALSE, number |-> Cardinality(issued)]
          \in Capability
    BY DEF Capability
  <2> QED BY <1>2, <2>1 DEF Issue
<1>3. ASSUME NEW t \in Tokens, Form(t) PROVE TypeOK'
  BY <1>3 DEF Form, Without
<1>4. ASSUME Expire PROVE TypeOK'
  BY <1>4 DEF Expire, Oldest, Capability
<1>5. ASSUME Age PROVE TypeOK'
  BY <1>5 DEF Age
<1>6. ASSUME NEW p \in Processes, Crash(p) PROVE TypeOK'
  <2>1. NoOp \in Operation /\ Empty \in Document
    BY DEF NoOp, Operation, Ops, Kinds, Empty, Document
  <2> QED BY <1>6, <2>1 DEF Crash, Unlocked
<1>7. CASE UNCHANGED vars BY <1>7
<1> HIDE DEF TypeOK
<1> QED BY <1>1, <1>2, <1>3, <1>4, <1>5, <1>6, <1>7 DEF Next

-----------------------------------------------------------------------------
(* The locks *)

\* Nothing crosses from one store to the other.
LEMMA DisciplineStep ==
  ASSUME TypeOK, Disciplines, [Next]_vars
  PROVE  Disciplines'
<1> USE DEF vars, history, capVars, lockVars, Goto, At, TypeOK, Disciplines, Sidecar,
        Submits
<1>1. ASSUME NEW a \in Actors, Step(a) PROVE Disciplines'
  <2>1. CASE Start(a)
    <3>1. PICK o \in Operations(a) :
            /\ op' = [op EXCEPT ![a] = o]
            /\ pc' = [pc EXCEPT ![a] =
                 CASE Sidecar -> "create" [] ~Sidecar /\ o.kind = "submit" -> "inspect"
                   [] ~Sidecar /\ o.kind = "edit" -> "resolve" [] OTHER -> "flock"]
      BY <2>1 DEF Start
    <3>2. Sidecar => /\ o.kind \in {"disable", "enable", "clear", "save"}
                     /\ o.token = NoToken
      BY DEF Operations, SettingsOps, TaskOps, Ops
    <3> QED BY <2>1, <3>1, <3>2 DEF Start
  <2>2. CASE Create(a)
    BY <2>2 DEF Create, Exit
  <2>3. CASE Examine(a)
    BY <2>3 DEF Examine
  <2>4. CASE Break(a)
    BY <2>4 DEF Break, Unlock
  <2>5. CASE Inspect(a)
    BY <2>5 DEF Inspect
  <2>6. CASE Finish(a)
    BY <2>6 DEF Finish
  <2>7. CASE Resolve(a)
    BY <2>7 DEF Resolve
  <2>8. CASE Load(a)
    BY <2>8 DEF Load, Exit
  <2>9. CASE Save(a)
    BY <2>9 DEF Save, Exit
  <2>10. CASE Leave(a)
    BY <2>10 DEF Leave, Unlock
  <2>11. CASE Release(a)
    BY <2>11 DEF Release, NoOp
  <2>12. CASE Invalid(a) \/ OpenFails(a) \/ Flock(a) \/ Fail(a)
    BY <2>12 DEF Invalid, OpenFails, Flock, Fail, Exit
  <2> HIDE DEF TypeOK, Disciplines
  <2> QED BY <1>1, <2>1, <2>2, <2>3, <2>4, <2>5, <2>6, <2>7, <2>8, <2>9, <2>10, <2>11,
          <2>12 DEF Step
<1>2. ASSUME NEW t \in Tokens, NEW kind \in {"put", "edit"}, Issue(t, kind)
      PROVE Disciplines'
  BY <1>2 DEF Issue
<1>3. ASSUME NEW t \in Tokens, Form(t) PROVE Disciplines'
  BY <1>3 DEF Form
<1>4. ASSUME Expire PROVE Disciplines'
  BY <1>4 DEF Expire
<1>5. ASSUME Age PROVE Disciplines'
  BY <1>5 DEF Age
<1>6. ASSUME NEW p \in Processes, Crash(p) PROVE Disciplines'
  BY <1>6 DEF Crash, NoOp
<1>7. CASE UNCHANGED vars BY <1>7
<1> HIDE DEF TypeOK, Disciplines
<1> QED BY <1>1, <1>2, <1>3, <1>4, <1>5, <1>6, <1>7 DEF Next

\* A transaction loses its lock only by an intrusion.
LEMMA ExclusiveStep ==
  ASSUME TypeOK, Disciplines, Exclusive, [Next]_vars
  PROVE  Exclusive'
<1> USE DEF vars, history, capVars, lockVars, Goto, At, TypeOK, Disciplines, Exclusive,
        Sidecar, Inside
<1>1. ASSUME NEW a \in Actors, Step(a) PROVE Exclusive'
  <2>1. CASE Start(a)
    BY <2>1 DEF Start
  <2>2. CASE Create(a)
    BY <2>2 DEF Create, Exit, Unlocked
  <2>3. CASE Break(a)
    <3>1. \A b \in Actors : Inside(b)' => Inside(b) /\ b # a
      BY <2>3 DEF Break
    <3>2. CASE UNCHANGED <<lock, intruded>>
      BY <3>1, <3>2
    <3>3. CASE intruded' = (intruded \/ \E b \in Actors \ {a} : Inside(b) /\ lock.by = b)
      BY <3>1, <3>3
    <3> QED BY <2>3, <3>2, <3>3 DEF Break, Unlock
  <2>4. CASE Inspect(a)
    BY <2>4 DEF Inspect
  <2>5. CASE Flock(a)
    BY <2>5 DEF Flock, Unlocked
  <2>6. CASE Load(a)
    BY <2>6 DEF Load, Exit
  <2>7. CASE Save(a)
    BY <2>7 DEF Save, Exit
  <2>8. CASE Leave(a)
    BY <2>8 DEF Leave, Unlock, Unlocked
  <2>9. CASE Examine(a) \/ Finish(a) \/ Resolve(a) \/ Invalid(a) \/ OpenFails(a) \/ Fail(a) \/ Release(a)
    BY <2>9 DEF Examine, Finish, Resolve, Invalid, OpenFails, Fail, Exit, Release
  <2> HIDE DEF TypeOK, Disciplines, Exclusive
  <2> QED BY <1>1, <2>1, <2>2, <2>3, <2>4, <2>5, <2>6, <2>7, <2>8, <2>9 DEF Step
<1>2. ASSUME NEW t \in Tokens, NEW kind \in {"put", "edit"}, Issue(t, kind) PROVE Exclusive'
  BY <1>2 DEF Issue
<1>3. ASSUME NEW t \in Tokens, Form(t) PROVE Exclusive'
  BY <1>3 DEF Form
<1>4. ASSUME Expire PROVE Exclusive'
  BY <1>4 DEF Expire
<1>5. ASSUME Age PROVE Exclusive'
  BY <1>5 DEF Age
<1>6. ASSUME NEW p \in Processes, Crash(p) PROVE Exclusive'
  BY <1>6 DEF Crash, Unlocked
<1>7. CASE UNCHANGED vars BY <1>7
<1> HIDE DEF TypeOK, Disciplines, Exclusive
<1> QED BY <1>1, <1>2, <1>3, <1>4, <1>5, <1>6, <1>7 DEF Next

-----------------------------------------------------------------------------
(* Updates *)

\* The effect of an operation depends on the document only outside its cells, unless it
\* is init.
LEMMA EffectLocal ==
  ASSUME NEW a \in Actors, NEW d \in Document, NEW e \in Document,
         op[a].kind # "init", \A c \in Cells \ op[a].cells : d[c] = e[c]
  PROVE  Effect(a, d) = Effect(a, e)
BY DEF Effect, Written

\* Nothing that Current speaks of moves unless the actor does or the file is renamed.
LEMMA CurrentKept ==
  ASSUME SeenCurrent, NEW b \in Actors, pc[b] = "save", ~intruded,
         op'[b] = op[b], base'[b] = base[b], seen'[b] = seen[b], file' = file
  PROVE  Current(b)'
<1>1. Current(b) BY DEF SeenCurrent
<1>2. Effect(b, base[b])' = Effect(b, base[b]) /\ Effect(b, Loaded)' = Effect(b, Loaded)
  BY DEF Effect, Written, Loaded
<1> QED BY <1>1, <1>2 DEF Current

\* While a transaction that nobody intruded upon is about to rename, no other renames.
LEMMA SeenStep ==
  ASSUME TypeOK, Disciplines, Exclusive, SeenCurrent, [Next]_vars
  PROVE  SeenCurrent'
<1> USE DEF vars, history, capVars, lockVars, Goto, At
<1> SUFFICES ASSUME NEW b \in Actors, pc'[b] = "save", ~intruded'
             PROVE  Current(b)'
  BY DEF SeenCurrent
<1>1. ASSUME NEW a \in Actors, Step(a) PROVE Current(b)'
  <2>1. CASE Start(a) BY <2>1, CurrentKept DEF Start, TypeOK
  <2>2. CASE Create(a) BY <2>2, CurrentKept DEF Create, Exit, TypeOK
  <2>3. CASE Examine(a) BY <2>3, CurrentKept DEF Examine, TypeOK
  <2>4. CASE Break(a) BY <2>4, CurrentKept DEF Break, Unlock, TypeOK
  <2>5. CASE Inspect(a) BY <2>5, CurrentKept DEF Inspect, TypeOK
  <2>6. CASE Finish(a) BY <2>6, CurrentKept DEF Finish, TypeOK
  <2>7. CASE Resolve(a) BY <2>7, CurrentKept DEF Resolve, TypeOK
  <2>8. CASE Invalid(a) \/ OpenFails(a) BY <2>8, CurrentKept DEF Invalid, OpenFails, TypeOK
  <2>9. CASE Flock(a) BY <2>9, CurrentKept DEF Flock, TypeOK
  <2>10. CASE Load(a)
    <3>1. CASE a = b
      <4>1. /\ seen'[b] = Effect(b, IF op[b].kind = "edit" THEN base[b] ELSE Loaded)
            /\ op' = op /\ base' = base /\ file' = file
        BY <2>10, <3>1 DEF Load, Exit, TypeOK
      <4>2. Effect(b, base[b])' = Effect(b, base[b]) /\ Effect(b, Loaded)' = Effect(b,
              Loaded)
        BY <4>1 DEF Effect, Written, Loaded
      <4> QED BY <4>1, <4>2 DEF Current
    <3>2. CASE a # b
      BY <2>10, <3>2, CurrentKept DEF Load, Exit, TypeOK
    <3> QED BY <3>1, <3>2
  <2>11. CASE Save(a)
    <3>1. Inside(a) /\ Inside(b) /\ a # b /\ ~intruded
      BY <2>11 DEF Save, Exit, TypeOK, Inside
    <3> QED BY <3>1 DEF Exclusive
  <2>12. CASE Fail(a) BY <2>12, CurrentKept DEF Fail, Exit, TypeOK
  <2>13. CASE Leave(a) BY <2>13, CurrentKept DEF Leave, Unlock, TypeOK
  <2>14. CASE Release(a) BY <2>14, CurrentKept DEF Release, TypeOK
  <2> QED BY <1>1, <2>1, <2>2, <2>3, <2>4, <2>5, <2>6, <2>7, <2>8, <2>9, <2>10, <2>11,
          <2>12, <2>13, <2>14 DEF Step
<1>2. ASSUME NEW t \in Tokens, NEW kind \in {"put", "edit"}, Issue(t, kind)
      PROVE Current(b)'
  BY <1>2, CurrentKept DEF Issue
<1>3. ASSUME NEW t \in Tokens, Form(t) PROVE Current(b)'
  BY <1>3, CurrentKept DEF Form
<1>4. ASSUME Expire PROVE Current(b)'
  BY <1>4, CurrentKept DEF Expire
<1>5. ASSUME Age PROVE Current(b)'
  BY <1>5, CurrentKept DEF Age
<1>6. ASSUME NEW p \in Processes, Crash(p) PROVE Current(b)'
  BY <1>6, CurrentKept DEF Crash
<1>7. CASE UNCHANGED vars BY <1>7, CurrentKept
<1> QED BY <1>1, <1>2, <1>3, <1>4, <1>5, <1>6, <1>7 DEF Next

\* A rename applies its operation to the document as it is, unless the transaction was
\* intruded upon or the edit was overtaken.
LEMMA UpdateStep ==
  ASSUME TypeOK, Disciplines, Exclusive, SeenCurrent, NoLostUpdate, [Next]_vars
  PROVE  NoLostUpdate'
<1> USE DEF vars, history, capVars, lockVars, Goto, At, NoLostUpdate, Loaded
<1>1. ASSUME NEW a \in Actors, Step(a) PROVE NoLostUpdate'
  <2>1. CASE Break(a)
    BY <2>1 DEF Break, Unlock, TypeOK, Disciplines, Sidecar
  <2>2. CASE Save(a)
    <3> HIDE DEF Loaded
    <3>1. Loaded' = seen[a] BY <2>2, NotMissing DEF Save, TypeOK, Loaded
    <3>2. ASSUME ~intruded, ~overtaken' PROVE Loaded' = due'
      <4>1. Loaded = due /\ Current(a) /\ due' = Effect(a, due)
        BY <2>2, <3>2 DEF Save, SeenCurrent, TypeOK
      <4>2. Loaded \in Document /\ base[a] \in Document BY EffectType DEF TypeOK
      <4>3. CASE op[a].kind = "edit"
        <5>1. \A c \in Cells \ op[a].cells : base[a][c] = Loaded[c]
          BY <2>2, <3>2, <4>3 DEF Save
        <5>2. Effect(a, base[a]) = Effect(a, Loaded) BY <4>2, <4>3, <5>1, EffectLocal
        <5> QED BY <3>1, <4>1, <4>3, <5>2 DEF Current
      <4>4. CASE op[a].kind # "edit" BY <3>1, <4>1, <4>4 DEF Current
      <4> QED BY <4>3, <4>4
    <3>3. intruded' = intruded /\ store' = store BY <2>2 DEF Save
    <3>4. store # "vault" => ~overtaken' BY <2>2 DEF Save, Disciplines, Sidecar
    <3> QED BY <3>2, <3>3, <3>4
  <2>3. CASE Leave(a)
    BY <2>3 DEF Leave, Unlock, TypeOK, Exclusive, Inside
  <2>4. CASE Start(a) \/ Create(a) \/ Examine(a) \/ Inspect(a) \/ Finish(a) \/
          Resolve(a) \/ Invalid(a) \/ OpenFails(a) \/ Flock(a) \/ Load(a) \/ Fail(a) \/ Release(a)
    <3>1. UNCHANGED <<store, file, due, intruded, overtaken>>
      BY <2>4 DEF Start, Create, Exit, Examine, Inspect, Finish, Resolve, Invalid, OpenFails, Flock,
              Load, Fail, Release
    <3> QED BY <3>1
  <2> HIDE DEF NoLostUpdate, Loaded
  <2> QED BY <1>1, <2>1, <2>2, <2>3, <2>4 DEF Step
<1>2. ASSUME NEW t \in Tokens, NEW kind \in {"put", "edit"}, Issue(t, kind)
      PROVE NoLostUpdate'
  BY <1>2 DEF Issue
<1>3. ASSUME NEW t \in Tokens, Form(t) PROVE NoLostUpdate'
  BY <1>3 DEF Form
<1>4. ASSUME Expire PROVE NoLostUpdate'
  BY <1>4 DEF Expire
<1>5. ASSUME Age PROVE NoLostUpdate'
  BY <1>5 DEF Age
<1>6. ASSUME NEW p \in Processes, Crash(p) PROVE NoLostUpdate'
  BY <1>6 DEF Crash
<1>7. CASE UNCHANGED vars BY <1>7
<1> HIDE DEF NoLostUpdate, Loaded
<1> QED BY <1>1, <1>2, <1>3, <1>4, <1>5, <1>6, <1>7 DEF Next

\* Initially nothing is locked, known or stored by the actors.
LEMMA InitUpdate ==
  ASSUME Init
  PROVE  UpdateInv
<1> USE DEF Init
<1>1. Loaded \in Document /\ Empty \in Document BY DEF Loaded, Empty, Document
<1>2. TypeOK
  <2>1. file \in Document \cup {Missing} BY <1>1 DEF Document
  <2>2. lock \in [by : Actors \cup {Free, "earlier"}, old : BOOLEAN] 
    <3>1. Unlocked \in [by : Actors \cup {Free, "earlier"}, old : BOOLEAN] BY DEF Unlocked
    <3>2. lock = Unlocked \/ lock \in [by : {"earlier"}, old : BOOLEAN] OBVIOUS
    <3> QED BY <3>1, <3>2
  <2>3. NoOp \in Operation BY DEF NoOp, Operation, Ops, Kinds
  <2> QED BY <1>1, <2>1, <2>2, <2>3 DEF TypeOK, Points, Results
<1>3. Disciplines BY DEF Disciplines, NoOp, Submits
<1>4. Exclusive /\ SeenCurrent BY DEF Exclusive, SeenCurrent, Inside
<1>5. NoLostUpdate BY DEF NoLostUpdate
<1> QED BY <1>2, <1>3, <1>4, <1>5 DEF UpdateInv

(* Whatever transactions race, crash or fail, the state file is what its operations *)
(* make of it one after the other, except for a sidecar removed under its owner and *)
(* an edit overtaken since it read its secret (ah_persist::transaction and          *)
(* VaultStore::mutate).                                                             *)
THEOREM UpdatesKept == StoreSpec => []NoLostUpdate
<1>1. Init => UpdateInv BY InitUpdate
<1>2. UpdateInv /\ [Next]_vars => UpdateInv'
  BY TypeStep, DisciplineStep, ExclusiveStep, SeenStep, UpdateStep DEF UpdateInv
<1>3. UpdateInv => NoLostUpdate BY DEF UpdateInv
<1> QED BY <1>1, <1>2, <1>3, PTL DEF StoreSpec

-----------------------------------------------------------------------------
(* Capabilities *)

\* Only a submission that has locked the mutex of the server carries a capability.
LEMMA StartLocks ==
  ASSUME TypeOK, NEW a \in Actors, Start(a)
  PROVE  /\ pc[a] = "idle" /\ UNCHANGED <<store, entries, issued, result, stored>>
         /\ \A b \in Actors \ {a} : op'[b] = op[b] /\ pc'[b] = pc[b]
         /\ pc'[a] \in {"create", "inspect", "resolve", "flock"}
         /\ Submits(a)' => /\ store = "vault" /\ Home[a] = Server
                           /\ pc'[a] = "inspect" /\ mutex'[Server] = a
         /\ \A p \in Processes : mutex'[p] = mutex[p] \/ mutex[p] = Free
<1>1. PICK o \in Operations(a) :
        /\ op' = [op EXCEPT ![a] = o]
        /\ IF Sidecar \/ o.kind = "submit" THEN Locked(a) ELSE UNCHANGED mutex
        /\ Goto(a, CASE Sidecar -> "create" [] ~Sidecar /\ o.kind = "submit" -> "inspect"
                     [] ~Sidecar /\ o.kind = "edit" -> "resolve" [] OTHER -> "flock")
  BY DEF Start
<1>2. store \in {"settings", "tasks", "vault"} BY DEF TypeOK
<1>3. o.token # NoToken => store = "vault" /\ Home[a] = Server /\ o.kind = "submit"
  BY <1>2 DEF Operations, SettingsOps, TaskOps, VaultOps, SubmitOps, Ops
<1>4. pc[a] = "idle" /\ UNCHANGED <<store, entries, issued, result, stored>>
  BY DEF Start, At, capVars, history
<1> QED BY <1>1, <1>3, <1>4 DEF TypeOK, Locked, Goto, Sidecar, Submits

\* What a form fills in never changes which capability it is sent for.
LEMMA InspectKeepsToken ==
  ASSUME TypeOK, NEW a \in Actors, Inspect(a)
  PROVE  \A b \in Actors : op'[b].token = op[b].token
<1>1. op \in [Actors -> Operation] BY DEF TypeOK
<1>2. \/ op' = op
      \/ \E k, f : op' = [op EXCEPT ![a] = [kind |-> k, cells |-> f, token |-> op[a].token]]
  BY DEF Inspect
<1> QED BY <1>1, <1>2

\* The mutex of the server serialises its submissions.
LEMMA SerialisedStep ==
  ASSUME TypeOK, Serialised, [Next]_vars
  PROVE  Serialised'
<1> USE DEF vars, history, capVars, lockVars, Goto, At
<1> SUFFICES ASSUME NEW b \in Actors PROVE HoldsServer(b)'
  BY DEF Serialised
<1>0. HoldsServer(b) BY DEF Serialised
<1>1. ASSUME NEW a \in Actors, Step(a) PROVE HoldsServer(b)'
  <2>0. HoldsServer(a) BY DEF Serialised
  <2>1. CASE Start(a)
    BY <2>1, <1>0, StartLocks DEF HoldsServer, Submits
  <2>2. CASE Create(a)
    BY <1>0, <2>0, <2>2 DEF Create, Exit, TypeOK, HoldsServer, Submits
  <2>3. CASE Examine(a)
    BY <1>0, <2>0, <2>3 DEF Examine, TypeOK, HoldsServer, Submits
  <2>4. CASE Break(a)
    BY <1>0, <2>0, <2>4 DEF Break, Unlock, TypeOK, HoldsServer, Submits
  <2>5. CASE Inspect(a)
    BY <1>0, <2>0, <2>5, InspectKeepsToken DEF Inspect, TypeOK, HoldsServer, Submits
  <2>6. CASE Finish(a)
    BY <1>0, <2>0, <2>6 DEF Finish, TypeOK, HoldsServer, Submits
  <2>7. CASE Resolve(a)
    BY <1>0, <2>0, <2>7 DEF Resolve, TypeOK, HoldsServer, Submits
  <2>8. CASE Invalid(a) \/ OpenFails(a)
    BY <1>0, <2>0, <2>8 DEF Invalid, OpenFails, TypeOK, HoldsServer, Submits
  <2>9. CASE Flock(a)
    BY <1>0, <2>0, <2>9 DEF Flock, TypeOK, HoldsServer, Submits
  <2>10. CASE Load(a)
    BY <1>0, <2>0, <2>10 DEF Load, Exit, TypeOK, HoldsServer, Submits
  <2>11. CASE Save(a)
    BY <1>0, <2>0, <2>11 DEF Save, Exit, TypeOK, HoldsServer, Submits
  <2>12. CASE Fail(a)
    BY <1>0, <2>0, <2>12 DEF Fail, Exit, TypeOK, HoldsServer, Submits
  <2>13. CASE Leave(a)
    BY <1>0, <2>0, <2>13 DEF Leave, Unlock, TypeOK, HoldsServer, Submits
  <2>14. CASE Release(a)
    BY <1>0, <2>0, <2>14 DEF Release, TypeOK, HoldsServer, Submits, NoOp, HasMutex
  <2> QED BY <1>1, <2>1, <2>2, <2>3, <2>4, <2>5, <2>6, <2>7, <2>8, <2>9, <2>10, <2>11,
          <2>12, <2>13, <2>14 DEF Step
<1>2. ASSUME NEW t \in Tokens, NEW kind \in {"put", "edit"}, Issue(t, kind)
      PROVE HoldsServer(b)'
  BY <1>0, <1>2 DEF Issue, TypeOK, HoldsServer, Submits
<1>3. ASSUME NEW t \in Tokens, Form(t) PROVE HoldsServer(b)'
  BY <1>0, <1>3 DEF Form, TypeOK, HoldsServer, Submits
<1>4. ASSUME Expire PROVE HoldsServer(b)'
  BY <1>0, <1>4 DEF Expire, TypeOK, HoldsServer, Submits
<1>5. ASSUME Age PROVE HoldsServer(b)'
  BY <1>0, <1>5 DEF Age, TypeOK, HoldsServer, Submits
<1>6. ASSUME NEW p \in Processes, Crash(p) PROVE HoldsServer(b)'
  BY <1>0, <1>6 DEF Crash, TypeOK, HoldsServer, Submits, NoOp
<1>7. CASE UNCHANGED vars BY <1>0, <1>7 DEF TypeOK, HoldsServer, Submits
<1> QED BY <1>1, <1>2, <1>3, <1>4, <1>5, <1>6, <1>7 DEF Next

\* A capability is issued before it is known, is being stored and has stored.
LEMMA IssuedStep ==
  ASSUME TypeOK, Disciplines, Issued, [Next]_vars
  PROVE  Issued'
<1> USE DEF vars, history, capVars, lockVars, Goto, At, TypeOK, Issued, Storing, Submits
<1>1. ASSUME NEW a \in Actors, Step(a) PROVE Issued'
  <2>1. CASE Start(a)
    BY <2>1, StartLocks
  <2>2. CASE Create(a)
    BY <2>2 DEF Create, Exit, Disciplines, Sidecar
  <2>3. CASE Examine(a)
    BY <2>3 DEF Examine
  <2>4. CASE Break(a)
    BY <2>4 DEF Break, Unlock
  <2>5. CASE Inspect(a)
    <3>1. \A b \in Actors : op'[b].token = op[b].token BY <2>5, InspectKeepsToken
    <3>2. \A b \in Actors \ {a} : pc'[b] = pc[b] BY <2>5 DEF Inspect
    <3>3. pc'[a] # "release" => \E e \in entries : e.token = op[a].token
      BY <2>5 DEF Inspect, Known
    <3>4. \A e \in entries' : e \in entries BY <2>5 DEF Inspect, Without
    <3>5. UNCHANGED <<issued, stored>> BY <2>5 DEF Inspect
    <3> QED BY <3>1, <3>2, <3>3, <3>4, <3>5
  <2>6. CASE Finish(a)
    BY <2>6 DEF Finish, Without
  <2>7. CASE Resolve(a)
    BY <2>7 DEF Resolve
  <2>8. CASE Invalid(a) \/ OpenFails(a)
    BY <2>8 DEF Invalid, OpenFails
  <2>9. CASE Flock(a)
    BY <2>9 DEF Flock
  <2>10. CASE Load(a)
    BY <2>10 DEF Load, Exit
  <2>11. CASE Save(a)
    <3>1. Submits(a) => op[a].token \in issued BY <2>11 DEF Save
    <3>2. \A t \in Tokens \ issued : stored'[t] = stored[t] BY <2>11, <3>1 DEF Save
    <3> QED BY <2>11, <3>2 DEF Save, Exit
  <2>12. CASE Fail(a)
    BY <2>12 DEF Fail, Exit
  <2>13. CASE Leave(a)
    BY <2>13 DEF Leave, Unlock
  <2>14. CASE Release(a)
    BY <2>14 DEF Release, NoOp
  <2> HIDE DEF TypeOK, Issued
  <2> QED BY <1>1, <2>1, <2>2, <2>3, <2>4, <2>5, <2>6, <2>7, <2>8, <2>9, <2>10, <2>11,
          <2>12, <2>13, <2>14 DEF Step
<1>2. ASSUME NEW t \in Tokens, NEW kind \in {"put", "edit"}, Issue(t, kind) PROVE Issued'
  <2>1. \A e \in entries' : e \in entries \/ e.token = t BY <1>2 DEF Issue
  <2>2. issued' = issued \cup {t} /\ UNCHANGED <<pc, op, stored>> BY <1>2 DEF Issue
  <2> QED BY <2>1, <2>2
<1>3. ASSUME NEW t \in Tokens, Form(t) PROVE Issued'
  BY <1>3 DEF Form, Without
<1>4. ASSUME Expire PROVE Issued'
  BY <1>4 DEF Expire, Oldest, Capability
<1>5. ASSUME Age PROVE Issued'
  BY <1>5 DEF Age
<1>6. ASSUME NEW p \in Processes, Crash(p) PROVE Issued'
  BY <1>6 DEF Crash, NoOp
<1>7. CASE UNCHANGED vars BY <1>7
<1> HIDE DEF TypeOK, Issued
<1> QED BY <1>1, <1>2, <1>3, <1>4, <1>5, <1>6, <1>7 DEF Next

\* Two submissions are never at work at once.
LEMMA OneSubmission ==
  ASSUME Serialised, NEW a \in Actors, NEW b \in Actors, Submits(a), Submits(b)
  PROVE  a = b
BY DEF Serialised, HoldsServer

\* A submission stores once, and answers with success only after it stored.
LEMMA ProgressStep ==
  ASSUME TypeOK, Disciplines, Serialised, Spent, Progress, [Next]_vars
  PROVE  Progress'
<1> USE DEF vars, history, capVars, lockVars, Goto, At
<1> SUFFICES ASSUME NEW b \in Actors PROVE Advanced(b)'
  BY DEF Progress
<1>0. Advanced(b) BY DEF Progress
<1>1. ASSUME NEW a \in Actors, Step(a) PROVE Advanced(b)'
  <2>0. Advanced(a) BY DEF Progress
  <2>1. CASE Start(a)
    BY <2>1, <1>0, StartLocks DEF Advanced, Storing, Submits
  <2>2. CASE Create(a)
    BY <1>0, <2>0, <2>2 DEF Create, Exit, TypeOK, Advanced, Storing, Submits, Disciplines,
            Sidecar
  <2>3. CASE Examine(a)
    BY <1>0, <2>0, <2>3 DEF Examine, TypeOK, Advanced, Storing, Submits
  <2>4. CASE Break(a)
    BY <1>0, <2>0, <2>4 DEF Break, Unlock, TypeOK, Advanced, Storing, Submits
  <2>5. CASE Inspect(a)
    <3>1. op'[b].token = op[b].token BY <2>5, InspectKeepsToken
    <3>2. stored' = stored /\ pc[a] = "inspect" BY <2>5 DEF Inspect
    <3>3. CASE b # a
      <4>1. pc'[b] = pc[b] /\ result'[b] = result[b] BY <2>5, <3>3 DEF Inspect, TypeOK
      <4> QED BY <1>0, <3>1, <3>2, <4>1 DEF Advanced, Storing, Submits
    <3>4. CASE b = a
      <4>1. /\ pc'[a] \in {"release", "resolve", "flock"}
            /\ result'[a] # "ok"
            /\ pc'[a] # "release" => Known(op[a].token) # {}
        BY <2>5, <2>0 DEF Inspect, TypeOK, Advanced
      <4>2. ASSUME Submits(a), Known(op[a].token) # {} PROVE stored[op[a].token] = 0
        <5>1. op[a].token \in Tokens BY <4>2 DEF TypeOK, Operation, Ops, Submits
        <5>2. ASSUME NEW c \in Actors, Finishing(c, op[a].token) PROVE FALSE
          BY <3>2, <4>2, <5>1, <5>2, OneSubmission DEF Finishing, Submits
        <5> QED BY <4>2, <5>1, <5>2 DEF Spent, SpentToken
      <4> QED BY <3>1, <3>2, <3>4, <4>1, <4>2 DEF Advanced, Storing, Submits
    <3> QED BY <3>3, <3>4
  <2>6. CASE Finish(a)
    BY <1>0, <2>0, <2>6 DEF Finish, TypeOK, Advanced, Storing, Submits
  <2>7. CASE Resolve(a)
    BY <1>0, <2>0, <2>7 DEF Resolve, TypeOK, Advanced, Storing, Submits
  <2>8. CASE Invalid(a) \/ OpenFails(a)
    BY <1>0, <2>0, <2>8 DEF Invalid, OpenFails, TypeOK, Advanced, Storing, Submits
  <2>9. CASE Flock(a)
    BY <1>0, <2>0, <2>9 DEF Flock, TypeOK, Advanced, Storing, Submits
  <2>10. CASE Load(a)
    BY <1>0, <2>0, <2>10 DEF Load, Exit, TypeOK, Advanced, Storing, Submits
  <2>11. CASE Save(a)
    <3>1. op' = op /\ pc[a] = "save" /\ pc'[a] = "leave" /\ result'[a] = "ok"
      BY <2>11 DEF Save, Exit, TypeOK
    <3>2. CASE b # a
      <4>1. pc'[b] = pc[b] /\ result'[b] = result[b] BY <2>11, <3>2 DEF Save, Exit, TypeOK
      <4>2. Submits(b) => stored'[op[b].token] = stored[op[b].token]
        BY <2>11, <3>2, OneSubmission DEF Save
      <4> QED BY <1>0, <3>1, <4>1, <4>2 DEF Advanced, Storing, Submits
    <3>3. CASE b = a
      <4>1. ASSUME Submits(a) PROVE stored'[op[a].token] = 1
        <5>1. op[a].token \in Tokens BY <4>1 DEF TypeOK, Operation, Ops, Submits
        <5>2. stored[op[a].token] = 0 BY <2>0, <3>1, <4>1 DEF Advanced, Storing
        <5> QED BY <2>11, <4>1, <5>1, <5>2 DEF Save, TypeOK
      <4> QED BY <3>1, <3>3, <4>1 DEF Advanced, Storing, Submits
    <3> QED BY <3>2, <3>3
  <2>12. CASE Fail(a)
    BY <1>0, <2>0, <2>12 DEF Fail, Exit, TypeOK, Advanced, Storing, Submits
  <2>13. CASE Leave(a)
    BY <1>0, <2>0, <2>13 DEF Leave, Unlock, TypeOK, Advanced, Storing, Submits
  <2>14. CASE Release(a)
    BY <1>0, <2>0, <2>14 DEF Release, TypeOK, Advanced, Storing, Submits, NoOp
  <2> QED BY <1>1, <2>1, <2>2, <2>3, <2>4, <2>5, <2>6, <2>7, <2>8, <2>9, <2>10, <2>11,
          <2>12, <2>13, <2>14 DEF Step
<1>2. ASSUME NEW t \in Tokens, NEW kind \in {"put", "edit"}, Issue(t, kind)
      PROVE Advanced(b)'
  BY <1>0, <1>2 DEF Issue, TypeOK, Advanced, Storing, Submits
<1>3. ASSUME NEW t \in Tokens, Form(t) PROVE Advanced(b)'
  BY <1>0, <1>3 DEF Form, TypeOK, Advanced, Storing, Submits
<1>4. ASSUME Expire PROVE Advanced(b)'
  BY <1>0, <1>4 DEF Expire, TypeOK, Advanced, Storing, Submits
<1>5. ASSUME Age PROVE Advanced(b)'
  BY <1>0, <1>5 DEF Age, TypeOK, Advanced, Storing, Submits
<1>6. ASSUME NEW p \in Processes, Crash(p) PROVE Advanced(b)'
  BY <1>0, <1>6 DEF Crash, TypeOK, Advanced, Storing, Submits, NoOp
<1>7. CASE UNCHANGED vars BY <1>0, <1>7 DEF TypeOK, Advanced, Storing, Submits
<1> QED BY <1>1, <1>2, <1>3, <1>4, <1>5, <1>6, <1>7 DEF Next

\* A capability that stored stays gone, or the submission that stored it removes it.
LEMMA SpentStep ==
  ASSUME TypeOK, Serialised, Issued, Spent, Progress, [Next]_vars
  PROVE  Spent'
<1> USE DEF vars, history, capVars, lockVars, Goto, At
<1> SUFFICES ASSUME NEW u \in Tokens, stored'[u] # 0
             PROVE  Known(u)' = {} \/ \E b \in Actors : Finishing(b, u)'
  BY DEF Spent, SpentToken
<1>0. SpentToken(u) BY DEF Spent
<1>1. ASSUME NEW a \in Actors, Step(a)
      PROVE  Known(u)' = {} \/ \E b \in Actors : Finishing(b, u)'
  <2>1. CASE Inspect(a)
    <3>1. Known(u)' \subseteq Known(u) BY <2>1 DEF Inspect, Known, Without
    <3>2. stored' = stored /\ \A b \in Actors : Finishing(b, u) => Finishing(b, u)'
      BY <2>1, InspectKeepsToken DEF Inspect, Finishing, TypeOK
    <3> QED BY <1>0, <3>1, <3>2 DEF SpentToken
  <2>2. CASE Finish(a)
    <3>1. CASE op[a].token = u BY <2>2, <3>1 DEF Finish, Known, Without
    <3>2. CASE op[a].token # u
      <4>1. Known(u)' \subseteq Known(u) BY <2>2 DEF Finish, Known, Without
      <4>2. stored' = stored /\ \A b \in Actors : Finishing(b, u) => Finishing(b, u)'
        BY <2>2, <3>2 DEF Finish, Finishing, TypeOK
      <4> QED BY <1>0, <4>1, <4>2 DEF SpentToken
    <3> QED BY <3>1, <3>2
  <2>3. CASE Save(a)
    <3>1. CASE Submits(a) /\ op[a].token = u
      <4>1. Finishing(a, u)' BY <2>3, <3>1 DEF Save, Exit, Finishing, TypeOK
      <4> QED BY <4>1
    <3>2. CASE ~(Submits(a) /\ op[a].token = u)
      <4>1. stored'[u] = stored[u] BY <2>3, <3>2 DEF Save, TypeOK
      <4>2. Known(u)' = Known(u) BY <2>3 DEF Save, Known
      <4>3. \A b \in Actors : Finishing(b, u) => Finishing(b, u)'
        BY <2>3 DEF Save, Exit, Finishing, TypeOK
      <4> QED BY <1>0, <4>1, <4>2, <4>3 DEF SpentToken
    <3> QED BY <3>1, <3>2
  <2>4. CASE Start(a) \/ Create(a) \/ Examine(a) \/ Break(a)
    <3>1. Known(u)' = Known(u) /\ stored' = stored
      BY <2>4 DEF Start, Create, Exit, Examine, Break, Unlock, Known
    <3>2. \A b \in Actors : Finishing(b, u) => Finishing(b, u)'
      BY <2>4 DEF Start, Create, Exit, Examine, Break, Unlock, Finishing, TypeOK, Submits
    <3> QED BY <1>0, <3>1, <3>2 DEF SpentToken
  <2>5. CASE Resolve(a) \/ Invalid(a) \/ OpenFails(a) \/ Flock(a) \/ Load(a)
    <3>1. Known(u)' = Known(u) /\ stored' = stored
      BY <2>5 DEF Resolve, Invalid, OpenFails, Flock, Load, Exit, Known
    <3>2. \A b \in Actors : Finishing(b, u) => Finishing(b, u)'
      BY <2>5 DEF Resolve, Invalid, OpenFails, Flock, Load, Exit, Finishing, TypeOK, Submits
    <3> QED BY <1>0, <3>1, <3>2 DEF SpentToken
  <2>6. CASE Fail(a) \/ Leave(a) \/ Release(a)
    <3>1. Known(u)' = Known(u) /\ stored' = stored
      BY <2>6 DEF Fail, Exit, Leave, Unlock, Release, Known
    <3>2. \A b \in Actors : Finishing(b, u) => Finishing(b, u)'
      BY <2>6 DEF Fail, Exit, Leave, Unlock, Release, Finishing, TypeOK, Submits
    <3> QED BY <1>0, <3>1, <3>2 DEF SpentToken
  <2> QED BY <1>1, <2>1, <2>2, <2>3, <2>4, <2>5, <2>6 DEF Step
<1>2. ASSUME NEW t \in Tokens, NEW kind \in {"put", "edit"}, Issue(t, kind)
      PROVE  Known(u)' = {} \/ \E b \in Actors : Finishing(b, u)'
  <2>1. stored' = stored /\ \A b \in Actors : Finishing(b, u) => Finishing(b, u)'
    BY <1>2 DEF Issue, Finishing
  <2>2. u # t BY <1>2, <2>1 DEF Issue, Issued
  <2>3. entries' \subseteq entries \cup {[token |-> t, kind |-> kind, expired |-> FALSE,
                                          number |-> Cardinality(issued)]}
    BY <1>2 DEF Issue
  <2>4. Known(u)' \subseteq Known(u) BY <2>2, <2>3 DEF Known
  <2> QED BY <1>0, <2>1, <2>4 DEF SpentToken
<1>3. ASSUME NEW t \in Tokens, Form(t)
      PROVE  Known(u)' = {} \/ \E b \in Actors : Finishing(b, u)'
  <2>1. stored' = stored /\ \A b \in Actors : Finishing(b, u) => Finishing(b, u)'
    BY <1>3 DEF Form, Finishing
  <2>2. Known(u)' \subseteq Known(u) BY <1>3 DEF Form, Known, Without
  <2> QED BY <1>0, <2>1, <2>2 DEF SpentToken
<1>4. ASSUME Expire
      PROVE  Known(u)' = {} \/ \E b \in Actors : Finishing(b, u)'
  <2>1. stored' = stored /\ \A b \in Actors : Finishing(b, u) => Finishing(b, u)'
    BY <1>4 DEF Expire, Finishing
  <2>2. PICK e \in entries : entries' = (entries \ {e}) \cup {[e EXCEPT !.expired = TRUE]}
    BY <1>4 DEF Expire, Oldest
  <2>3. [e EXCEPT !.expired = TRUE].token = e.token BY DEF TypeOK, Capability
  <2>4. Known(u) = {} => Known(u)' = {} BY <2>2, <2>3 DEF Known
  <2> QED BY <1>0, <2>1, <2>4 DEF SpentToken
<1>5. ASSUME Age
      PROVE  Known(u)' = {} \/ \E b \in Actors : Finishing(b, u)'
  BY <1>0, <1>5 DEF Age, SpentToken, Finishing, Known
<1>6. ASSUME NEW p \in Processes, Crash(p)
      PROVE  Known(u)' = {} \/ \E b \in Actors : Finishing(b, u)'
  <2>1. CASE p = Server BY <1>6, <2>1 DEF Crash, Known
  <2>2. CASE p # Server
    <3>1. stored' = stored /\ Known(u)' = Known(u) BY <1>6, <2>2 DEF Crash, Known
    <3>2. ASSUME NEW b \in Actors, Finishing(b, u) PROVE Finishing(b, u)'
      <4>1. Home[b] = Server BY <3>2 DEF Finishing, Serialised, HoldsServer, Submits
      <4> QED BY <1>6, <2>2, <3>2, <4>1 DEF Crash, Finishing
    <3> QED BY <1>0, <3>1, <3>2 DEF SpentToken
  <2> QED BY <2>1, <2>2
<1>7. CASE UNCHANGED vars BY <1>0, <1>7 DEF SpentToken, Finishing, Known
<1> QED BY <1>1, <1>2, <1>3, <1>4, <1>5, <1>6, <1>7 DEF Next

\* Only a submission whose capability stored nothing stores.
LEMMA OnceStep ==
  ASSUME TypeOK, Progress, OnceEach, [Next]_vars
  PROVE  OnceEach'
<1> USE DEF vars, history
<1>1. CASE stored' = stored BY <1>1 DEF OnceEach
<1>2. ASSUME NEW a \in Actors, Save(a) PROVE OnceEach'
  <2>1. CASE ~Submits(a) BY <1>2, <2>1 DEF Save, OnceEach
  <2>2. CASE Submits(a)
    <3>1. op[a].token \in Tokens BY <2>2 DEF TypeOK, Operation, Ops, Submits
    <3>2. stored[op[a].token] = 0
      BY <1>2, <2>2 DEF Save, At, Progress, Advanced, Storing
    <3> QED BY <1>2, <2>2, <3>1, <3>2 DEF Save, OnceEach, TypeOK
  <2> QED BY <2>1, <2>2
<1> QED
  BY <1>1, <1>2 DEF Next, Step, Start, Create, Examine, Break, Inspect, Finish, Resolve,
     Invalid, OpenFails, Flock, Load, Fail, Leave, Release, Issue, Form, Expire, Age, Crash

(* A capability of the browser form stores at most one secret, and a form that was   *)
(* answered with success was stored (VaultSetupService::submit and finish).          *)
THEOREM CapabilityStoresOnce == StoreSpec => []CapabilityOnce
<1>1. Init => FormInv
  <2> SUFFICES ASSUME Init PROVE FormInv OBVIOUS
  <2>1. TypeOK /\ Disciplines BY InitUpdate DEF UpdateInv
  <2>2. Serialised BY DEF Init, Serialised, HoldsServer, Submits, NoOp
  <2>3. Issued /\ Spent
    BY DEF Init, Issued, Storing, Submits, Spent, SpentToken, NoOp
  <2>4. Progress /\ OnceEach
    BY DEF Init, Progress, Advanced, Storing, Submits, NoOp, OnceEach
  <2> QED BY <2>1, <2>2, <2>3, <2>4 DEF FormInv
<1>2. FormInv /\ [Next]_vars => FormInv'
  BY TypeStep, DisciplineStep, SerialisedStep, IssuedStep, SpentStep, ProgressStep, OnceStep
     DEF FormInv
<1>3. FormInv => CapabilityOnce
  BY DEF FormInv, OnceEach, Progress, Advanced, CapabilityOnce
<1> QED BY <1>1, <1>2, <1>3, PTL DEF StoreSpec

-----------------------------------------------------------------------------
(* The event log.  Whoever is between the open file and the newline of its  *)
(* line holds the lock of the file that is still the log of its day, and    *)
(* what is removed is older than what is kept.                              *)

LogPoints ==
    {"idle", "clean", "sweep", "open", "lock", "line", "newline", "written", "dropped", "crashed"}
Opened == {"lock", "line", "newline"}
InLine == {"line", "newline"}
Marks == Writers \cup {0}
LogFields == {"there", "regular", "gen", "text"}
LogFiles(l) ==
    DOMAIN l = Dates /\ \A d \in Dates : DOMAIN l[d] = LogFields /\ l[d].gen \in Nat /\ l[d].text \in Seq(Marks)

LogShape ==
    /\ logPc \in [Writers -> LogPoints] /\ day \in Dates /\ dated \in [Writers -> Dates]
    /\ handle \in [Writers -> Int] /\ DOMAIN sweep = Writers
    /\ LogFiles(logs) /\ locked \in [Dates -> Marks]
    /\ \A w \in Writers : dated[w] <= day

\* A writer removes logs that were past retention on its own day.
SweepInv ==
    \A w \in Writers : /\ \A d \in sweep[w] : d \in Dates /\ d < dated[w] - Retain
                       /\ logPc[w] = "idle" => sweep[w] = {}

\* A log within retention was never removed, and a file opened earlier is an earlier one.
FreshInv ==
    /\ \A d \in Dates : d >= day - Retain => logs[d].gen = 0
    /\ \A w \in Writers : logPc[w] \in Opened => handle[w] \in Nat /\ handle[w] <= logs[dated[w]].gen

\* Exactly the writer of a line holds the lock of the log it writes.
LockInv ==
    /\ \A w \in Writers : logPc[w] \in InLine /\ Mine(w) => locked[dated[w]] = w
    /\ \A d \in Dates : \A w \in Writers :
         locked[d] = w => logPc[w] \in InLine /\ dated[w] = d /\ Mine(w)

\* A line without its newline is the last one, of a writer that will end it, or of one that died or failed.
LastIs(t, w) == t # <<>> /\ t[Len(t)] = w
OwnLines(t, T) == \A i \in 1..(Len(t) - 1) : t[i] # 0 /\ t[i + 1] # 0 => t[i] \in T
TextInv ==
    \A d \in Dates :
      /\ \A w \in Writers : LastIs(logs[d].text, w) =>
           w \in torn \/ (logPc[w] = "newline" /\ dated[w] = d /\ Mine(w))
      /\ OwnLines(logs[d].text, torn)

\* What was written is there while its log is kept.
Holds(t, w) == \E i \in DOMAIN t : t[i] = w
WrittenInv ==
    \A w \in Writers : logPc[w] \in {"newline", "written"} /\ dated[w] >= day - Retain => Holds(logs[dated[w]].text, w)

LogInv == LogShape /\ SweepInv /\ FreshInv /\ LockInv /\ TextInv /\ WrittenInv

LEMMA LogTypes ==
  ASSUME LogInv
  PROVE  /\ Retain \in Nat /\ 0 \notin Writers /\ day \in Nat
         /\ \A w \in Writers : logPc[w] \in LogPoints /\ dated[w] \in Dates /\ dated[w] \in Nat /\ handle[w] \in Int /\ dated[w] <= day
         /\ \A d \in Dates : /\ d \in Nat /\ locked[d] \in Marks
                             /\ logs[d].gen \in Nat /\ logs[d].text \in Seq(Marks)
  BY LogAssumption DEF LogInv, LogShape, LogFiles, Dates

\* A step outside the lines: one writer moves, and at most opens its file.
LEMMA QuietStep ==
  ASSUME LogInv, NEW w \in Writers, NEW x \in LogPoints \ {"line", "newline", "written", "idle"},
         logPc[w] \notin InLine \cup {"written"}, logPc' = [logPc EXCEPT ![w] = x],
         UNCHANGED <<day, locked, torn>>,
         LogFiles(logs'), \A d \in Dates : logs'[d].gen = logs[d].gen /\ logs'[d].text = logs[d].text,
         dated' \in [Writers -> Dates], \A v \in Writers \ {w} : dated'[v] = dated[v], dated'[w] <= day,
         handle' \in [Writers -> Int], \A v \in Writers \ {w} : handle'[v] = handle[v],
         x = "lock" => handle'[w] = logs[dated'[w]].gen,
         DOMAIN sweep' = Writers, \A v \in Writers \ {w} : sweep'[v] = sweep[v],
         \A d \in sweep'[w] : d \in Dates /\ d < dated'[w] - Retain
  PROVE  LogInv'
<1>1. /\ logPc' \in [Writers -> LogPoints] /\ logPc'[w] = x /\ \A v \in Writers \ {w} : logPc'[v] = logPc[v]
  BY DEF LogInv, LogShape
<1>2. LogShape'
  BY <1>1 DEF LogInv, LogShape
<1>3. SweepInv'
  BY <1>1 DEF LogInv, SweepInv
<1>4. FreshInv'
  <2>1. \A d \in Dates : d >= day' - Retain => logs'[d].gen = 0
    BY DEF LogInv, FreshInv
  <2>2. \A v \in Writers : logPc'[v] \in Opened => handle'[v] \in Nat /\ handle'[v] <= logs'[dated'[v]].gen
    <3> SUFFICES ASSUME NEW v \in Writers, logPc'[v] \in Opened
                 PROVE  handle'[v] \in Nat /\ handle'[v] <= logs'[dated'[v]].gen
      OBVIOUS
    <3>1. CASE v = w
      <4>1. x = "lock" /\ handle'[w] = logs[dated'[w]].gen /\ dated'[w] \in Dates
        BY <1>1, <3>1 DEF Opened
      <4>2. logs[dated'[w]].gen \in Nat /\ logs'[dated'[w]].gen = logs[dated'[w]].gen
        BY <4>1, LogTypes
      <4> QED
        BY <3>1, <4>1, <4>2
    <3>2. CASE v # w
      <4>1. logPc[v] \in Opened /\ handle'[v] = handle[v] /\ dated'[v] = dated[v] /\ dated[v] \in Dates
        BY <1>1, <3>2, LogTypes
      <4>2. logs'[dated[v]].gen = logs[dated[v]].gen
        BY <4>1
      <4>3. handle[v] \in Nat /\ handle[v] <= logs[dated[v]].gen
        BY <4>1 DEF LogInv, FreshInv
      <4> QED
        BY <4>1, <4>2, <4>3
    <3> QED
      BY <3>1, <3>2
  <2> QED
    BY <2>1, <2>2 DEF FreshInv
<1>5. \A v \in Writers : logPc'[v] \in InLine \cup {"written"} \/ logPc[v] \in InLine \cup {"written"} =>
        v # w /\ logPc'[v] = logPc[v] /\ dated'[v] = dated[v] /\ (Mine(v)' <=> Mine(v))
  <2>1. \A v \in Writers \ {w} : logs'[dated[v]].gen = logs[dated[v]].gen
    BY LogTypes
  <2> QED
    BY <1>1, <2>1 DEF InLine, Mine
<1>6. LockInv'
  <2>1. LockInv
    BY DEF LogInv
  <2> QED
    BY <1>5, <2>1 DEF LockInv
<1>7. TextInv'
  BY <1>5 DEF LogInv, TextInv, InLine
<1>8. WrittenInv'
  <2>1. \A v \in Writers : logs'[dated[v]].text = logs[dated[v]].text
    BY LogTypes
  <2>2. \A v \in Writers : Holds(logs[dated[v]].text, v) => Holds(logs'[dated[v]].text, v)
    BY <2>1
  <2> SUFFICES ASSUME NEW v \in Writers, logPc'[v] \in {"newline", "written"}, dated'[v] >= day' - Retain
               PROVE  Holds(logs'[dated'[v]].text, v)
    BY DEF WrittenInv
  <2> QED
    BY <1>5, <2>2 DEF LogInv, WrittenInv, InLine
<1> QED
  BY <1>2, <1>3, <1>4, <1>6, <1>7, <1>8 DEF LogInv

LEMMA RecordStep ==
  ASSUME LogInv, NEW w \in Writers, Record(w)
  PROVE  LogInv'
<1>1. PICK x \in {"dropped", "clean"} : logPc' = [logPc EXCEPT ![w] = x]
  BY DEF Record, LogGoto
<1>2. logPc[w] = "idle" /\ UNCHANGED <<day, handle, sweep, logs, locked, torn>> /\ dated' = [dated EXCEPT ![w] = day]
  BY DEF Record
<1>3. /\ LogFiles(logs) /\ handle \in [Writers -> Int] /\ DOMAIN sweep = Writers /\ day \in Dates
      /\ dated \in [Writers -> Dates] /\ sweep[w] = {} /\ day <= day
  BY <1>2, LogTypes DEF LogInv, LogShape, SweepInv
<1>4. dated' \in [Writers -> Dates] /\ dated'[w] = day /\ \A v \in Writers \ {w} : dated'[v] = dated[v]
  BY <1>2, <1>3
<1> QED
  BY <1>1, <1>2, <1>3, <1>4, QuietStep DEF LogPoints, InLine

LEMMA CleanupStep ==
  ASSUME LogInv, NEW w \in Writers, cleanup_once(w)
  PROVE  LogInv'
<1> DEFINE old == IF cleaned[ProcessOf[w]] = dated[w] THEN {} ELSE cleanup_old_logs(dated[w])
<1>1. logPc[w] = "clean" /\ UNCHANGED <<day, dated, handle, logs, locked, torn>>
  BY DEF cleanup_once
<1>2. /\ LogFiles(logs) /\ handle \in [Writers -> Int] /\ DOMAIN sweep = Writers
      /\ dated \in [Writers -> Dates] /\ dated[w] <= day
      /\ \A d \in sweep[w] : d \in Dates /\ d < dated[w] - Retain
  BY DEF LogInv, LogShape, SweepInv
<1>3. \A d \in old : d \in Dates /\ d < dated[w] - Retain
  BY DEF cleanup_old_logs
<1>4. CASE sweep' = [sweep EXCEPT ![w] = old] /\ LogGoto(w, IF old = {} THEN "open" ELSE "sweep")
  <2> HIDE DEF old
  <2>1. DOMAIN sweep' = Writers /\ sweep'[w] = old /\ \A v \in Writers \ {w} : sweep'[v] = sweep[v]
    BY <1>2, <1>4
  <2>2. PICK x \in {"open", "sweep"} : logPc' = [logPc EXCEPT ![w] = x]
    BY <1>4 DEF LogGoto
  <2> QED
    BY <1>1, <1>2, <1>3, <2>1, <2>2, QuietStep DEF LogPoints, InLine
<1>5. CASE LogGoto(w, "dropped") /\ UNCHANGED sweep
  <2>1. logPc' = [logPc EXCEPT ![w] = "dropped"]
    BY <1>5 DEF LogGoto
  <2> QED
    BY <1>1, <1>2, <1>5, <2>1, QuietStep DEF LogPoints, InLine
<1> QED
  BY <1>4, <1>5 DEF cleanup_once

LEMMA OpenStep ==
  ASSUME LogInv, NEW w \in Writers, OpenLog(w)
  PROVE  LogInv'
<1>1. logPc[w] = "open" /\ UNCHANGED <<day, dated, sweep, locked, torn>>
  BY DEF OpenLog
<1>2. /\ LogFiles(logs) /\ handle \in [Writers -> Int] /\ DOMAIN sweep = Writers
      /\ dated \in [Writers -> Dates] /\ dated[w] \in Dates /\ dated[w] <= day /\ logs[dated[w]].gen \in Nat
      /\ \A d \in sweep[w] : d \in Dates /\ d < dated[w] - Retain
  BY LogTypes DEF LogInv, LogShape, SweepInv
<1>3. CASE LogGoto(w, "dropped") /\ UNCHANGED <<handle, logs>>
  <2>1. logPc' = [logPc EXCEPT ![w] = "dropped"]
    BY <1>3 DEF LogGoto
  <2> QED
    BY <1>1, <1>2, <1>3, <2>1, QuietStep DEF LogPoints, InLine
<1>4. CASE /\ logs' = [logs EXCEPT ![dated[w]].there = TRUE] /\ handle' = [handle EXCEPT ![w] = logs[dated[w]].gen]
           /\ \E where \in {"lock", "dropped"} : LogGoto(w, where)
  <2>1. PICK x \in {"lock", "dropped"} : logPc' = [logPc EXCEPT ![w] = x]
    BY <1>4 DEF LogGoto
  <2>2. LogFiles(logs') /\ \A d \in Dates : logs'[d].gen = logs[d].gen /\ logs'[d].text = logs[d].text
    BY <1>2, <1>4 DEF LogFiles, LogFields
  <2>3. /\ handle' \in [Writers -> Int] /\ handle'[w] = logs[dated[w]].gen
        /\ \A v \in Writers \ {w} : handle'[v] = handle[v]
    BY <1>2, <1>4
  <2> QED
    BY <1>1, <1>2, <2>1, <2>2, <2>3, QuietStep DEF LogPoints, InLine
<1> QED
  BY <1>3, <1>4 DEF OpenLog

LEMMA RemoveStep ==
  ASSUME LogInv, NEW w \in Writers, RemoveOld(w)
  PROVE  LogInv'
<1>1. PICK d \in sweep[w] :
        /\ sweep' = [sweep EXCEPT ![w] = @ \ {d}]
        /\ LogGoto(w, IF sweep[w] = {d} THEN "open" ELSE "sweep")
        /\ \/ UNCHANGED <<logs, locked>>
           \/ /\ logs' = [logs EXCEPT ![d].there = FALSE, ![d].gen = @ + 1, ![d].text = <<>>]
              /\ locked' = [locked EXCEPT ![d] = 0]
  BY DEF RemoveOld
<1>2. logPc[w] = "sweep" /\ UNCHANGED <<day, dated, handle, torn>>
  BY DEF RemoveOld
<1>3. /\ LogFiles(logs) /\ handle \in [Writers -> Int] /\ DOMAIN sweep = Writers
      /\ dated \in [Writers -> Dates] /\ dated[w] \in Dates /\ dated[w] <= day
      /\ \A e \in sweep[w] : e \in Dates /\ e < dated[w] - Retain
  BY LogTypes DEF LogInv, LogShape, SweepInv
<1>4. /\ DOMAIN sweep' = Writers /\ (\A v \in Writers \ {w} : sweep'[v] = sweep[v])
      /\ sweep'[w] \subseteq sweep[w]
  BY <1>1, <1>3
<1>5. PICK x \in {"open", "sweep"} : logPc' = [logPc EXCEPT ![w] = x]
  BY <1>1 DEF LogGoto
<1>6. CASE UNCHANGED <<logs, locked>>
  <2>1. \A e \in sweep'[w] : e \in Dates /\ e < dated[w] - Retain
    BY <1>3, <1>4
  <2> QED
    BY <1>2, <1>3, <1>4, <1>5, <1>6, <2>1, QuietStep DEF LogPoints, InLine
<1>7. CASE /\ logs' = [logs EXCEPT ![d].there = FALSE, ![d].gen = @ + 1, ![d].text = <<>>]
           /\ locked' = [locked EXCEPT ![d] = 0]
  <2>0. d \in Dates /\ d < dated[w] - Retain /\ d \in Nat /\ ~(d >= day - Retain)
    BY <1>3, LogTypes
  <2>1. /\ logPc' \in [Writers -> LogPoints] /\ logPc'[w] = x /\ logPc'[w] \notin Opened \cup {"written", "idle"}
        /\ logPc[w] \notin Opened \cup {"written"} /\ \A v \in Writers \ {w} : logPc'[v] = logPc[v]
    BY <1>2, <1>5 DEF LogInv, LogShape, LogPoints, Opened
  <2>2. /\ LogFiles(logs') /\ logs'[d].gen = logs[d].gen + 1 /\ logs'[d].text = <<>>
        /\ \A e \in Dates \ {d} : logs'[e] = logs[e]
    <3>1. <<>> \in Seq(Marks)
      BY EmptySeq
    <3>2. /\ DOMAIN logs' = Dates /\ DOMAIN logs'[d] = LogFields /\ logs'[d].gen = logs[d].gen + 1 /\ logs'[d].text = <<>>
          /\ \A e \in Dates \ {d} : logs'[e] = logs[e]
      BY <1>3, <1>7, <2>0 DEF LogFiles, LogFields
    <3>3. logs[d].gen + 1 \in Nat
      BY <2>0, LogTypes
    <3>4. \A e \in Dates \ {d} : DOMAIN logs'[e] = LogFields /\ logs'[e].gen \in Nat /\ logs'[e].text \in Seq(Marks)
      BY <1>3, <3>2 DEF LogFiles
    <3>5. DOMAIN logs'[d] = LogFields /\ logs'[d].gen \in Nat /\ logs'[d].text \in Seq(Marks)
      BY <3>1, <3>2, <3>3
    <3>6. LogFiles(logs')
      BY <3>2, <3>4, <3>5 DEF LogFiles
    <3> QED
      BY <3>2, <3>6
  <2>3. locked' \in [Dates -> Marks] /\ locked'[d] = 0 /\ \A e \in Dates \ {d} : locked'[e] = locked[e]
    BY <1>7, <2>0 DEF LogInv, LogShape, Marks
  <2>4. LogShape'
    BY <1>2, <1>4, <2>1, <2>2, <2>3 DEF LogInv, LogShape
  <2>5. SweepInv'
    BY <1>2, <1>4, <2>1 DEF LogInv, SweepInv
  <2>6. FreshInv'
    <3>1. \A e \in Dates : e >= day - Retain => logs'[e].gen = 0
      BY <2>0, <2>2 DEF LogInv, FreshInv
    <3>2. \A v \in Writers : logPc'[v] \in Opened => handle[v] \in Nat /\ handle[v] <= logs'[dated[v]].gen
      <4> SUFFICES ASSUME NEW v \in Writers, logPc'[v] \in Opened
                   PROVE  handle[v] \in Nat /\ handle[v] <= logs'[dated[v]].gen
        OBVIOUS
      <4>1. handle[v] \in Nat /\ handle[v] <= logs[dated[v]].gen /\ dated[v] \in Dates /\ logs[dated[v]].gen \in Nat
        BY <2>1, LogTypes DEF LogInv, FreshInv
      <4>2. logs'[dated[v]].gen = logs[dated[v]].gen \/ logs'[dated[v]].gen = logs[dated[v]].gen + 1
        BY <2>2, <4>1
      <4> QED
        BY <4>1, <4>2
    <3> QED
      BY <1>2, <3>1, <3>2 DEF FreshInv
  <2>7. \A v \in Writers : logPc'[v] \in InLine \/ logPc[v] \in InLine =>
          v # w /\ logPc'[v] = logPc[v] /\ (Mine(v)' <=> Mine(v) /\ dated[v] # d)
    <3> SUFFICES ASSUME NEW v \in Writers, logPc'[v] \in InLine \/ logPc[v] \in InLine
                 PROVE  v # w /\ logPc'[v] = logPc[v] /\ (Mine(v)' <=> Mine(v) /\ dated[v] # d)
      OBVIOUS
    <3>1. v # w /\ logPc'[v] = logPc[v] /\ logPc[v] \in Opened
      BY <2>1 DEF InLine, Opened
    <3>2. handle[v] \in Nat /\ handle[v] <= logs[dated[v]].gen /\ logs[dated[v]].gen \in Nat /\ dated[v] \in Dates
      BY <3>1, LogTypes DEF LogInv, FreshInv
    <3>3. dated[v] = d => handle[v] # logs'[dated[v]].gen
      BY <2>2, <3>2
    <3> QED
      BY <1>2, <2>2, <3>1, <3>2, <3>3 DEF Mine
  <2>8. LockInv'
    <3>1. dated' = dated /\ LockInv /\ (\A v \in Writers : dated[v] \in Dates) /\ 0 \notin Writers
      BY <1>2, LogTypes, LogAssumption DEF LogInv
    <3>2. ASSUME NEW v \in Writers, logPc'[v] \in InLine, Mine(v)'
          PROVE  locked'[dated'[v]] = v
      <4>1. logPc[v] \in InLine /\ Mine(v) /\ dated[v] # d
        BY <2>7, <3>2
      <4> QED
        BY <2>3, <3>1, <4>1 DEF LockInv
    <3>3. ASSUME NEW e \in Dates, NEW v \in Writers, locked'[e] = v
          PROVE  logPc'[v] \in InLine /\ dated'[v] = e /\ Mine(v)'
      <4>1. e # d /\ locked[e] = v
        BY <2>3, <3>1, <3>3
      <4>2. logPc[v] \in InLine /\ dated[v] = e /\ Mine(v)
        BY <3>1, <4>1 DEF LockInv
      <4> QED
        BY <2>7, <3>1, <4>1, <4>2
    <3> QED
      BY <3>2, <3>3 DEF LockInv
  <2>9. TextInv'
    <3>1. ~LastIs(<<>>, 0) /\ (\A v \in Writers : ~LastIs(<<>>, v)) /\ OwnLines(<<>>, torn)
      BY EmptySeq DEF LastIs, OwnLines
    <3>2. \A v \in Writers : LastIs(logs'[d].text, v) => FALSE
      BY <2>2, <3>1
    <3>3. OwnLines(logs'[d].text, torn)
      BY <2>2, <3>1
    <3>4. \A e \in Dates \ {d} : logs'[e].text = logs[e].text
      BY <2>2
    <3> QED
      BY <1>2, <2>7, <3>2, <3>3, <3>4 DEF LogInv, TextInv, InLine
  <2>10. WrittenInv'
    <3> SUFFICES ASSUME NEW v \in Writers, logPc'[v] \in {"newline", "written"}, dated[v] >= day - Retain
                 PROVE  Holds(logs'[dated[v]].text, v)
      BY <1>2 DEF WrittenInv
    <3>1. logPc[v] = logPc'[v]
      BY <2>1 DEF Opened
    <3>2. dated[v] # d /\ dated[v] \in Dates
      BY <2>0, LogTypes
    <3>3. logs'[dated[v]] = logs[dated[v]]
      BY <2>2, <3>2
    <3> QED
      BY <3>1, <3>3 DEF LogInv, WrittenInv
  <2> QED
    BY <2>4, <2>5, <2>6, <2>8, <2>9, <2>10 DEF LogInv
<1> QED
  BY <1>1, <1>6, <1>7

LEMMA AcquireStep ==
  ASSUME LogInv, NEW w \in Writers, acquire_lock(w)
  PROVE  LogInv'
<1> DEFINE d == dated[w]
<1>1. logPc[w] = "lock" /\ UNCHANGED <<day, dated, handle, sweep, logs, torn>>
  BY DEF acquire_lock
<1>2. /\ LogFiles(logs) /\ handle \in [Writers -> Int] /\ DOMAIN sweep = Writers /\ locked \in [Dates -> Marks]
      /\ dated \in [Writers -> Dates] /\ dated[w] \in Dates /\ dated[w] <= day
      /\ \A e \in sweep[w] : e \in Dates /\ e < dated[w] - Retain
  BY LogTypes DEF LogInv, LogShape, SweepInv
<1>3. CASE LogGoto(w, "dropped") /\ UNCHANGED locked
  <2>1. logPc' = [logPc EXCEPT ![w] = "dropped"]
    BY <1>3 DEF LogGoto
  <2> QED
    BY <1>1, <1>2, <1>3, <2>1, QuietStep DEF LogPoints, InLine
<1>4. CASE /\ Mine(w) => locked[d] = 0 /\ locked' = [locked EXCEPT ![d] = w]
           /\ ~Mine(w) => locked' = locked
           /\ LogGoto(w, "line")
  <2>1. /\ logPc' \in [Writers -> LogPoints] /\ logPc'[w] = "line" /\ \A v \in Writers \ {w} : logPc'[v] = logPc[v]
    BY <1>4 DEF LogInv, LogShape, LogGoto, LogPoints
  <2>2. \A v \in Writers : Mine(v)' <=> Mine(v)
    BY <1>1 DEF Mine
  <2>3. /\ locked' \in [Dates -> Marks]
        /\ \A e \in Dates : locked'[e] = IF Mine(w) /\ e = d THEN w ELSE locked[e]
    BY <1>2, <1>4 DEF Marks
  <2>4. LogShape' /\ SweepInv' /\ FreshInv'
    BY <1>1, <2>1, <2>3 DEF LogInv, LogShape, SweepInv, FreshInv, Opened
  <2>5. LockInv'
    <3>1. LockInv /\ w # 0
      BY LogTypes DEF LogInv
    <3>2. Mine(w) => locked[d] = 0
      BY <1>4
    <3>3. \A v \in Writers : logPc'[v] \in InLine /\ Mine(v)' => locked'[dated'[v]] = v
      <4> SUFFICES ASSUME NEW v \in Writers, logPc'[v] \in InLine, Mine(v) PROVE locked'[dated[v]] = v
        BY <1>1, <2>2
      <4>1. CASE v = w
        BY <1>2, <2>3, <4>1
      <4>2. CASE v # w
        <5>1. locked[dated[v]] = v /\ dated[v] \in Dates /\ v # 0
          BY <2>1, <3>1, <4>2, LogTypes DEF LockInv
        <5> QED
          BY <2>3, <3>2, <5>1
      <4> QED
        BY <4>1, <4>2
    <3>4. \A e \in Dates : \A v \in Writers : locked'[e] = v => logPc'[v] \in InLine /\ dated'[v] = e /\ Mine(v)'
      <4> SUFFICES ASSUME NEW e \in Dates, NEW v \in Writers, locked'[e] = v
                   PROVE  logPc'[v] \in InLine /\ dated[v] = e /\ Mine(v)
        BY <1>1, <2>2
      <4>1. CASE Mine(w) /\ e = d
        BY <2>1, <2>3, <4>1 DEF InLine
      <4>2. CASE ~(Mine(w) /\ e = d)
        <5>1. locked[e] = v
          BY <2>3, <4>2
        <5>2. logPc[v] \in InLine /\ dated[v] = e /\ Mine(v)
          BY <3>1, <5>1 DEF LockInv
        <5> QED
          BY <1>1, <2>1, <5>2 DEF InLine
      <4> QED
        BY <4>1, <4>2
    <3> QED
      BY <3>3, <3>4 DEF LockInv
  <2>6. TextInv'
    BY <1>1, <2>1, <2>2 DEF LogInv, TextInv
  <2>7. WrittenInv'
    BY <1>1, <2>1 DEF LogInv, WrittenInv
  <2> QED
    BY <2>4, <2>5, <2>6, <2>7 DEF LogInv
<1> QED
  BY <1>3, <1>4 DEF acquire_lock

\* What one more mark at the end of a log does.
LEMMA AppendFacts ==
  ASSUME NEW t \in Seq(Marks), NEW x \in Marks, NEW T
  PROVE  /\ Append(t, x) \in Seq(Marks)
         /\ \A v : LastIs(Append(t, x), v) <=> v = x
         /\ \A v : Holds(t, v) => Holds(Append(t, x), v)
         /\ Holds(Append(t, x), x)
         /\ OwnLines(t, T) /\ (x # 0 => \A v \in Writers : LastIs(t, v) => v \in T) => OwnLines(Append(t, x), T)
<1> DEFINE n == Len(t)
           a == Append(t, x)
<1>1. /\ a \in Seq(Marks) /\ Len(a) = n + 1 /\ n \in Nat /\ DOMAIN a = 1..(n + 1) /\ DOMAIN t = 1..n
      /\ (\A i \in 1..n : a[i] = t[i]) /\ a[n + 1] = x
  BY AppendProperties, LenProperties
<1>2. a # <<>>
  BY <1>1, EmptySeq
<1>3. \A i \in 1..n : t[i] \in Marks
  BY ElementOfSeq
<1> HIDE DEF a
<1>4. \A v : LastIs(a, v) <=> v = x
  BY <1>1, <1>2 DEF LastIs
<1>5. \A v : Holds(t, v) => Holds(a, v)
  BY <1>1 DEF Holds
<1>6. Holds(a, x)
  BY <1>1 DEF Holds
<1>7. ASSUME OwnLines(t, T), x # 0 => \A v \in Writers : LastIs(t, v) => v \in T
      PROVE  OwnLines(a, T)
  <2> SUFFICES ASSUME NEW i \in 1..(Len(a) - 1), a[i] # 0, a[i + 1] # 0 PROVE a[i] \in T
    BY DEF OwnLines
  <2>1. i \in 1..n /\ a[i] = t[i] /\ t[i] \in Writers
    BY <1>1, <1>3 DEF Marks
  <2>2. CASE i = n
    <3>1. x # 0 /\ t # <<>> /\ t[Len(t)] = t[i]
      BY <1>1, <2>1, <2>2, EmptySeq
    <3> QED
      BY <1>7, <2>1, <3>1 DEF LastIs
  <2>3. CASE i # n
    <3> HIDE DEF n
    <3>0. n \in Nat /\ i \in 1..n /\ i # n
      BY <1>1, <2>1, <2>3
    <3>1. i \in 1..(n - 1) /\ i + 1 \in 1..n
      BY <3>0
    <3>2. a[i + 1] = t[i + 1]
      BY <1>1, <3>1
    <3> QED
      BY <1>7, <2>1, <3>1, <3>2 DEF OwnLines, n
  <2> QED
    BY <2>2, <2>3
<1> QED
  BY <1>1, <1>4, <1>5, <1>6, <1>7 DEF a

\* A write by the writer of a line: `added` when it leaves the mark m in the file.
LEMMA LineStep ==
  ASSUME LogInv, NEW w \in Writers, NEW x \in {"newline", "written", "dropped"}, NEW m \in {w, 0}, NEW added \in BOOLEAN,
         logPc[w] \in InLine, logPc' = [logPc EXCEPT ![w] = x], UNCHANGED <<day, dated, handle, sweep>>,
         logs' = IF added THEN Appended(w, m) ELSE logs,
         m = w => logPc[w] = "line",
         x = "newline" => m = w /\ added /\ UNCHANGED <<locked, torn>>,
         x = "written" => m = 0 /\ added /\ logPc[w] = "newline" /\ UNCHANGED torn,
         x = "dropped" => torn' = torn \cup {w},
         x # "newline" => locked' = LockDropped(w)
  PROVE  LogInv'
<1> DEFINE d == dated[w]
           t == logs[d].text
           grows == added /\ Mine(w)
<1>0. /\ d \in Dates /\ LogFiles(logs) /\ w # 0 /\ m \in Marks /\ t \in Seq(Marks) /\ locked \in [Dates -> Marks]
      /\ \A e \in Dates : logs[e].gen \in Nat
  BY LogTypes DEF LogInv, LogShape, Marks
<1>1. /\ logPc' \in [Writers -> LogPoints] /\ logPc'[w] = x /\ (\A v \in Writers \ {w} : logPc'[v] = logPc[v])
      /\ logPc[w] \in Opened
  BY DEF LogInv, LogShape, LogPoints, InLine, Opened
<1>2. torn \subseteq torn'
  OBVIOUS
<1>3. /\ DOMAIN logs' = Dates
      /\ \A e \in Dates : /\ DOMAIN logs'[e] = LogFields /\ logs'[e].gen = logs[e].gen
                           /\ logs'[e].text = IF grows /\ e = d THEN Append(t, m) ELSE logs[e].text
  BY <1>0 DEF Appended, LogFiles, LogFields
<1>4. /\ Append(t, m) \in Seq(Marks)
      /\ \A v : LastIs(Append(t, m), v) <=> v = m
      /\ \A v : Holds(t, v) => Holds(Append(t, m), v)
      /\ Holds(Append(t, m), m)
      /\ OwnLines(t, torn) /\ (m # 0 => \A v \in Writers : LastIs(t, v) => v \in torn) => OwnLines(Append(t, m), torn)
  BY <1>0, AppendFacts
<1>5. LogFiles(logs')
  BY <1>0, <1>3, <1>4 DEF LogFiles
<1>6. \A v \in Writers : Mine(v)' <=> Mine(v)
  BY <1>3, LogTypes DEF Mine
<1>7. /\ locked' \in [Dates -> Marks]
      /\ \A e \in Dates : locked'[e] = IF x # "newline" /\ e = d /\ Mine(w) /\ locked[d] = w THEN 0 ELSE locked[e]
  BY <1>0 DEF LockDropped, Marks
<1> HIDE DEF t, grows, d
<1>8. LogShape'
  BY <1>1, <1>5, <1>7 DEF LogInv, LogShape
<1>9. SweepInv'
  BY <1>1 DEF LogInv, SweepInv
<1>10. FreshInv'
  <2>1. \A v \in Writers : logPc'[v] \in Opened => logPc[v] \in Opened
    BY <1>1
  <2>2. \A v \in Writers : dated[v] \in Dates /\ logs'[dated[v]].gen = logs[dated[v]].gen
    BY <1>3, LogTypes
  <2> QED
    BY <1>3, <2>1, <2>2 DEF LogInv, FreshInv
<1>11. LockInv
  BY DEF LogInv
<1>12. LockInv'
  <2>1. \A v \in Writers : logPc'[v] \in InLine /\ Mine(v)' => locked'[dated'[v]] = v
    <3> SUFFICES ASSUME NEW v \in Writers, logPc'[v] \in InLine, Mine(v) PROVE locked'[dated[v]] = v
      BY <1>6
    <3>1. logPc[v] \in InLine
      BY <1>1
    <3>2. locked[dated[v]] = v /\ dated[v] \in Dates
      BY <1>11, <3>1, LogTypes DEF LockInv
    <3>3. v = w => x = "newline"
      BY <1>1 DEF InLine
    <3> QED
      BY <1>7, <3>2, <3>3
  <2>2. \A e \in Dates : \A v \in Writers : locked'[e] = v => logPc'[v] \in InLine /\ dated'[v] = e /\ Mine(v)'
    <3> SUFFICES ASSUME NEW e \in Dates, NEW v \in Writers, locked'[e] = v
                 PROVE  logPc'[v] \in InLine /\ dated[v] = e /\ Mine(v)
      BY <1>6
    <3>1. locked[e] = v /\ ~(x # "newline" /\ e = d /\ Mine(w) /\ locked[d] = w)
      BY <1>7, LogTypes
    <3>2. logPc[v] \in InLine /\ dated[v] = e /\ Mine(v)
      BY <1>11, <3>1 DEF LockInv
    <3>3. v = w => x = "newline"
      BY <3>1, <3>2 DEF d
    <3> QED
      BY <1>1, <3>2, <3>3 DEF InLine
  <2> QED
    BY <2>1, <2>2 DEF LockInv
<1>13. TextInv
  BY DEF LogInv
<1>14. m # 0 /\ grows => \A v \in Writers : LastIs(t, v) => v \in torn
  <2> SUFFICES ASSUME m # 0, grows, NEW v \in Writers, LastIs(t, v), v \notin torn PROVE FALSE
    OBVIOUS
  <2>1. logPc[v] = "newline" /\ dated[v] = d /\ Mine(v)
    BY <1>0, <1>13 DEF TextInv, t
  <2>2. locked[d] = v /\ locked[d] = w
    BY <1>11, <2>1 DEF LockInv, InLine, grows, d
  <2> QED
    BY <2>1, <2>2
<1>15. TextInv'
  <2> SUFFICES ASSUME NEW e \in Dates
               PROVE  /\ \A v \in Writers : LastIs(logs'[e].text, v) =>
                           v \in torn' \/ (logPc'[v] = "newline" /\ dated[v] = e /\ Mine(v))
                      /\ OwnLines(logs'[e].text, torn')
    BY <1>6 DEF TextInv
  <2>1. OwnLines(logs[e].text, torn)
    BY <1>13 DEF TextInv
  <2>2. CASE grows /\ e = d
    <3>1. logs'[e].text = Append(t, m)
      BY <1>3, <2>2
    <3>2. OwnLines(Append(t, m), torn)
      BY <1>4, <1>14, <2>1, <2>2 DEF t
    <3>3. OwnLines(Append(t, m), torn')
      BY <1>2, <3>2 DEF OwnLines
    <3>4. \A v \in Writers : LastIs(Append(t, m), v) => v = w /\ m = w
      BY <1>4, LogTypes
    <3>5. m = w => x = "dropped" \/ (x = "newline" /\ dated[w] = e /\ Mine(w))
      BY <1>0, <2>2 DEF grows, d
    <3> QED
      BY <1>1, <3>1, <3>3, <3>4, <3>5
  <2>3. CASE ~(grows /\ e = d)
    <3>1. logs'[e].text = logs[e].text
      BY <1>3, <2>3
    <3>2. OwnLines(logs'[e].text, torn')
      BY <1>2, <2>1, <3>1 DEF OwnLines
    <3>3. ASSUME NEW v \in Writers, LastIs(logs[e].text, v)
          PROVE  v \in torn' \/ (logPc'[v] = "newline" /\ dated[v] = e /\ Mine(v))
      <4>1. v \in torn \/ (logPc[v] = "newline" /\ dated[v] = e /\ Mine(v))
        BY <1>13, <3>3 DEF TextInv
      <4>2. CASE v # w
        BY <1>1, <1>2, <4>1, <4>2
      <4>3. CASE v = w /\ v \notin torn
        BY <2>3, <4>1, <4>3 DEF grows, d
      <4> QED
        BY <1>2, <4>2, <4>3
    <3> QED
      BY <3>1, <3>2, <3>3
  <2> QED
    BY <2>2, <2>3
<1>16. WrittenInv'
  <2> SUFFICES ASSUME NEW v \in Writers, logPc'[v] \in {"newline", "written"}, dated[v] >= day - Retain
               PROVE  Holds(logs'[dated[v]].text, v)
    BY DEF WrittenInv
  <2>0. dated[v] \in Dates
    BY LogTypes
  <2>1. ASSUME Holds(logs[dated[v]].text, v) PROVE Holds(logs'[dated[v]].text, v)
    BY <1>3, <1>4, <2>0, <2>1 DEF t
  <2>2. CASE logPc[v] \in {"newline", "written"}
    BY <2>1, <2>2 DEF LogInv, WrittenInv
  <2>3. CASE logPc[v] \notin {"newline", "written"}
    <3>1. v = w /\ x = "newline" /\ m = w /\ added
      BY <1>1, <2>3
    <3>2. handle[w] \in Nat /\ handle[w] <= logs[d].gen /\ logs[d].gen = 0
      BY <1>0, <1>1, <3>1 DEF LogInv, FreshInv, d
    <3>3. grows
      BY <3>1, <3>2 DEF grows, Mine, d
    <3>4. logs'[d].text = Append(t, w)
      BY <1>0, <1>3, <3>1, <3>3
    <3> QED
      BY <1>4, <3>1, <3>4 DEF d
  <2> QED
    BY <2>2, <2>3
<1> QED
  BY <1>8, <1>9, <1>10, <1>12, <1>15, <1>16 DEF LogInv

LEMMA WriteSteps ==
  ASSUME LogInv, NEW w \in Writers, WriteLine(w) \/ WriteNewline(w)
  PROVE  LogInv'
<1>1. CASE WriteLine(w)
  <2>1. /\ logPc[w] = "line" /\ logPc[w] \in InLine /\ UNCHANGED <<day, dated, handle, sweep>>
        /\ logs' = IF TRUE THEN Appended(w, w) ELSE logs
    BY <1>1 DEF WriteLine, InLine
  <2>2. CASE LogGoto(w, "newline") /\ UNCHANGED <<locked, torn>>
    <3>1. logPc' = [logPc EXCEPT ![w] = "newline"]
      BY <2>2 DEF LogGoto
    <3> QED
      BY <2>1, <2>2, <3>1, LineStep
  <2>3. CASE LogGoto(w, "dropped") /\ torn' = torn \cup {w} /\ locked' = LockDropped(w)
    <3>1. logPc' = [logPc EXCEPT ![w] = "dropped"]
      BY <2>3 DEF LogGoto
    <3> QED
      BY <2>1, <2>3, <3>1, LineStep
  <2> QED
    BY <1>1, <2>2, <2>3 DEF WriteLine
<1>2. CASE WriteNewline(w)
  <2>1. /\ logPc[w] = "newline" /\ logPc[w] \in InLine /\ UNCHANGED <<day, dated, handle, sweep>> /\ locked' = LockDropped(w)
        /\ w # 0
    BY <1>2, LogTypes DEF WriteNewline, InLine
  <2>2. CASE logs' = Appended(w, 0) /\ LogGoto(w, "written") /\ UNCHANGED torn
    <3>1. logPc' = [logPc EXCEPT ![w] = "written"] /\ logs' = IF TRUE THEN Appended(w, 0) ELSE logs
      BY <2>2 DEF LogGoto
    <3> QED
      BY <2>1, <2>2, <3>1, LineStep
  <2>3. CASE torn' = torn \cup {w} /\ LogGoto(w, "dropped") /\ UNCHANGED logs
    <3>1. logPc' = [logPc EXCEPT ![w] = "dropped"] /\ logs' = IF FALSE THEN Appended(w, 0) ELSE logs
      BY <2>3 DEF LogGoto
    <3> QED
      BY <2>1, <2>3, <3>1, LineStep
  <2> QED
    BY <1>2, <2>2, <2>3 DEF WriteNewline
<1> QED
  BY <1>1, <1>2

LEMMA CrashStep ==
  ASSUME LogInv, NEW p, CrashProcess(p)
  PROVE  LogInv'
<1> DEFINE mine == {w \in Writers : ProcessOf[w] = p}
<1>1. /\ UNCHANGED <<day, dated, handle, sweep, logs>>
      /\ logPc' = [w \in Writers |-> IF w \in mine /\ logPc[w] # "written" THEN "crashed" ELSE logPc[w]]
      /\ torn' = torn \cup {w \in mine : logPc[w] = "newline"}
      /\ locked' = [d \in Dates |-> IF locked[d] \in mine THEN 0 ELSE locked[d]]
  BY DEF CrashProcess
<1>2. /\ \A w \in Writers : logPc'[w] \in LogPoints /\ (logPc'[w] = logPc[w] \/ (w \in mine /\ logPc'[w] = "crashed"))
      /\ \A w \in Writers \ mine : logPc'[w] = logPc[w]
      /\ \A d \in Dates : locked'[d] \in Marks
  BY <1>1, LogTypes DEF LogPoints, Marks
<1>3. logPc' \in [Writers -> LogPoints] /\ locked' \in [Dates -> Marks]
  BY <1>1, <1>2
<1>4. \A w \in Writers : Mine(w)' <=> Mine(w)
  BY <1>1 DEF Mine
<1>5. \A w \in Writers : logPc'[w] \in InLine => w \notin mine /\ logPc'[w] = logPc[w]
  BY <1>1 DEF InLine
<1>6. \A d \in Dates : locked'[d] = IF locked[d] \in mine THEN 0 ELSE locked[d]
  BY <1>1
<1>7. torn \subseteq torn' /\ \A w \in mine : logPc[w] = "newline" => w \in torn'
  BY <1>1
<1> HIDE DEF mine
<1>8. LogShape'
  BY <1>1, <1>3 DEF LogInv, LogShape
<1>9. SweepInv'
  BY <1>1, <1>2 DEF LogInv, SweepInv
<1>10. FreshInv'
  BY <1>1, <1>2 DEF LogInv, FreshInv, Opened
<1>11. LockInv'
  <2>1. LockInv
    BY DEF LogInv
  <2>2. \A w \in Writers : logPc'[w] \in InLine /\ Mine(w)' => locked'[dated'[w]] = w
    BY <1>1, <1>4, <1>5, <1>6, <2>1, LogTypes DEF LockInv
  <2>3. \A d \in Dates : \A w \in Writers : locked'[d] = w => logPc'[w] \in InLine /\ dated'[w] = d /\ Mine(w)'
    <3> SUFFICES ASSUME NEW d \in Dates, NEW w \in Writers, locked'[d] = w
                 PROVE  logPc'[w] \in InLine /\ dated[w] = d /\ Mine(w)
      BY <1>1, <1>4
    <3>1. locked[d] = w /\ w \notin mine
      BY <1>6, LogTypes
    <3> QED
      BY <1>2, <2>1, <3>1 DEF LockInv
  <2> QED
    BY <2>2, <2>3 DEF LockInv
<1>12. TextInv'
  <2> SUFFICES ASSUME NEW d \in Dates
               PROVE  /\ \A w \in Writers : LastIs(logs[d].text, w) =>
                           w \in torn' \/ (logPc'[w] = "newline" /\ dated[w] = d /\ Mine(w))
                      /\ OwnLines(logs[d].text, torn')
    BY <1>1, <1>4 DEF TextInv
  <2>1. OwnLines(logs[d].text, torn')
    BY <1>7 DEF LogInv, TextInv, OwnLines
  <2>2. \A w \in Writers : LastIs(logs[d].text, w) =>
           w \in torn \/ (logPc[w] = "newline" /\ dated[w] = d /\ Mine(w))
    BY DEF LogInv, TextInv
  <2> QED
    BY <1>2, <1>7, <2>1, <2>2
<1>13. WrittenInv'
  BY <1>1, <1>2 DEF LogInv, WrittenInv
<1> QED
  BY <1>8, <1>9, <1>10, <1>11, <1>12, <1>13 DEF LogInv

LEMMA DayStep ==
  ASSUME LogInv, NextDay
  PROVE  LogInv'
<1>1. /\ day' = day + 1 /\ day < MaxDay
      /\ UNCHANGED <<logPc, dated, handle, sweep, logs, locked, torn>>
  BY DEF NextDay
<1>2. day \in Nat /\ Retain \in Nat /\ day' \in Dates
  BY <1>1, LogTypes, LogAssumption DEF LogInv, LogShape, Dates
<1>3. \A d \in Dates : d \in Nat /\ (d >= day' - Retain => d >= day - Retain) /\ (d <= day => d <= day')
  BY <1>1, <1>2, LogTypes
<1>4. \A w \in Writers : Mine(w)' <=> Mine(w)
  BY <1>1 DEF Mine
<1>5. LogShape'
  BY <1>1, <1>2, <1>3 DEF LogInv, LogShape
<1>6. SweepInv' /\ LockInv'
  BY <1>1, <1>4 DEF LogInv, SweepInv, LockInv
<1>7. FreshInv'
  BY <1>1, <1>3 DEF LogInv, FreshInv
<1>8. TextInv'
  BY <1>1, <1>4 DEF LogInv, TextInv
<1>9. WrittenInv'
  BY <1>1, <1>3, LogTypes DEF LogInv, WrittenInv
<1> QED
  BY <1>5, <1>6, <1>7, <1>8, <1>9 DEF LogInv

LEMMA LogInitInv ==
  LogInit => LogInv
<1> SUFFICES ASSUME LogInit PROVE LogInv
  OBVIOUS
<1>1. /\ logPc = [w \in Writers |-> "idle"] /\ day = 1 /\ dated = [w \in Writers |-> 1]
      /\ handle = [w \in Writers |-> -1] /\ sweep = [w \in Writers |-> {}] /\ locked = [d \in Dates |-> 0]
  BY DEF LogInit
<1>2. 1 \in Dates /\ <<>> \in Seq(Marks)
  BY LogAssumption, EmptySeq DEF Dates
<1>3. /\ DOMAIN logs = Dates
      /\ \A d \in Dates : DOMAIN logs[d] = LogFields /\ logs[d].gen = 0 /\ logs[d].text = <<>>
  BY DEF LogInit, NoLog, OldLog, LogFields
<1>4. LogShape
  <2>1. /\ logPc \in [Writers -> LogPoints] /\ day \in Dates /\ dated \in [Writers -> Dates]
        /\ DOMAIN sweep = Writers /\ \A w \in Writers : dated[w] <= day
    BY <1>1, <1>2 DEF LogPoints
  <2>2. handle \in [Writers -> Int]
    <3>1. -1 \in Int
      OBVIOUS
    <3> QED
      BY <1>1, <3>1
  <2>3. locked \in [Dates -> Marks]
    BY <1>1 DEF Marks
  <2>4. LogFiles(logs)
    <3>1. ASSUME NEW d \in Dates
          PROVE  DOMAIN logs[d] = LogFields /\ logs[d].gen \in Nat /\ logs[d].text \in Seq(Marks)
      <4>1. logs[d].gen = 0 /\ logs[d].text = <<>> /\ DOMAIN logs[d] = LogFields
        BY <1>3
      <4>2. logs[d].gen \in Nat
        BY <4>1
      <4>3. logs[d].text \in Seq(Marks)
        BY <1>2, <4>1
      <4> QED
        BY <4>1, <4>2, <4>3
    <3> QED
      BY <1>3, <3>1 DEF LogFiles
  <2> QED
    BY <2>1, <2>2, <2>3, <2>4 DEF LogShape
<1>5. SweepInv /\ FreshInv
  BY <1>1, <1>2, <1>3 DEF SweepInv, FreshInv, Opened
<1>6. LockInv
  BY <1>1, LogAssumption DEF LockInv, InLine
<1>7. TextInv
  <2>1. (\A w \in Writers : ~LastIs(<<>>, w)) /\ OwnLines(<<>>, torn)
    BY EmptySeq DEF LastIs, OwnLines
  <2> QED
    BY <1>3, <2>1 DEF TextInv
<1>8. WrittenInv
  BY <1>1 DEF WrittenInv
<1> QED
  BY <1>4, <1>5, <1>6, <1>7, <1>8 DEF LogInv

\* However the writers of however many processes interleave, fail and crash, two records
\* share a line only after a writer that died or failed, and a record reported as written
\* stays in its log for as long as retention keeps it (write_best_effort, try_write,
\* acquire_lock, cleanup_old_logs).
THEOREM LogStaysIntact == LogSpec => []LogIntact
<1>1. LogInv /\ [LogNext]_logVars => LogInv'
  <2> SUFFICES ASSUME LogInv, [LogNext]_logVars PROVE LogInv'
    OBVIOUS
  <2>1. ASSUME NEW w \in Writers, Record(w) \/ try_write(w) PROVE LogInv'
    BY <2>1, RecordStep, CleanupStep, RemoveStep, OpenStep, AcquireStep, WriteSteps DEF try_write
  <2>2. ASSUME NEW p, CrashProcess(p) PROVE LogInv'
    BY <2>2, CrashStep
  <2>3. CASE NextDay
    BY <2>3, DayStep
  <2>4. CASE UNCHANGED logVars
    BY <2>4 DEF logVars, LogInv, LogShape, SweepInv, FreshInv, LockInv, TextInv, WrittenInv, Mine
  <2> QED
    BY <2>1, <2>2, <2>3, <2>4 DEF LogNext
<1>2. LogInv => LogIntact
  <2> SUFFICES ASSUME LogInv PROVE LogIntact
    OBVIOUS
  <2>1. \A d \in Dates : OwnLines(logs[d].text, torn)
    BY DEF LogInv, TextInv
  <2>2. \A w \in Writers : logPc[w] = "written" /\ dated[w] >= day - Retain => Holds(logs[dated[w]].text, w)
    BY DEF LogInv, WrittenInv
  <2> QED
    BY <2>1, <2>2 DEF LogIntact, OwnLines, Holds
<1> QED
  BY LogInitInv, <1>1, <1>2, PTL DEF LogSpec

=============================================================================
