------------------------- MODULE ExecutionLifecycle -------------------------
(***************************************************************************)
(* What the executor promises to its clients (the MCP session and the job  *)
(* registry), stated on the objects they hold: an ExecutionHandle, whose   *)
(* answer arrives once, and an ExecutionLifecycle, whose physical          *)
(* completion means that the slot and the request id are free again.       *)
(* Executor is shown to implement this specification.                      *)
(***************************************************************************)
EXTENDS Naturals, FiniteSets

CONSTANTS
  Exec,       \* calls of try_submit
  Ids,        \* request ids
  IdOf,       \* the id of each call
  MaxActive   \* execution slots

ASSUME LifecycleAssumption ==
  /\ IsFiniteSet(Exec)
  /\ IdOf \in [Exec -> Ids]
  /\ MaxActive \in Nat \ {0}

VARIABLES
  admitting,   \* FALSE once close has begun
  phase,       \* new, refused, live, released (slot free) or signalled
  answer       \* the one answer of the call, "none" until it is decided

lifecycleVars == <<admitting, phase, answer>>

Answers == {"success", "failure", "cancelled", "timed_out"}

Live == {e \in Exec : phase[e] = "live"}

LifecycleTypeOK ==
  /\ admitting \in BOOLEAN
  /\ phase \in [Exec -> {"new", "refused", "live", "released", "signalled"}]
  /\ answer \in [Exec -> Answers \cup {"none"}]

LifecycleInit ==
  /\ admitting = TRUE
  /\ phase = [e \in Exec |-> "new"]
  /\ answer = [e \in Exec |-> "none"]

\* try_submit returns an error.
Refuse(e) ==
  /\ phase[e] = "new"
  /\ phase' = [phase EXCEPT ![e] = "refused"]
  /\ UNCHANGED <<admitting, answer>>

\* try_submit returns a handle: there is a slot and the id is free.
Accept(e) ==
  /\ phase[e] = "new"
  /\ admitting
  /\ Cardinality(Live) < MaxActive
  /\ \A f \in Live : IdOf[f] # IdOf[e]
  /\ phase' = [phase EXCEPT ![e] = "live"]
  /\ UNCHANGED <<admitting, answer>>

\* The first of handler exit, deadline and cancellation decides the answer.
Decide(e) ==
  /\ phase[e] = "live"
  /\ answer[e] = "none"
  /\ \E a \in Answers : answer' = [answer EXCEPT ![e] = a]
  /\ UNCHANGED <<admitting, phase>>

\* Slot and id are given back, never before the answer is decided.
Release(e) ==
  /\ phase[e] = "live"
  /\ answer[e] # "none"
  /\ phase' = [phase EXCEPT ![e] = "released"]
  /\ UNCHANGED <<admitting, answer>>

\* wait_physical resolves.
Signal(e) ==
  /\ phase[e] = "released"
  /\ phase' = [phase EXCEPT ![e] = "signalled"]
  /\ UNCHANGED <<admitting, answer>>

StopAdmitting ==
  /\ admitting
  /\ admitting' = FALSE
  /\ UNCHANGED <<phase, answer>>

Advance(e) == Decide(e) \/ Release(e) \/ Signal(e)

LifecycleNext ==
  \/ StopAdmitting
  \/ \E e \in Exec : Refuse(e) \/ Accept(e) \/ Advance(e)

LifecycleSpec == LifecycleInit /\ [][LifecycleNext]_lifecycleVars
=============================================================================
