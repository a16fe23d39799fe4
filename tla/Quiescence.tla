----------------------------- MODULE Quiescence -----------------------------
(***************************************************************************)
(* quiesce_transaction_blockers of the update helper                       *)
(* (ah_update_helper::process) over what the Restart Manager reports       *)
(* (::restart_manager).  Processes start, end and reuse process ids while  *)
(* the helper lists them, classifies them one by one, waits out the grace  *)
(* period and then terminates what belongs to this installation.           *)
(***************************************************************************)
EXTENDS Naturals, FiniteSets, Sequences

CONSTANTS
    Pids,              \* process ids the system hands out
    MaxBirths,         \* how many processes are started
    ListAttempts,      \* MAX_LIST_ATTEMPTS
    MaxBlocking,       \* MAX_BLOCKING_PROCESSES
    SessionAttempts    \* START_SESSION_ATTEMPTS

Images == {"own", "foreign", "hidden"}   \* whose executable; "hidden" cannot be inspected
Nobody == [start |-> 0, image |-> "own", holds |-> FALSE, dying |-> FALSE]

VARIABLES
    running,    \* the process with each pid; start 0 when there is none
    births,     \* start times handed out so far
    expired,    \* the grace period is over
    quietAt,    \* where the helper is
    capacity, tries,   \* the buffer offered to the Restart Manager
    listed,     \* the identities of the last observation: <<pid, start>>
    todo,       \* those still to be classified or terminated
    own,        \* those classified as this installation's
    second,     \* the inspection after the terminations
    killed      \* history: the processes the helper terminated

quietVars == <<running, births, expired, quietAt, capacity, tries, listed, todo, own, second, killed>>

Alive(p) == running[p].start # 0
Identity(p) == <<p, running[p].start>>
Blockers == {p \in Pids : Alive(p) /\ running[p].holds}

QuietInit ==
    /\ running = [p \in Pids |-> Nobody] /\ births = 0 /\ expired = FALSE
    /\ quietAt = "session" /\ capacity = 0 /\ tries = 0
    /\ listed = {} /\ todo = {} /\ own = {} /\ second = FALSE /\ killed = {}

-----------------------------------------------------------------------------
(* The system.                                                             *)

Born(p) ==
    /\ ~Alive(p) /\ births < MaxBirths /\ births' = births + 1
    /\ \E i \in Images, h \in BOOLEAN :
         running' = [running EXCEPT ![p] = [start |-> births + 1, image |-> i, holds |-> h, dying |-> FALSE]]
    /\ UNCHANGED <<expired, quietAt, capacity, tries, listed, todo, own, second, killed>>

Ends(p) ==
    /\ Alive(p) /\ running' = [running EXCEPT ![p] = Nobody]
    /\ UNCHANGED <<births, expired, quietAt, capacity, tries, listed, todo, own, second, killed>>

GraceOver ==
    /\ ~expired /\ expired' = TRUE
    /\ UNCHANGED <<running, births, quietAt, capacity, tries, listed, todo, own, second, killed>>

-----------------------------------------------------------------------------
(* restart_manager::inspect_blockers.                                      *)

\* start_session retries a write fault; registering the files follows.
StartSession ==
    /\ quietAt = "session" /\ quietAt' = "list" /\ capacity' = 0 /\ tries' = 0
    /\ UNCHANGED <<running, births, expired, listed, todo, own, second, killed>>

SessionRetry ==
    /\ quietAt = "session" /\ tries + 1 < SessionAttempts /\ tries' = tries + 1
    /\ UNCHANGED <<running, births, expired, quietAt, capacity, listed, todo, own, second, killed>>

SessionFails ==
    /\ quietAt = "session" /\ quietAt' = "error"
    /\ UNCHANGED <<running, births, expired, capacity, tries, listed, todo, own, second, killed>>

\* collect_blockers: RmGetList answers ERROR_MORE_DATA while the buffer is too small.
MoreData ==
    LET needed == Cardinality(Blockers) IN
    /\ quietAt = "list" /\ needed > capacity /\ tries < ListAttempts
    /\ IF needed > MaxBlocking
         THEN quietAt' = "error" /\ UNCHANGED <<capacity, tries>>
         ELSE capacity' = needed /\ tries' = tries + 1 /\ UNCHANGED quietAt
    /\ UNCHANGED <<running, births, expired, listed, todo, own, second, killed>>

Complete ==
    /\ quietAt = "list" /\ Cardinality(Blockers) <= capacity /\ tries < ListAttempts
    /\ listed' = {Identity(p) : p \in Blockers} /\ todo' = listed' /\ own' = {}
    /\ quietAt' = "classify" /\ tries' = 0
    /\ UNCHANGED <<running, births, expired, capacity, second, killed>>

ChangedTooOften ==
    /\ quietAt = "list" /\ tries = ListAttempts /\ quietAt' = "error"
    /\ UNCHANGED <<running, births, expired, capacity, tries, listed, todo, own, second, killed>>

-----------------------------------------------------------------------------
(* classify, reject_foreign and the loop of quiesce_with.                  *)

\* control.inspect by the identity the observation holds.
Inspect(id) ==
    LET p == running[id[1]] IN
    CASE p.start # id[2] -> "exited_or_reused"
      [] p.start = id[2] /\ p.image = "own" -> "same_installation"
      [] OTHER -> "foreign"

\* Mutant: a foreign blocker is skipped, not rejected.
ClassifySkipsForeign(id) ==
    /\ quietAt = "classify" /\ id \in todo /\ todo' = todo \ {id}
    /\ own' = IF Inspect(id) # "exited_or_reused" THEN own \cup {id} ELSE own
    /\ UNCHANGED <<running, births, expired, quietAt, capacity, tries, listed, second, killed>>

\* All identities are classified before a foreign one is rejected.
Classify(id) ==
    /\ quietAt = "classify" /\ id \in todo /\ todo' = todo \ {id}
    /\ own' = IF Inspect(id) = "same_installation" THEN own \cup {id} ELSE own
    /\ quietAt' = IF Inspect(id) = "foreign" THEN "rejecting" ELSE quietAt
    /\ UNCHANGED <<running, births, expired, capacity, tries, listed, second, killed>>

Reject ==
    /\ quietAt = "rejecting" /\ quietAt' = "error"
    /\ UNCHANGED <<running, births, expired, capacity, tries, listed, todo, own, second, killed>>

\* Mutant: what survives its termination is waited for again.
ClassifiedWaitsAgain ==
    /\ quietAt = "classify" /\ todo = {}
    /\ \/ own = {} /\ quietAt' = "quiet" /\ UNCHANGED <<todo, second>>
       \/ own # {} /\ ~expired /\ quietAt' = "session" /\ UNCHANGED <<todo, second>>
       \/ own # {} /\ expired /\ quietAt' = "terminate" /\ todo' = own /\ second' = TRUE
    /\ UNCHANGED <<running, births, expired, capacity, tries, listed, own, killed>>

Classified ==
    /\ quietAt = "classify" /\ todo = {}
    /\ \/ own = {} /\ quietAt' = "quiet" /\ UNCHANGED <<todo, second>>
       \/ own # {} /\ second /\ quietAt' = "error" /\ UNCHANGED <<todo, second>>
       \/ own # {} /\ ~second /\ ~expired /\ quietAt' = "session" /\ UNCHANGED <<todo, second>>
       \/ own # {} /\ ~second /\ expired /\ quietAt' = "terminate" /\ todo' = own /\ second' = TRUE
    /\ UNCHANGED <<running, births, expired, capacity, tries, listed, own, killed>>

\* Mutant: terminates by process id alone.
TerminateByPid(id) ==
    /\ quietAt = "terminate" /\ id \in todo /\ todo' = todo \ {id}
    /\ killed' = IF Alive(id[1]) THEN killed \cup {running[id[1]].image} ELSE killed
    /\ running' = [running EXCEPT ![id[1]].dying = Alive(id[1])]
    /\ UNCHANGED <<births, expired, quietAt, capacity, tries, listed, own, second>>

\* The start time is checked again on the handle that is terminated; the
\* process ends some time later.
Terminate(id) ==
    LET p == id[1] hit == running[p].start = id[2] IN
    /\ quietAt = "terminate" /\ id \in todo /\ todo' = todo \ {id}
    /\ killed' = IF hit THEN killed \cup {running[p].image} ELSE killed
    /\ running' = IF hit THEN [running EXCEPT ![p].dying = TRUE] ELSE running
    /\ UNCHANGED <<births, expired, quietAt, capacity, tries, listed, own, second>>

TerminateFails(id) ==
    /\ quietAt = "terminate" /\ id \in todo /\ running[id[1]].start = id[2] /\ quietAt' = "error"
    /\ UNCHANGED <<running, births, expired, capacity, tries, listed, todo, own, second, killed>>

\* Everything was asked to end: look once more.
InspectAgain ==
    /\ quietAt = "terminate" /\ todo = {} /\ quietAt' = "session"
    /\ UNCHANGED <<running, births, expired, capacity, tries, listed, todo, own, second, killed>>

System == GraceOver \/ \E p \in Pids : Born(p) \/ Ends(p)
HelperMoves ==
    \/ StartSession \/ SessionRetry \/ SessionFails \/ MoreData \/ Complete \/ ChangedTooOften
    \/ Reject \/ Classified \/ InspectAgain
    \/ \E id \in todo : Classify(id) \/ Terminate(id) \/ TerminateFails(id)

QuietNext == System \/ HelperMoves

\* The clock moves on and the helper is scheduled.
QuietSpec ==
    QuietInit /\ [][QuietNext]_quietVars /\ WF_quietVars(HelperMoves) /\ WF_quietVars(GraceOver)

-----------------------------------------------------------------------------
(* Properties.                                                             *)

\* Only processes of this installation are ever terminated, whatever happens to
\* process ids between the observation, the classification and the kill.
KillsOnlyOwn == killed \subseteq {"own"}

\* The helper reaches a verdict: no blocker keeps it waiting for ever.
QuiescenceEnds == <>(quietAt \in {"quiet", "error"})
=============================================================================
