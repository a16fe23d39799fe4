------------------------------- MODULE EventLog -------------------------------
(***************************************************************************)
(* The event log.  Threads of several processes append one record each to  *)
(* the log of their record's day.  A record is redacted, bounded to one    *)
(* line and appended under an advisory lock that is waited for only        *)
(* briefly; the first record of a day in a process removes the logs that   *)
(* are past retention.  Everything is best effort: a record may be         *)
(* dropped, and a process may crash anywhere.                              *)
(*                                                                         *)
(* What the line of an event shows is a parameter: Redaction computes it.  *)
(***************************************************************************)
EXTENDS Integers, Sequences

CONSTANTS Writers,     \* the threads, one record each; 0 is not one
          ProcessOf,   \* [Writers -> process]
          Events,      \* Events[w]: what w may record
          LineOf(_),   \* what the line of an event shows
          BlankLine,   \* what a writer without a record shows
          Retain,      \* how many days before today a log is kept (9)
          MaxDay       \* the last day considered
ASSUME LogAssumption == 0 \notin Writers /\ Retain \in Nat /\ MaxDay \in Nat \ {0}

VARIABLES logPc,               \* each writer's place
          event,               \* each writer's event: kind "cli", "mcp" or "system"; argv or
                               \* args; failed, and told with message and cause; size "fits",
                               \* "compact", "minimal" or "never"; unredacted when its process
                               \* runs with AH_LOG_UNREDACTED=1
          day,                 \* today
          dated,               \* the day of each writer's record
          handle,              \* the generation of the file each writer has open
          cleaned,             \* the day each process last cleaned up on
          sweep,               \* the old logs each writer is about to remove
          logs,                \* each day's log: [there, regular, gen, text]
          locked,              \* who holds the lock of each day's file; 0 for nobody
          line,                \* what each writer's record shows
          torn                 \* the writers that crashed or failed before their newline

logVars == <<logPc, event, day, dated, handle, cleaned, sweep, logs, locked, line, torn>>
Dates == 1..MaxDay

-----------------------------------------------------------------------------
(* Writing it.                                                             *)

LogGoto(w, where) == logPc' = [logPc EXCEPT ![w] = where]
\* write_best_effort: a record that fits no line is dropped.
Record(w) ==
  /\ logPc[w] = "idle"
  /\ dated' = [dated EXCEPT ![w] = day]
  /\ IF event[w].size = "never" THEN LogGoto(w, "dropped") /\ UNCHANGED line
     ELSE /\ LogGoto(w, "clean")
          /\ line' = [line EXCEPT ![w] = LineOf(event[w])]
  /\ UNCHANGED <<event, day, handle, cleaned, sweep, logs, locked, torn>>

\* cleanup_old_logs: the regular files named for a day before the oldest retained one.
cleanup_old_logs(date) == {d \in Dates : logs[d].there /\ logs[d].regular /\ d < date - Retain}

\* cleanup_once, when the directory is there: the day is noted before the logs are removed, one by one.
cleanup_once(w) ==
  LET p == ProcessOf[w]
      old == IF cleaned[p] = dated[w] THEN {} ELSE cleanup_old_logs(dated[w])
  IN /\ logPc[w] = "clean"
     /\ \/ /\ cleaned' = [cleaned EXCEPT ![p] = dated[w]] /\ sweep' = [sweep EXCEPT ![w] = old]
           /\ LogGoto(w, IF old = {} THEN "open" ELSE "sweep")
        \/ LogGoto(w, "dropped") /\ UNCHANGED <<cleaned, sweep>>
     /\ UNCHANGED <<event, day, dated, handle, logs, locked, line, torn>>
\* What cannot be removed, and what is gone, is passed over.  The lock goes with the file.
RemoveOld(w) ==
  /\ logPc[w] = "sweep"
  /\ \E d \in sweep[w] :
       /\ sweep' = [sweep EXCEPT ![w] = @ \ {d}]
       /\ LogGoto(w, IF sweep[w] = {d} THEN "open" ELSE "sweep")
       /\ \/ UNCHANGED <<logs, locked>>
          \/ /\ logs[d].there
             /\ logs' = [logs EXCEPT ![d].there = FALSE, ![d].gen = @ + 1, ![d].text = <<>>]
             /\ locked' = [locked EXCEPT ![d] = 0]
  /\ UNCHANGED <<event, day, dated, handle, cleaned, line, torn>>

\* Anything but a regular file is refused; the file is created when missing.  An error, before or
\* after that, drops the record.
OpenLog(w) ==
  LET d == dated[w]
  IN /\ logPc[w] = "open"
     /\ \/ LogGoto(w, "dropped") /\ UNCHANGED <<handle, logs>>
        \/ /\ logs[d].there => logs[d].regular
           /\ logs' = [logs EXCEPT ![d].there = TRUE]
           /\ handle' = [handle EXCEPT ![w] = logs[d].gen]
           /\ \E where \in {"lock", "dropped"} : LogGoto(w, where)
     /\ UNCHANGED <<event, day, dated, cleaned, sweep, locked, line, torn>>

\* Whether the file that w has open is still the log of its day.
Mine(w) == handle[w] = logs[dated[w]].gen
\* Mutant: the line is written whether or not the lock was taken in time.
acquire_lockIgnored(w) ==
  /\ logPc[w] = "lock"
  /\ LogGoto(w, "line")
  /\ UNCHANGED <<event, day, dated, handle, cleaned, sweep, logs, locked, line, torn>>

\* A lock somebody else holds is retried for fifty milliseconds, then the record is dropped, as it is
\* when the lock cannot be asked for.
acquire_lock(w) ==
  /\ logPc[w] = "lock"
  /\ \/ /\ Mine(w) => locked[dated[w]] = 0
        /\ locked' = IF Mine(w) THEN [locked EXCEPT ![dated[w]] = w] ELSE locked
        /\ LogGoto(w, "line")
     \/ LogGoto(w, "dropped") /\ UNCHANGED locked
  /\ UNCHANGED <<event, day, dated, handle, cleaned, sweep, logs, line, torn>>

Appended(w, what) ==
  IF Mine(w) THEN [logs EXCEPT ![dated[w]].text = Append(@, what)] ELSE logs
LockDropped(w) ==
  IF Mine(w) /\ locked[dated[w]] = w THEN [locked EXCEPT ![dated[w]] = 0] ELSE locked

\* The line and the newline are two writes.  Either may fail: the line half way, the newline
\* before anything is written.  The lock is given back in any case.
WriteLine(w) ==
  /\ logPc[w] = "line" /\ logs' = Appended(w, w)
  /\ \/ LogGoto(w, "newline") /\ UNCHANGED <<locked, torn>>
     \/ LogGoto(w, "dropped") /\ torn' = torn \cup {w} /\ locked' = LockDropped(w)
  /\ UNCHANGED <<event, day, dated, handle, cleaned, sweep, line>>
WriteNewline(w) ==
  /\ logPc[w] = "newline" /\ locked' = LockDropped(w)
  /\ \/ logs' = Appended(w, 0) /\ LogGoto(w, "written") /\ UNCHANGED torn
     \/ torn' = torn \cup {w} /\ LogGoto(w, "dropped") /\ UNCHANGED logs
  /\ UNCHANGED <<event, day, dated, handle, cleaned, sweep, line>>

\* The process dies while one of its threads removes logs or writes; the system releases its locks.
CrashProcess(p) ==
  LET mine == {w \in Writers : ProcessOf[w] = p}
  IN /\ \E w \in mine : logPc[w] \in {"sweep", "line", "newline"}
     /\ logPc' = [w \in Writers |-> IF w \in mine /\ logPc[w] # "written" THEN "crashed" ELSE logPc[w]]
     /\ torn' = torn \cup {w \in mine : logPc[w] = "newline"}
     /\ locked' = [d \in Dates |-> IF locked[d] \in mine THEN 0 ELSE locked[d]]
     /\ UNCHANGED <<event, day, dated, handle, cleaned, sweep, logs, line>>

NextDay ==
  /\ day < MaxDay
  /\ day' = day + 1
  /\ UNCHANGED <<logPc, event, dated, handle, cleaned, sweep, logs, locked, line, torn>>

OldLog == [there |-> TRUE, regular |-> TRUE, gen |-> 0, text |-> <<>>]
NoLog == [there |-> FALSE, regular |-> TRUE, gen |-> 0, text |-> <<>>]
LogInit ==
  /\ logPc = [w \in Writers |-> "idle"]
  /\ event \in {f \in [Writers -> UNION {Events[w] : w \in Writers}] : \A w \in Writers : f[w] \in Events[w]}
  /\ day = 1 /\ dated = [w \in Writers |-> 1] /\ handle = [w \in Writers |-> -1]
  /\ cleaned = [p \in {ProcessOf[w] : w \in Writers} |-> 0] /\ sweep = [w \in Writers |-> {}]
  /\ logs \in {[d \in Dates |-> NoLog], [d \in Dates |-> IF d = 2 THEN [OldLog EXCEPT !.regular = FALSE] ELSE NoLog]}
  /\ locked = [d \in Dates |-> 0]
  /\ line = [w \in Writers |-> BlankLine] /\ torn = {}
try_write(w) ==
  cleanup_once(w) \/ RemoveOld(w) \/ OpenLog(w) \/ acquire_lock(w) \/ WriteLine(w) \/ WriteNewline(w)
LogNext ==
  \/ \E w \in Writers : Record(w) \/ try_write(w)
  \/ \E p \in {ProcessOf[w] : w \in Writers} : CrashProcess(p)
  \/ NextDay
LogSpec == LogInit /\ [][LogNext]_logVars

-----------------------------------------------------------------------------
(* Properties.                                                             *)

\* Two records share a line only when the first one's writer died or failed before its
\* newline (try_write), and a record reported as written is in its day's log for as long as
\* the retention keeps that log (cleanup_old_logs).
LogIntact ==
  /\ \A d \in Dates : \A i \in 1..(Len(logs[d].text) - 1) :
       logs[d].text[i] # 0 /\ logs[d].text[i + 1] # 0 => logs[d].text[i] \in torn
  /\ \A w \in Writers :
       logPc[w] = "written" /\ dated[w] >= day - Retain =>
         \E i \in DOMAIN logs[dated[w]].text : logs[dated[w]].text[i] = w
=============================================================================
