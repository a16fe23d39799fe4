----------------------------- MODULE PostgresTool -----------------------------
(***************************************************************************)
(* The PostgreSQL plugin: several `ah` processes share one tool cache.     *)
(* Each one answers one command.  A tool command downloads, selects or     *)
(* removes the managed psql; every other command finds an acceptable psql  *)
(* (downloading it when allowed to) and runs its statements through it.    *)
(*                                                                         *)
(* The cache holds, for each version it can download, the lock file, the   *)
(* archive being downloaded (one path for all processes), the version      *)
(* directory, and a temporary directory per process.  A directory is       *)
(* removed file by file, which may fail or stop half-way.  A process may   *)
(* crash anywhere.  A request is a record                                  *)
(*   cmd, yes, analyze, sql, found   the command and its arguments         *)
(*   path, env, ensure, force        --tool-path, AH_POSTGRES_TOOL_PATH,   *)
(*                                   --ensure-tool, --force                *)
(*   version                         --version of download and cleanup     *)
(***************************************************************************)
EXTENDS Integers, Sequences, FiniteSets

CONSTANTS PgProcs,        \* the processes, one command each
          PgStarts,       \* what they are asked and the cache they find: [asks, dirs, config]
          SystemTool,     \* the psql on PATH: "none", "old" or "good"
          MaxCrashes      \* how many processes may crash

VARIABLES pgAsk,    \* what each process is asked
          pgPc,     \* where each process is
          pgLock,   \* the lock file of each version: [by, old]; by = 0 when there is none
          pgArchive,\* the archive of each version: "none", "partial", "good" or "mixed"
          pgDirs,   \* the directories of the cache: [there, files, from, cut]
          pgSweep,  \* the directories a cleanup has found and not done with
          pgConfig, \* the configured tool path: "none", "good", "bad"
          pgUsed,   \* the tool a process runs: its source
          pgRuns,   \* each process's psql sessions: were they read-only?
          pgAnswer, \* each process's answer; "none" until it has one
          pgRobbed, \* the versions whose lock was removed as stale under a live download
          pgCrashes

pgVars == <<pgAsk, pgPc, pgLock, pgArchive, pgDirs, pgSweep, pgConfig, pgUsed, pgRuns,
            pgAnswer, pgRobbed, pgCrashes>>

(* The commands and what a request says.                                   *)
ToolCommand == {"status", "download", "use", "cleanup"}
PostgresCommand ==
  ToolCommand \cup {"ping", "info", "databases", "schemas", "relations", "describe", "indexes",
                   "extensions", "query", "exec", "explain", "activity", "locks", "size", "settings"}
PathKinds == {"none", "good", "bad"}
SqlKinds == {"read", "write", "empty", "both", "neither", "unreadable", "badname"}
VaultKinds == {"none", "good", "kind", "incomplete"}
\* "other" is a version there is no archive of, "outside" a path that leaves the cache.
Versions == {"18.6", "18.4"}
VersionArgs == {"none", "other", "outside"} \cup Versions
PostgresCli ==
  [cmd : PostgresCommand, yes : BOOLEAN, analyze : BOOLEAN, sql : SqlKinds, found : BOOLEAN,
   path : PathKinds, env : PathKinds, ensure : BOOLEAN, force : BOOLEAN, version : VersionArgs,
   vault : VaultKinds, passwordEnv : BOOLEAN]

\* The directories of the cache.  `from` is what this run's downloads put there, `cut` says
\* that files were removed from it.
Version(v) == <<"version", v>>
Temp(p) == <<"temp", p>>
Places == {Version(v) : v \in Versions} \cup {Temp(p) : p \in PgProcs}
Tools == {"dll", "psql"}
DirOf(files, from, shortened) ==
  [there |-> TRUE, files |-> files, from |-> from, cut |-> shortened]
Absent == [there |-> FALSE, files |-> {}, from |-> "none", cut |-> FALSE]

\* The configuration file keeps one path; the tool it names may have gone bad.  A lock file by
\* 0 is none, so no process is 0.  Nothing in the cache at the start is of this run's downloads.
read_tool_config == {"none", "bad"}
ASSUME PgAssumption ==
  /\ 0 \notin PgProcs
  /\ \A start \in PgStarts :
       /\ start.asks \in [PgProcs -> PostgresCli]
       /\ start.dirs \in [Places -> {Absent} \cup {DirOf(files, "none", TRUE) : files \in SUBSET Tools}]
       /\ start.config \in read_tool_config

\* A tool command has no connection, no credential and never downloads on its own.
typed_cli(a) ==
  IF a.cmd \in ToolCommand
  THEN [a EXCEPT !.ensure = FALSE, !.vault = "none", !.passwordEnv = FALSE] ELSE a

LockBy(p, old) == [by |-> p, old |-> old]
NoLock == LockBy(0, FALSE)
\* The version a process downloads: the one named, the current one for --ensure-tool.
wanted(p) == IF pgAsk[p].cmd = "download" /\ pgAsk[p].version = "18.4" THEN "18.4" ELSE "18.6"

-----------------------------------------------------------------------------
(* Which psql.                                                             *)

Candidate(source, ok) == [source |-> source, accepted |-> ok]
\* psql --version runs, so everything psql needs is there, and it is new enough.
evaluate_candidate(dir) == dir.there /\ dir.files = Tools
resolve_psql_path(path) == path = "good"
is_explicit_intent(source) == source \in {"explicit", "env", "configured"}

Managed(v) ==
  IF pgDirs[Version(v)].there THEN <<Candidate("managed", evaluate_candidate(pgDirs[Version(v)]))>>
  ELSE <<>>
find_psql_in_path == IF SystemTool = "none" THEN <<>> ELSE <<Candidate("system", SystemTool = "good")>>
\* An explicit path, then the one of the environment, then the configured one, stands alone;
\* otherwise the managed directories that exist, newest first, and PATH.
inspect_tool_candidates(a) ==
  CASE a.path # "none" -> <<Candidate("explicit", resolve_psql_path(a.path))>>
    [] a.path = "none" /\ a.env # "none" -> <<Candidate("env", resolve_psql_path(a.env))>>
    [] a.path = "none" /\ a.env = "none" /\ pgConfig # "none"
         -> <<Candidate("configured", resolve_psql_path(pgConfig))>>
    [] OTHER -> Managed("18.6") \o Managed("18.4") \o find_psql_in_path

Accepted(cs) == {i \in DOMAIN cs : cs[i].accepted}
First(S) == CHOOSE i \in S : \A j \in S : i <= j
\* resolve_operational_tool: a tool, a download to make, or the refusal.
resolve_operational_tool(a) ==
  LET cs == inspect_tool_candidates(a)
  IN CASE cs # <<>> /\ is_explicit_intent(cs[1].source) /\ ~cs[1].accepted -> "missing"
       [] Accepted(cs) # {} -> cs[First(Accepted(cs))].source
       [] OTHER -> IF a.ensure THEN "download" ELSE "missing"

-----------------------------------------------------------------------------
(* What each command runs: a refusal or its psql sessions, each with       *)
(* whether the connection is opened read-only.                             *)

Sessions(s) == [code |-> "none", runs |-> s]
PgRefused(code) == [code |-> code, runs |-> <<>>]
OneRead == Sessions(<<TRUE>>)

resolve_sql(a, todo) ==
  CASE a.sql \in {"both", "neither"} -> PgRefused("INVALID_ARGUMENT")
    [] a.sql = "unreadable" -> PgRefused("FILE_READ_FAILED")
    [] OTHER -> todo
read_only_query_sql(a, todo) ==
  CASE a.sql = "empty" -> PgRefused("INVALID_ARGUMENT")
    [] a.sql = "write" -> PgRefused("POSTGRES_QUERY_NOT_READ_ONLY")
    [] OTHER -> todo

execute_ping == OneRead
execute_info == OneRead
execute_databases == OneRead
execute_schemas == OneRead
execute_relations == OneRead
\* The relation, its columns, its indexes, its constraints: four sessions.
execute_describe(a) ==
  CASE a.sql = "badname" -> PgRefused("INVALID_ARGUMENT")
    [] OTHER -> Sessions(IF a.found THEN <<TRUE, TRUE, TRUE, TRUE>> ELSE <<TRUE>>)
list_indexes == OneRead
execute_extensions == OneRead
execute_query(a) == resolve_sql(a, read_only_query_sql(a, OneRead))
execute_exec(a) ==
  IF ~a.yes THEN PgRefused("CONFIRMATION_REQUIRED") ELSE resolve_sql(a, Sessions(<<FALSE>>))
\* Mutant: EXPLAIN ANALYZE runs the statement without a confirmation.
execute_explainUnconfirmed(a) ==
  resolve_sql(a, IF a.sql = "empty" THEN PgRefused("INVALID_ARGUMENT") ELSE Sessions(<<~a.analyze>>))

execute_explain(a) ==
  IF a.analyze /\ ~a.yes THEN PgRefused("CONFIRMATION_REQUIRED")
  ELSE resolve_sql(a, IF a.sql = "empty" THEN PgRefused("INVALID_ARGUMENT")
                      ELSE Sessions(<<~a.analyze>>))
execute_activity == OneRead
execute_locks == OneRead
execute_size(a) == IF a.sql = "badname" THEN PgRefused("INVALID_ARGUMENT") ELSE OneRead
execute_settings == OneRead

statements(a) ==
  CASE a.cmd = "ping"       -> execute_ping
    [] a.cmd = "info"       -> execute_info
    [] a.cmd = "databases"  -> execute_databases
    [] a.cmd = "schemas"    -> execute_schemas
    [] a.cmd = "relations"  -> execute_relations
    [] a.cmd = "describe"   -> execute_describe(a)
    [] a.cmd = "indexes"    -> list_indexes
    [] a.cmd = "extensions" -> execute_extensions
    [] a.cmd = "query"      -> execute_query(a)
    [] a.cmd = "exec"       -> execute_exec(a)
    [] a.cmd = "explain"    -> execute_explain(a)
    [] a.cmd = "activity"   -> execute_activity
    [] a.cmd = "locks"      -> execute_locks
    [] a.cmd = "size"       -> execute_size(a)
    [] OTHER                -> execute_settings

-----------------------------------------------------------------------------
(* The steps of a process.                                                 *)

PgGoto(p, where) == pgPc' = [pgPc EXCEPT ![p] = where]
PgFinish(p, code) ==
  /\ pgAnswer' = [pgAnswer EXCEPT ![p] = code]
  /\ PgGoto(p, "over")
cacheVars == <<pgArchive, pgDirs>>

\* A database credential is bound before anything else: a mismatch ends the command here.
bind_resolved_database_connection(a) ==
  CASE a.vault # "none" /\ a.passwordEnv -> "INVALID_ARGUMENT"
    [] a.vault = "kind" /\ ~a.passwordEnv -> "SECRET_KIND_MISMATCH"
    [] a.vault = "incomplete" /\ ~a.passwordEnv -> "SECRET_REQUIRED"
    [] OTHER -> "none"

\* The file is written in place: a write that fails may leave nothing that can be read,
\* which is no path.
write_tool_config(p, path) ==
  \/ PgFinish(p, "ok") /\ pgConfig' = path
  \/ PgFinish(p, "POSTGRES_TOOL_CONFIG_FAILED") /\ pgConfig' \in {pgConfig, "none"}

\* execute_tool's commands, or the tool of any other; the first step of each.  A cleanup
\* takes the version named, if it is there, or every directory.
TargetsOf(a) ==
  LET named == IF a.version \in Versions THEN {Version(a.version)} ELSE {}
  IN {place \in IF a.version = "none" THEN Places ELSE named : pgDirs[place].there}
StartTool(p, a) ==
  CASE a.cmd = "status" -> PgFinish(p, "ok") /\ UNCHANGED <<pgConfig, pgSweep>>
    [] a.cmd = "use" ->
         /\ UNCHANGED pgSweep
         /\ IF resolve_psql_path(a.path) THEN write_tool_config(p, a.path)
            ELSE PgFinish(p, "POSTGRES_TOOL_UNAVAILABLE") /\ UNCHANGED pgConfig
    [] a.cmd = "download" ->
         /\ UNCHANGED <<pgConfig, pgSweep>>
         /\ IF a.version \in {"other", "outside"} THEN PgFinish(p, "POSTGRES_TOOL_DOWNLOAD_UNSUPPORTED")
            ELSE PgGoto(p, "lock") /\ UNCHANGED pgAnswer
    [] OTHER ->
         /\ UNCHANGED pgConfig
         /\ IF a.version = "outside" THEN PgFinish(p, "POSTGRES_TOOL_CLEANUP_FAILED") /\ UNCHANGED pgSweep
            ELSE /\ PgGoto(p, "cleanup") /\ UNCHANGED pgAnswer
                 /\ pgSweep' = [pgSweep EXCEPT ![p] = TargetsOf(a)]
StartQuery(p, tool) ==
  CASE tool = "missing"  -> PgFinish(p, "POSTGRES_TOOL_UNAVAILABLE") /\ UNCHANGED pgUsed
    [] tool = "download" -> PgGoto(p, "lock") /\ UNCHANGED <<pgUsed, pgAnswer>>
    [] OTHER -> /\ PgGoto(p, "run") /\ UNCHANGED pgAnswer
                /\ pgUsed' = [pgUsed EXCEPT ![p] = tool]

Start(p) ==
  LET a == typed_cli(pgAsk[p])
      bound == bind_resolved_database_connection(a)
  IN /\ pgPc[p] = "start"
     /\ CASE bound # "none" -> PgFinish(p, bound) /\ UNCHANGED <<pgUsed, pgConfig, pgSweep>>
          [] bound = "none" /\ a.cmd \in ToolCommand -> StartTool(p, a) /\ UNCHANGED pgUsed
          [] OTHER -> StartQuery(p, resolve_operational_tool(a)) /\ UNCHANGED <<pgConfig, pgSweep>>
     /\ UNCHANGED <<pgAsk, pgLock, cacheVars, pgRuns, pgRobbed, pgCrashes>>

\* acquire_download_lock.  The file is created only if it is not there; one older than
\* thirty minutes is removed and the creation tried again; the wait is bounded, and the
\* creation may fail for a reason of its own.
LockTo(p, lock) == pgLock' = [pgLock EXCEPT ![wanted(p)] = lock]
acquire_download_lock(p) ==
  /\ pgPc[p] = "lock"
  /\ \/ /\ pgLock[wanted(p)].by = 0
        /\ LockTo(p, LockBy(p, FALSE))
        /\ PgGoto(p, "check") /\ UNCHANGED pgAnswer
     \/ /\ pgLock[wanted(p)].by # 0 /\ pgLock[wanted(p)].old
        /\ PgGoto(p, "steal") /\ UNCHANGED <<pgLock, pgAnswer>>
     \/ PgFinish(p, "POSTGRES_TOOL_DOWNLOAD_FAILED") /\ UNCHANGED pgLock
  /\ UNCHANGED <<pgAsk, cacheVars, pgSweep, pgConfig, pgUsed, pgRuns, pgRobbed, pgCrashes>>

\* The stale file is removed by name, whatever stands there by now, or cannot be removed,
\* which is not looked at.
Downloading == {"check", "fetch", "hash", "clear", "extract", "unpack", "publish", "replace", "move"}
DownloadsOf(v) == {p \in PgProcs : pgPc[p] \in Downloading /\ wanted(p) = v}
lock_is_stale(p) ==
  /\ pgPc[p] = "steal"
  /\ \/ /\ LockTo(p, NoLock)
        /\ pgRobbed' = IF DownloadsOf(wanted(p)) # {} THEN pgRobbed \cup {wanted(p)} ELSE pgRobbed
     \/ UNCHANGED <<pgLock, pgRobbed>>
  /\ PgGoto(p, "lock")
  /\ UNCHANGED <<pgAsk, cacheVars, pgSweep, pgConfig, pgUsed, pgRuns, pgAnswer, pgCrashes>>

\* Dropping the lock removes the file by name as well.
DownloadLockDrop(p) == LockTo(p, NoLock)
Fails(p, code) == PgFinish(p, code) /\ DownloadLockDrop(p)
GoesTo(p, where) == PgGoto(p, where) /\ UNCHANGED <<pgLock, pgAnswer>>
AfterDownload(p) ==
  /\ IF pgAsk[p].cmd = "download" THEN PgFinish(p, "ok") ELSE PgGoto(p, "again") /\ UNCHANGED pgAnswer
  /\ DownloadLockDrop(p)
aside == <<pgAsk, pgSweep, pgConfig, pgUsed, pgRuns, pgRobbed, pgCrashes>>

\* Under the lock: a managed tool that works already is the answer unless forced.
CheckCache(p) ==
  /\ pgPc[p] = "check"
  /\ IF evaluate_candidate(pgDirs[Version(wanted(p))]) /\ ~pgAsk[p].force
     THEN AfterDownload(p) ELSE GoesTo(p, "fetch")
  /\ UNCHANGED <<cacheVars, aside>>

\* download_archive, in two steps: the file is created (truncating what is there), the
\* body is written and hashed as it arrives.  The digest is of the bytes received.
ArchiveTo(p, content) == pgArchive' = [pgArchive EXCEPT ![wanted(p)] = content]
FetchArchive(p) ==
  /\ pgPc[p] = "fetch"
  /\ \/ ArchiveTo(p, "partial") /\ GoesTo(p, "hash")
     \/ Fails(p, "POSTGRES_TOOL_DOWNLOAD_FAILED") /\ UNCHANGED pgArchive
  /\ UNCHANGED <<pgDirs, aside>>

\* Mutant: the digest is computed and not compared.
download_archiveUnchecked(p) ==
  /\ pgPc[p] = "hash"
  /\ \/ \E content \in {"good", "mixed"} : ArchiveTo(p, content) /\ GoesTo(p, "clear")
     \/ Fails(p, "POSTGRES_TOOL_DOWNLOAD_FAILED") /\ UNCHANGED pgArchive
  /\ UNCHANGED <<pgDirs, aside>>

OthersWriting(p) == \E q \in PgProcs \ {p} : pgPc[q] = "hash" /\ wanted(q) = wanted(p)
Received(p) == IF OthersWriting(p) \/ pgArchive[wanted(p)] # "partial" THEN "mixed" ELSE "good"
download_archive(p) ==
  /\ pgPc[p] = "hash"
  /\ \/ ArchiveTo(p, Received(p)) /\ GoesTo(p, "clear")
     \/ ArchiveTo(p, "none") /\ Fails(p, "POSTGRES_TOOL_CHECKSUM_FAILED")
     \/ Fails(p, "POSTGRES_TOOL_DOWNLOAD_FAILED") /\ UNCHANGED pgArchive
  /\ UNCHANGED <<pgDirs, aside>>

\* remove_cache_dir: fs::remove_dir_all takes the files one by one, then the directory.
DirTo(place, dir) == pgDirs' = [pgDirs EXCEPT ![place] = dir]
TakesFile(place) ==
  \E f \in pgDirs[place].files : DirTo(place, DirOf(pgDirs[place].files \ {f}, pgDirs[place].from, TRUE))
TakesDir(place) == pgDirs[place].there /\ pgDirs[place].files = {} /\ DirTo(place, Absent)

\* A temporary directory of an earlier process with this id goes, then it is made anew.
ClearTemp(p) ==
  /\ pgPc[p] = "clear"
  /\ \/ TakesFile(Temp(p)) /\ GoesTo(p, "clear")
     \/ pgDirs[Temp(p)].files = {} /\ DirTo(Temp(p), DirOf({}, "none", FALSE)) /\ GoesTo(p, "extract")
     \/ /\ \E code \in {"POSTGRES_TOOL_CLEANUP_FAILED", "POSTGRES_TOOL_EXTRACT_FAILED"} : Fails(p, code)
        /\ UNCHANGED pgDirs
  /\ UNCHANGED <<pgArchive, aside>>

\* extract_archive: one file at a time into the process's own directory, whose parents are
\* created again as needed.  A torn archive may fail or yield something that is not psql's.
Unpacked(dir, f, archive) ==
  DirOf(dir.files \cup {f}, IF dir.from \in {"none", archive} THEN archive ELSE "mixed",
        dir.cut \/ ~dir.there)
extract_archive(p) ==
  LET f == IF pgPc[p] = "extract" THEN "dll" ELSE "psql"
      archive == pgArchive[wanted(p)]
  IN /\ pgPc[p] \in {"extract", "unpack"}
     /\ \/ /\ archive \in {"good", "mixed"}
           /\ DirTo(Temp(p), Unpacked(pgDirs[Temp(p)], f, archive))
           /\ GoesTo(p, IF pgPc[p] = "extract" THEN "unpack" ELSE "publish")
        \/ Fails(p, "POSTGRES_TOOL_EXTRACT_FAILED") /\ UNCHANGED pgDirs
     /\ UNCHANGED <<pgArchive, aside>>

CheckUnpacked(p) ==
  /\ pgPc[p] = "publish"
  /\ IF "psql" \in pgDirs[Temp(p)].files THEN GoesTo(p, "replace")
     ELSE Fails(p, "POSTGRES_TOOL_EXTRACT_FAILED")
  /\ UNCHANGED <<cacheVars, aside>>

\* The version directory goes, then the temporary one takes its place.
RemoveOld(p) ==
  LET place == Version(wanted(p))
  IN /\ pgPc[p] = "replace"
     /\ \/ ~pgDirs[place].there /\ GoesTo(p, "move") /\ UNCHANGED pgDirs
        \/ TakesFile(place) /\ GoesTo(p, "replace")
        \/ TakesDir(place) /\ GoesTo(p, "move")
        \/ pgDirs[place].there /\ Fails(p, "POSTGRES_TOOL_CLEANUP_FAILED") /\ UNCHANGED pgDirs
     /\ UNCHANGED <<pgArchive, aside>>

MoveNew(p) ==
  LET place == Version(wanted(p))
  IN /\ pgPc[p] = "move"
     /\ \/ /\ pgDirs[Temp(p)].there /\ ~pgDirs[place].there
           /\ pgDirs' = [pgDirs EXCEPT ![place] = pgDirs[Temp(p)], ![Temp(p)] = Absent]
           /\ ArchiveTo(p, "none")
           /\ AfterDownload(p)
        \/ Fails(p, "POSTGRES_TOOL_EXTRACT_FAILED") /\ UNCHANGED cacheVars
     /\ UNCHANGED aside

\* After --ensure-tool's download the candidates are inspected again.
ResolveAgain(p) ==
  LET cs == inspect_tool_candidates(pgAsk[p])
  IN /\ pgPc[p] = "again"
     /\ IF Accepted(cs) # {}
        THEN /\ PgGoto(p, "run") /\ UNCHANGED pgAnswer
             /\ pgUsed' = [pgUsed EXCEPT ![p] = cs[First(Accepted(cs))].source]
        ELSE PgFinish(p, "POSTGRES_TOOL_UNAVAILABLE") /\ UNCHANGED pgUsed
     /\ UNCHANGED <<pgAsk, pgLock, cacheVars, pgSweep, pgConfig, pgRuns, pgRobbed, pgCrashes>>

\* run_psql_capture: the next session; a failed one ends the command.
run_psql_capture(p) ==
  LET todo == statements(pgAsk[p])
      next == Len(pgRuns[p]) + 1
  IN /\ pgPc[p] = "run"
     /\ IF todo.code # "none" THEN PgFinish(p, todo.code) /\ UNCHANGED pgRuns
        ELSE /\ pgRuns' = [pgRuns EXCEPT ![p] = Append(@, todo.runs[next])]
             /\ \/ PgFinish(p, "POSTGRES_PSQL_FAILED")
                \/ PgFinish(p, "POSTGRES_RESPONSE_INVALID")
                \/ IF next = Len(todo.runs)
                   THEN PgFinish(p, IF pgAsk[p].cmd = "describe" /\ ~pgAsk[p].found
                                    THEN "POSTGRES_OBJECT_NOT_FOUND" ELSE "ok")
                   ELSE UNCHANGED <<pgPc, pgAnswer>>
     /\ UNCHANGED <<pgAsk, pgLock, cacheVars, pgSweep, pgConfig, pgUsed, pgRobbed, pgCrashes>>

\* execute_tool_cleanup removes the directories it found, temporary ones of a download
\* included, and takes no lock.  One that went meanwhile is passed over or an error.
execute_tool_cleanup(p) ==
  /\ pgPc[p] = "cleanup"
  /\ \/ pgSweep[p] = {} /\ PgFinish(p, "ok") /\ UNCHANGED <<pgDirs, pgSweep>>
     \/ \E place \in pgSweep[p] :
          /\ UNCHANGED <<pgPc, pgAnswer>>
          /\ \/ TakesFile(place) /\ UNCHANGED pgSweep
             \/ /\ IF pgDirs[place].there THEN TakesDir(place) ELSE UNCHANGED pgDirs
                /\ pgSweep' = [pgSweep EXCEPT ![p] = @ \ {place}]
     \/ PgFinish(p, "POSTGRES_TOOL_CLEANUP_FAILED") /\ UNCHANGED <<pgDirs, pgSweep>>
  /\ UNCHANGED <<pgAsk, pgLock, pgArchive, pgConfig, pgUsed, pgRuns, pgRobbed, pgCrashes>>

CrashDownload(p) ==
  /\ pgPc[p] \in Downloading \cup {"steal", "cleanup"}
  /\ pgCrashes < MaxCrashes
  /\ pgCrashes' = pgCrashes + 1
  /\ PgGoto(p, "crashed")
  /\ UNCHANGED <<pgAsk, pgLock, cacheVars, pgSweep, pgConfig, pgUsed, pgRuns, pgAnswer, pgRobbed>>

\* Thirty minutes pass: a lock nobody will drop is old, and so is one of a slow download,
\* whose timeout starts anew with every read.
LockAges(v) ==
  /\ pgLock[v].by # 0 /\ ~pgLock[v].old
  /\ pgLock' = [pgLock EXCEPT ![v] = LockBy(pgLock[v].by, TRUE)]
  /\ UNCHANGED <<pgAsk, pgPc, cacheVars, pgSweep, pgConfig, pgUsed, pgRuns, pgAnswer, pgRobbed, pgCrashes>>

PgInit ==
  /\ \E start \in PgStarts : pgAsk = start.asks /\ pgDirs = start.dirs /\ pgConfig = start.config
  /\ pgPc = [p \in PgProcs |-> "start"]
  /\ pgLock = [v \in Versions |-> NoLock] /\ pgArchive = [v \in Versions |-> "none"]
  /\ pgSweep = [p \in PgProcs |-> {}]
  /\ pgUsed = [p \in PgProcs |-> "none"] /\ pgRuns = [p \in PgProcs |-> <<>>]
  /\ pgAnswer = [p \in PgProcs |-> "none"] /\ pgCrashes = 0
  /\ pgRobbed = {}

PgStep(p) ==
  \/ Start(p) \/ acquire_download_lock(p) \/ lock_is_stale(p) \/ CheckCache(p) \/ FetchArchive(p)
  \/ download_archive(p) \/ ClearTemp(p) \/ extract_archive(p) \/ CheckUnpacked(p) \/ RemoveOld(p)
  \/ MoveNew(p) \/ ResolveAgain(p) \/ run_psql_capture(p) \/ execute_tool_cleanup(p)
PgNext == (\E p \in PgProcs : PgStep(p) \/ CrashDownload(p)) \/ (\E v \in Versions : LockAges(v))
PgSpec == PgInit /\ [][PgNext]_pgVars

-----------------------------------------------------------------------------
(* Properties.                                                             *)

\* Two processes are never in the download of one version at once (download.rs: "a lock file
\* makes two `ah` processes take turns rather than write over each other").  They can be once
\* a lock was removed under a live download: it was older than thirty minutes, or it was
\* not the stale one any more when the second of two waiters removed it by name.
TakeTurns == \A p, q \in PgProcs :
  (p \in DownloadsOf(wanted(q)) /\ q \in DownloadsOf(wanted(q)) /\ wanted(q) \notin pgRobbed) => p = q

\* Downloads take turns, and while they do what one of them puts into a version directory
\* comes from an archive whose digest was compared with the pinned one (download_archive) and
\* is whole, whatever crashed or failed and wherever, until somebody removes files of it: a
\* directory with files missing is the work of a removal that stopped, never of a download.
InstalledIsVerified ==
  /\ TakeTurns
  /\ \A v \in Versions \ pgRobbed :
       LET dir == pgDirs[Version(v)]
       IN dir.from # "none" => dir.from = "good" /\ (dir.files = Tools \/ dir.cut)

\* Only a command its caller confirmed opens a session that may write, a tool named by the
\* caller or the environment is used or the command fails, and one that does not run is never
\* used; an "ok" means that every session of the command ran.
RunsAsAsked ==
  \A p \in PgProcs :
    LET a == pgAsk[p]
    IN /\ (\E i \in DOMAIN pgRuns[p] : ~pgRuns[p][i]) => a.yes /\ a.cmd \in {"exec", "explain"}
       /\ a.path # "none" => pgUsed[p] \in {"none", "explicit"}
       /\ a.path = "none" /\ a.env # "none" => pgUsed[p] \in {"none", "env"}
       /\ pgUsed[p] = "explicit" => a.path = "good"
       /\ pgUsed[p] = "env" => a.env = "good"
       /\ pgUsed[p] = "system" => SystemTool = "good"
       /\ pgAnswer[p] = "ok" /\ a.cmd \notin ToolCommand =>
            Len(pgRuns[p]) = Len(statements(a).runs) /\ pgUsed[p] # "none"

\* The psql that runs is one that was verified or named, and it does what was asked.
ToolSound == InstalledIsVerified /\ RunsAsAsked
=============================================================================
