----------------------------- MODULE MCExternal -----------------------------
(***************************************************************************)
(* Small instances, for TLC, of the commands that depend on something      *)
(* outside ah: a child process, the agents' own command lines, a forge, a  *)
(* psql that has to be downloaded first, an HTTP server, a work tree, a    *)
(* git repository, a project.  They share no state here, so one is         *)
(* explored at a time.                                                     *)
(***************************************************************************)
EXTENDS ChildProcess, AgentStatus, Forge, PostgresTool, HttpDomain, FileTools, GitDomain, ProjectDomain

VARIABLE machine

-----------------------------------------------------------------------------
(* Children.                                                               *)

AllHosts == {"job", "group", "helper"}

\* Nothing, something, and more than the limit and the pipe hold.
SomeOutputs == {[stdout |-> 3, stderr |-> 0], [stdout |-> 1, stderr |-> 2]}

-----------------------------------------------------------------------------
(* Commands of the forge plugins: every command, every place a token may   *)
(* be sent to or come from, logs, listings and waits.                      *)

Https(h) == [scheme |-> "https", host |-> h]
Http(h) == [scheme |-> "http", host |-> h]
NoLog == [declared |-> 0, size |-> 0, lines |-> <<>>, body |-> 2, expanded |-> 2]
GithubAsk(cmd) ==
  [forge |-> "github", cmd |-> cmd, api |-> Https("api.github"), graphql |-> Https("api.github"),
   where |-> "home", remote |-> "github", pinned |-> FALSE, inline |-> FALSE, vault |-> "none",
   env |-> TRUE, helper |-> FALSE, text |-> "absent", fields |-> TRUE, search |-> FALSE,
   full |-> FALSE, numeric |-> FALSE, target |-> 2, log |-> NoLog, timeout |-> 3, interval |-> 2,
   strict |-> FALSE]
GitlabAsk(cmd) ==
  [GithubAsk(cmd) EXCEPT !.forge = "gitlab", !.api = Https("gitlab"), !.graphql = Https("gitlab"),
                         !.remote = "gitlab"]
ForgeLine(size, kind) == [size |-> size, kind |-> kind]
ForgeLines == <<ForgeLine(1, "other"), ForgeLine(1, "selected"), ForgeLine(2, "bytes"),
                ForgeLine(1, "selected"), ForgeLine(1, "selected")>>
LogOf(n, declared, budget) ==
  [declared |-> declared, size |-> n, lines |-> SubSeq(ForgeLines, 1, n), body |-> budget,
   expanded |-> budget]
GithubOnly == {"workflows", "workflow.run", "artifacts", "release.assets"}
GitlabOnly == {"releases"}
ReadCommands == {"repo", "issues", "issue.view", "issue.comments", "release.get", "runs", "run.get",
                 "wait", "jobs", "logs"}
AllCommands(forge) ==
  ReadCommands \cup WriteCommands(forge)
    \cup (IF forge = "github" THEN GithubOnly ELSE GitlabOnly)
EachCommand ==
  {[a EXCEPT !.text = t] :
     a \in {GithubAsk(c) : c \in AllCommands("github")} \cup
           {GitlabAsk(c) : c \in AllCommands("gitlab")},
     t \in {"absent", "given", "both", "unreadable", "blank", "malformed"}}
ForgeTargets ==
  UNION {{[a EXCEPT !.api = api, !.graphql = gql, !.where = w, !.remote = r, !.inline = i,
                    !.env = e, !.helper = ~e, !.full = TRUE, !.numeric = i] :
            api \in {Https("gitlab"), Https("mirror"), Http("mirror"), Http("loopback")},
            gql \in {Https("gitlab"), Https("mirror"), Http("loopback")},
            w \in {"given", "elsewhere", "home"}, r \in {"gitlab", "mirror"},
            i \in BOOLEAN, e \in BOOLEAN} :
         a \in {GitlabAsk("issue.view"), [GitlabAsk("issue.view") EXCEPT !.pinned = TRUE]}}
ForgeVaults == {[GithubAsk("run.get") EXCEPT !.vault = v, !.inline = i, !.where = w] :
             v \in {"good", "kind", "blank", "unresolved", "otherid"}, i \in BOOLEAN,
             w \in {"home", "badarg", "undetected", "elsewhere"}}
ForgeLogs == {[a EXCEPT !.cmd = "logs", !.log = LogOf(n, d, b), !.target = t] :
           a \in {GithubAsk("logs"), GitlabAsk("logs")}, n \in 0..5, d \in {0, 5}, b \in {0, 4, 6},
           t \in {0, 1, 2}}
ForgeListings == {[GithubAsk("issues") EXCEPT !.target = t, !.search = s] : t \in 1..3, s \in BOOLEAN}
ForgeWaits == {[a EXCEPT !.timeout = t, !.interval = i, !.strict = s] :
            a \in {GithubAsk("wait"), GitlabAsk("wait")}, t \in {1, 3}, i \in {1, 2}, s \in BOOLEAN}
SomeForgeAsks == EachCommand \cup ForgeTargets \cup ForgeVaults \cup ForgeLogs \cup ForgeListings \cup ForgeWaits
                \cup {[GithubAsk("issue.update") EXCEPT !.fields = FALSE]}
SomeRedirects ==
  {<<>>, <<Https("mirror")>>, <<Http("api.github")>>, <<Https("mirror"), Https("api.github")>>}
SomeIssues == <<[id |-> 5, pr |-> FALSE], [id |-> 4, pr |-> TRUE], [id |-> 3, pr |-> FALSE],
                [id |-> 2, pr |-> FALSE], [id |-> 1, pr |-> FALSE]>>

-----------------------------------------------------------------------------
(* Commands of the postgres plugin.                                        *)

PgAsk(cmd) == [cmd |-> cmd, yes |-> FALSE, analyze |-> FALSE, sql |-> "read", found |-> TRUE,
               path |-> "none", env |-> "none", ensure |-> FALSE, force |-> FALSE, version |-> "none",
               vault |-> "none", passwordEnv |-> FALSE]
Ensured == [PgAsk("exec") EXCEPT !.yes = TRUE, !.ensure = TRUE]
Download(v) == [PgAsk("download") EXCEPT !.version = v]
Cleanup(v) == [PgAsk("cleanup") EXCEPT !.version = v]
Forced == [Download("none") EXCEPT !.force = TRUE]
PgIdle == PgAsk("status")
PgSingles ==
  {[PgAsk("exec") EXCEPT !.ensure = TRUE], [Ensured EXCEPT !.env = "good"], [Ensured EXCEPT !.env = "bad"],
   [PgAsk("explain") EXCEPT !.analyze = TRUE, !.yes = TRUE, !.path = "good"],
   [PgAsk("explain") EXCEPT !.analyze = TRUE, !.path = "good"], [PgAsk("explain") EXCEPT !.path = "good"],
   [PgAsk("describe") EXCEPT !.path = "good"], [PgAsk("describe") EXCEPT !.found = FALSE, !.path = "good"],
   [PgAsk("query") EXCEPT !.path = "bad"], [PgAsk("query") EXCEPT !.sql = "write", !.path = "good"],
   [PgAsk("use") EXCEPT !.path = "good"], [PgAsk("use") EXCEPT !.path = "bad"], PgIdle,
   Download("other"), Download("18.4"), Cleanup("other"), Cleanup("outside"),
   [PgAsk("ping") EXCEPT !.vault = "kind"], [PgAsk("info") EXCEPT !.vault = "incomplete"],
   [PgAsk("info") EXCEPT !.vault = "good", !.passwordEnv = TRUE]}
  \cup {[PgAsk(c) EXCEPT !.path = "good"] : c \in {"ping", "relations", "size"}}
NoCache == [place \in Places |-> Absent]
Keeping(place, files) == [NoCache EXCEPT ![place] = DirOf(files, "none", TRUE)]
PgStart(a, b, c, dirs, kept) == [asks |-> <<a, b, c>>, dirs |-> dirs, config |-> kept]
\* Each command alone; two that share the cache; three that find it in order, so that the lock is
\* all they contend for.
SomePgStarts ==
  {PgStart(a, PgIdle, PgIdle, dirs, kept) :
     a \in PgSingles, kept \in read_tool_config,
     dirs \in {NoCache, Keeping(Version("18.6"), {"dll"}), Keeping(Version("18.4"), Tools), Keeping(Temp(1), {"psql"})}}
  \cup {PgStart(Ensured, Ensured, PgIdle, NoCache, "none"),
        PgStart(Ensured, Cleanup("none"), PgIdle, Keeping(Version("18.6"), {"dll"}), "none"),
        PgStart(Forced, Cleanup("18.4"), PgIdle, Keeping(Version("18.6"), Tools), "bad"),
        PgStart(Download("18.4"), Cleanup("18.4"), PgIdle, Keeping(Version("18.4"), {"psql"}), "none"),
        PgStart(Ensured, Forced, PgIdle, Keeping(Temp(2), {"dll"}), "none"),
        PgStart(Ensured, Download("18.4"), PgIdle, NoCache, "none"),
        PgStart(Download("none"), Download("none"), Download("none"), Keeping(Version("18.6"), Tools), "none")}

-----------------------------------------------------------------------------
(* Requests and specifications of the http domain, and what servers answer. *)

PlainOpts == [method |-> "named", url |-> "good", headers |-> "none", query |-> "none", bearer |-> "none",
              basic |-> "none", vault |-> "none", payload |-> "none", cap |-> 1]
PlainCurl == [form |-> "good", header |-> "none", basic |-> "none", payload |-> "none"]
IsOk == [on |-> "status", kind |-> "class", lo |-> 2, hi |-> 2]
HasJson(op) == [on |-> "json", form |-> op]
PlainHttp == [op |-> "request", typed |-> TRUE, opts |-> PlainOpts, curl |-> PlainCurl, checks |-> <<IsOk>>,
              cases |-> <<>>, given |-> {}, spec |-> "good", fail_fast |-> FALSE, retry |-> 0,
              delay |-> 1, deadline |-> 4]
PlainCase == [name |-> "named", method |-> "named", target |-> "path", cap |-> 1, bearer |-> "none",
              basic |-> "none", payload |-> "none"]
HttpCase(uses, checks, extract) ==
  [request |-> PlainCase, uses |-> uses, wants |-> {}, checks |-> checks, extract |-> extract]
Login == <<HttpCase({"user"}, <<IsOk>>, {"token", "etag"}), HttpCase({"token"}, <<IsOk, HasJson("eq")>>, {})>>
SpecAsk == [PlainHttp EXCEPT !.op = "assert", !.cases = Login, !.given = {"user"}, !.retry = 1]
\* A spec with one case that is not as it should be, after a good one.
CaseAsk(q, wants) ==
  [SpecAsk EXCEPT !.deadline = 0, !.retry = 0, !.typed = FALSE,
                  !.cases[2] = [@ EXCEPT !.request = q, !.wants = wants]]
OnCommandLine(op, vault) ==
  [PlainHttp EXCEPT !.op = op, !.typed = FALSE, !.deadline = 0, !.opts.vault = vault,
                    !.cases = IF op = "assert" THEN Login ELSE <<>>]
SomeHttpAsks ==
  {[PlainHttp EXCEPT !.retry = 2], [PlainHttp EXCEPT !.retry = 1, !.deadline = 0, !.delay = 0, !.checks = <<[on |-> "header", form |-> "etag"], HasJson("absent")>>],
   [PlainHttp EXCEPT !.retry = 2, !.delay = 3, !.checks = <<[on |-> "status", kind |-> "range", lo |-> 200, hi |-> 404]>>],
   SpecAsk, [SpecAsk EXCEPT !.fail_fast = TRUE, !.deadline = 0, !.retry = 0], [SpecAsk EXCEPT !.given = {}]}
  \cup {[PlainHttp EXCEPT !.opts = [PlainOpts EXCEPT !.vault = v]] : v \in {"good", "kind", "nouser", "unresolved", "otherid"}}
  \cup {[PlainHttp EXCEPT !.opts = [PlainOpts EXCEPT !.payload = v]] : v \in {"two", "unreadable"}}
  \cup {[PlainHttp EXCEPT !.opts = [PlainOpts EXCEPT !.vault = "good", !.headers = "authorization"]],
        [PlainHttp EXCEPT !.opts = [PlainOpts EXCEPT !.bearer = "token", !.basic = "pair"]],
        [PlainHttp EXCEPT !.op = "replay", !.curl = [PlainCurl EXCEPT !.header = "authorization"]],
        [PlainHttp EXCEPT !.op = "replay", !.curl = [PlainCurl EXCEPT !.form = "unsupported"]],
        [PlainHttp EXCEPT !.op = "replay", !.curl = [PlainCurl EXCEPT !.header = "authorization"],
                          !.opts = [PlainOpts EXCEPT !.vault = "good"]]}
  \cup {[SpecAsk EXCEPT !.spec = w] : w \in {"unreadable", "version", "selectors", "var"}}
  \cup {OnCommandLine(op, v) : op \in {"request", "put", "assert"}, v \in {"none", "good", "otherslot"}}
  \cup {[PlainHttp EXCEPT !.opts.method = "malformed"], [PlainHttp EXCEPT !.op = "delete", !.opts.method = "blank"]}
  \cup {CaseAsk(PlainCase, {"missing"}), CaseAsk([PlainCase EXCEPT !.method = "malformed"], {"etag"}),
        CaseAsk([PlainCase EXCEPT !.payload = "unreadable"], {"missing"}),
        CaseAsk([PlainCase EXCEPT !.name = "blank"], {}), CaseAsk([PlainCase EXCEPT !.cap = 0], {}),
        CaseAsk([PlainCase EXCEPT !.bearer = "token", !.basic = "pair"], {})}
  \cup {CaseAsk([PlainCase EXCEPT !.target = w], {}) : w \in {"url", "both", "neither", "nobase"}}
SomeResponses ==
  {[code |-> c, truncated |-> FALSE, header |-> TRUE, body |-> "match"] : c \in {200, 404, 503}}
  \cup {[code |-> 200, truncated |-> TRUE, header |-> TRUE, body |-> "match"],
        [code |-> 200, truncated |-> FALSE, header |-> TRUE, body |-> "other"],
        [code |-> 200, truncated |-> FALSE, header |-> FALSE, body |-> "text"]}

-----------------------------------------------------------------------------
(* Work trees: files of every kind, and a link that leads back to the top, *)
(* out of the tree or to a file; overlapping roots and tight limits.       *)

FromHere == <<1>>
Elsewhere == <<9>>
FileIn(dir, lines) == [kind |-> "file", in |-> dir, to |-> 0, size |-> 1, nul |-> FALSE, media |-> FALSE,
                       hidden |-> FALSE, lines |-> lines]
DirIn(dir) == [FileIn(dir, <<>>) EXCEPT !.kind = "dir"]
LinkIn(dir, n) == [FileIn(dir, <<>>) EXCEPT !.kind = "link", !.to = n]
SomeTree(n) ==
  <<DirIn(0), FileIn(1, <<"hit", "miss", "hit">>), DirIn(1), FileIn(3, <<"hit">>),
    FileIn(3, <<"hit", "bad">>), LinkIn(3, n), [FileIn(1, <<"hit">>) EXCEPT !.hidden = TRUE],
    [FileIn(1, <<"hit">>) EXCEPT !.size = 5, !.media = TRUE], DirIn(0), FileIn(9, <<"hit", "hit">>)>>
SomeTrees == {SomeTree(1), SomeTree(9), SomeTree(4)}
ToolAskOf(cmd) ==
  [cmd |-> cmd, paths |-> <<>>, follow |-> FALSE, max |-> 4, limit |-> 99, pattern |-> "good",
   badGlob |-> FALSE, globs |-> {}, named |-> 1..10, context |-> 1, from |-> 1, to |-> 99,
   lines |-> 2, depth |-> 99, preview |-> 1, typed |-> TRUE]
Full(p) == [abs |-> TRUE, at |-> p]
Relative(p) == [abs |-> FALSE, at |-> p]
SomeToolAsks ==
  {[ToolAskOf(c) EXCEPT !.paths = ps, !.follow = f, !.limit = l] :
     c \in {"text", "pack", "symbols", "tree"}, ps \in {<<>>, <<Relative(<<3>>)>>}, f \in BOOLEAN, l \in {0, 2, 99}}
  \cup {[ToolAskOf(c) EXCEPT !.paths = ps, !.follow = f, !.limit = 2] :
     c \in {"text", "files", "pack"}, f \in BOOLEAN,
     ps \in {<<Full(<<1>>), Relative(<<3>>), Full(<<9>>)>>, <<Relative(<<3, 6>>)>>}}
  \cup {[ToolAskOf(c) EXCEPT !.paths = <<Full(<<1>>), Relative(<<3, 0>>)>>] : c \in {"text", "files", "pack"}}
  \cup {[ToolAskOf(c) EXCEPT !.paths = <<Relative(<<3, 0>>)>>] : c \in {"tree", "symbols"}}
  \cup {[ToolAskOf(c) EXCEPT !.paths = <<Relative(p)>>, !.follow = f, !.limit = l, !.from = a, !.lines = n] :
     c \in {"read", "head", "tail", "stat"}, p \in {<<2>>, <<3, 5>>, <<3, 6>>, <<8>>}, f \in BOOLEAN,
     l \in {0, 1, 99}, a \in {0, 2}, n \in {0, 2}}
  \cup {[ToolAskOf("tree") EXCEPT !.depth = d, !.follow = TRUE] : d \in 0..3}
  \cup {[ToolAskOf("text") EXCEPT !.max = 0], [ToolAskOf("text") EXCEPT !.pattern = "malformed"],
        [ToolAskOf("text") EXCEPT !.badGlob = TRUE], [ToolAskOf("text") EXCEPT !.globs = {2, 4}, !.max = 9],
        [ToolAskOf("files") EXCEPT !.named = {3}], [ToolAskOf("pack") EXCEPT !.max = 9, !.paths = <<Full(<<9>>), Relative(<<3>>)>>],
        [ToolAskOf("symbols") EXCEPT !.max = 9, !.paths = <<Relative(<<2>>)>>, !.limit = 0]}

-----------------------------------------------------------------------------
(* Repositories: renames whose old paths read like records, a detached     *)
(* head, no commit at all, the inside of .git.                             *)

GitEntry(x, y, p, old) == [x |-> x, y |-> y, path |-> p, old |-> old]
SomeEntries == <<GitEntry("R", "M", 1, 9), GitEntry(" ", "M", 2, 0), GitEntry("U", "U", 3, 0),
                 GitEntry(" ", "R", 4, 5), GitEntry("?", "?", 6, 0)>>
GitFile(s, p, a) == [status |-> s, path |-> p, add |-> a, del |-> a]
\* A root commit with a binary file, a rename, and a merge.
SomeCommits ==
  <<[names |-> <<GitFile("A", 1, -1), GitFile("A", 2, -1)>>, nums |-> <<GitFile("none", 1, 2), GitFile("none", 2, -1)>>],
    [names |-> <<GitFile("D", 1, -1), GitFile("A", 3, -1)>>, nums |-> <<GitFile("none", 13, 1)>>],
    [names |-> <<>>, nums |-> <<GitFile("none", 2, 1), GitFile("none", 3, 1)>>]>>
Annotated(name, c, note) == [name |-> name, commit |-> c, note |-> note]
PlainRepo ==
  [inside |-> "work", refs |-> [HEAD |-> 2, old |-> 1, merge |-> 3], branch |-> "main", upstream |-> "origin",
   ab |-> "good", tags |-> <<Annotated("v2", 3, 3), Annotated("v1", 1, -1), Annotated("v0", 1, 0)>>, entries |-> SomeEntries,
   remotes |-> <<[name |-> "origin", fetch |-> "github", push |-> <<"gitlab", "other">>],
                 [name |-> "fork", fetch |-> "other", push |-> <<"github">>]>>,
   blame |-> (2 :> <<1, 2, 0>> @@ 6 :> <<>>)]
SomeRepos ==
  {PlainRepo, [PlainRepo EXCEPT !.inside = "gitdir"], [PlainRepo EXCEPT !.ab = "malformed"],
   [PlainRepo EXCEPT !.branch = "(detached)", !.upstream = "none", !.ab = "none", !.tags = <<>>],
   [PlainRepo EXCEPT !.refs = [HEAD |-> 0], !.upstream = "none", !.ab = "none", !.tags = <<>>,
                     !.entries = <<GitEntry("A", " ", 2, 0)>>]}
GitAskOf(cmd) == [cmd |-> cmd, limit |-> 99, latest |-> FALSE, path |-> 0, line |-> -1, ref |-> "HEAD", tag |-> "v3", message |-> FALSE]
SomeGitAsks ==
  {[GitAskOf(c) EXCEPT !.limit = l] : c \in {"status", "tags", "remotes", "changed", "diff"}, l \in {0, 1, 5, 99}}
  \cup {[GitAskOf("diff") EXCEPT !.path = 2, !.limit = 1], GitAskOf("ctx.changed"), [GitAskOf("tags") EXCEPT !.latest = TRUE]}
  \cup {[GitAskOf("blame") EXCEPT !.path = p, !.line = n, !.limit = l] : p \in {2, 6, 8}, n \in {-1, 0, 3, 9}, l \in {1, 99}}
  \cup {[GitAskOf("commit-info") EXCEPT !.ref = r, !.limit = l] : r \in {"HEAD", "old", "merge", "v2", "v1", "v0"}, l \in {1, 99}}
  \cup {[GitAskOf("tag.create") EXCEPT !.tag = t, !.ref = r, !.message = m] : t \in {"v1", "v3"}, r \in {"HEAD", "v1"}, m \in BOOLEAN}

-----------------------------------------------------------------------------
(* Projects: several manifests, competing lock files, directories that are *)
(* not entered, a directory with the name of one.                          *)

ManifestText == [form |-> "good", deps |-> {}, scripts |-> {}, version |-> "none", flutter |-> FALSE, lines |-> <<>>]
ProjectFile(marks) == [marks |-> marks, depth |-> 1, pruned |-> FALSE, kind |-> "file", text |-> ManifestText]
PackageJson(deps, scr) ==
  [ProjectFile({"package.json"}) EXCEPT !.text = [ManifestText EXCEPT !.deps = deps, !.scripts = scr, !.version = "1"]]
CargoToml ==
  [ProjectFile({"cargo.toml"}) EXCEPT !.text = [ManifestText EXCEPT !.lines =
    <<<<"section", "package">>, <<"pair", "version", "">>, <<"pair", "version", "1">>, <<"section", "dependencies">>,
      <<"pair", "version", "9">>>>]]
OwnFirst(marks, own, others) ==
  [ProjectFile(marks) EXCEPT !.text.lines = <<<<"version", "own", own>>>> \o others]
OfAnother == <<"version", "another", "9">>
OfParent(marks) == [ProjectFile(marks) EXCEPT !.text.lines = <<OfAnother, <<"version", "own", "1">>>>]
Directory(files) == [root |-> "dir", unentered |-> FALSE, files |-> files]
SomeProjects ==
  {Directory(<<PackageJson({"react", "electron"}, {"test", "deploy"}), ProjectFile({"pnpm-lock.yaml"}),
               PackageJson({}, {"format"})>>),
   Directory(<<PackageJson({"semgrep"}, {}), ProjectFile({"bun.lock"}), ProjectFile({"yarn.lock"}),
               [PackageJson({}, {"build"}) EXCEPT !.pruned = TRUE]>>),
   Directory(<<CargoToml, ProjectFile({"/.github/workflows/*", "*codeql*"}), ProjectFile({"makefile"}),
               [CargoToml EXCEPT !.depth = 5]>>),
   Directory(<<OfParent({"pom.xml"}), OwnFirst({"build.gradle"}, "1", <<OfAnother>>), OwnFirst({"*.gemspec"}, "", <<OfAnother>>)>>),
   Directory(<<[OwnFirst({"pubspec.yaml"}, "1", <<OfAnother>>) EXCEPT !.text.flutter = TRUE], OfParent({"pubspec.yaml"}),
               OwnFirst({"*.csproj"}, "1", <<>>), [ProjectFile({"*.xcodeproj"}) EXCEPT !.kind = "dir"]>>),
   Directory(<<ProjectFile({"uv.lock"}), ProjectFile({"pyproject.toml"}), ProjectFile({"*.tf"})>>),
   Directory(<<CargoToml>>), [Directory(<<CargoToml>>) EXCEPT !.unentered = TRUE], [Directory(<<CargoToml>>) EXCEPT !.root = "file"]}
SomeProjectAsks == {[cmd |-> "detect", limit |-> 99], [cmd |-> "version", limit |-> 1], [cmd |-> "commands", limit |-> 99]}

-----------------------------------------------------------------------------
(* The machines that do not run stay in one initial state.                 *)

Rests(m, state) == machine = m \/ (machine # m /\ state)

ExternalInit ==
    /\ machine \in {"child", "status", "forge", "postgres", "http", "tools", "git", "project"}
    /\ Rests("child", host = "job" /\ keepTail = TRUE /\ want = [stdout |-> 3, stderr |-> 0]) /\ ChildInit
    /\ StatusInit
    /\ Rests("forge", forgeAsk = GithubAsk("repo")) /\ ForgeInit
    /\ Rests("postgres", pgAsk = <<PgIdle, PgIdle, PgIdle>> /\ pgDirs = NoCache /\ pgConfig = "none")
    /\ PgInit
    /\ Rests("http", httpAsk = SpecAsk) /\ HttpInit
    /\ Rests("tools", tree = SomeTree(1) /\ toolAsk = ToolAskOf("tree")) /\ ToolInit
    /\ Rests("git", repo = PlainRepo /\ gitAsk = GitAskOf("status")) /\ GitInit
    /\ Rests("project", project = Directory(<<CargoToml>>) /\ projectAsk = [cmd |-> "detect", limit |-> 99])
    /\ ProjectInit

Turn(m, moves, others) == machine = m /\ moves /\ UNCHANGED <<machine, others>>

ExternalNext ==
    \/ Turn("child", ChildNext, <<statusVars, forgeVars, pgVars, httpVars, toolVars, gitVars, projectVars>>)
    \/ Turn("status", StatusNext, <<childVars, forgeVars, pgVars, httpVars, toolVars, gitVars, projectVars>>)
    \/ Turn("forge", ForgeNext, <<childVars, statusVars, pgVars, httpVars, toolVars, gitVars, projectVars>>)
    \/ Turn("postgres", PgNext, <<childVars, statusVars, forgeVars, httpVars, toolVars, gitVars, projectVars>>)
    \/ Turn("http", HttpNext, <<childVars, statusVars, forgeVars, pgVars, toolVars, gitVars, projectVars>>)
    \/ Turn("tools", ToolNext, <<childVars, statusVars, forgeVars, pgVars, httpVars, gitVars, projectVars>>)
    \/ Turn("git", GitNext, <<childVars, statusVars, forgeVars, pgVars, httpVars, toolVars, projectVars>>)
    \/ Turn("project", ProjectNext, <<childVars, statusVars, forgeVars, pgVars, httpVars, toolVars, gitVars>>)

externalVars == <<machine, childVars, statusVars, forgeVars, pgVars, httpVars, toolVars, gitVars, projectVars>>

\* The fairness of ChildFairSpec, StatusFairness and ForgeSpec.
ExternalSpec ==
    /\ ExternalInit /\ [][ExternalNext]_externalVars
    /\ WF_childVars(machine = "child" /\ Caller)
    /\ \A s \in Streams : WF_childVars(machine = "child" /\ ReaderStep(s))
    /\ \A p \in Procs : WF_childVars(machine = "child" /\ Dies(p))
    /\ \A t \in Selected : /\ WF_statusVars(machine = "status" /\ Send(t))
                           /\ WF_statusVars(machine = "status" /\ Answer(t))
    /\ WF_statusVars(machine = "status" /\ (Receive \/ Disconnected))
    /\ WF_forgeVars(machine = "forge" /\ ForgeStep)

-----------------------------------------------------------------------------

\* A deadline ends the call of a child process, and its output does not block it; the status
\* screen ends although a worker dies, and waits for nothing but the CLI of an agent that does not
\* return, the other rows being shown; a forge command is answered although the run it waits for
\* never ends.
WaitsEnd ==
    /\ DeadlineEnds
    /\ machine = "child" => OutputNeverBlocks
    /\ machine = "status" => StatusEnds
    /\ machine = "forge" => ForgeEnds

\* What a command that only reads answers is so.  A search answers for every file under its roots
\* once, however they overlap, unless one is spelled by a detour; a pack once for each root; search
\* and line commands say when and only when there is more, ctx symbols only of files.  Every part of
\* what was read of a file, of what git said and of what the project's files say was so at some moment
\* while the command ran, although tree and repository change between two reads of one command; a
\* rename keeps its own old path; the hash of a commit is its own unless it was asked for by an
\* annotated tag, a version the project's own unless its manifest shows another where the parser looks.
ReadersSound == ReadToolsSound /\ GitSound /\ ProjectSound
=============================================================================
