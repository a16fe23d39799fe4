------------------------------ MODULE GitDomain ------------------------------
(***************************************************************************)
(* The git domain.  A command runs git several times, one process after    *)
(* the other (two at once at the end of a status), and puts one answer     *)
(* together from what they print; somebody else may commit or tag between  *)
(* two of them, and a process may fail.                                    *)
(*                                                                         *)
(* The repository is a record: inside says what git makes of the directory *)
(* ("work", "gitdir", "none"), refs names commits, tags is the list newest *)
(* first, entries are the changes of the work tree, blame the files, line  *)
(* by line.  What git prints is a sequence of fields or lines, which the   *)
(* domain parses.                                                          *)
(***************************************************************************)
EXTENDS Integers, Sequences, FiniteSets, FiniteSetsExt, SequencesExt

CONSTANTS
    Repos,         \* the repositories a command may find
    GitAsks,       \* the commands
    Commits,       \* commit -> [names, nums]: its diff-tree and its numstat
    Disguised,     \* paths that read like the record of an untracked file
    MaxGitEdits,   \* what others do to the repository meanwhile
    MaxGitFaults   \* processes that fail

VARIABLES
    repo,
    gitAsk,
    gitPc,         \* the process that runs next, "done" at the end
    gitGot,        \* the answer so far
    gitCode,       \* "none", "ok" or the error
    gitPast,       \* every state of the repository while the command ran
    gitEdits, gitFaults

gitVars == <<repo, gitAsk, gitPc, gitGot, gitCode, gitPast, gitEdits, gitFaults>>

NoCommit == 0
None == "none"
RECURSIVE ParseV1(_), ParseV2(_, _), ParseBlame(_)

-----------------------------------------------------------------------------
(* What git prints about the work tree.  An entry is [x, y, path, old].    *)

Renames(e) == e.x \in {"R", "C"} \/ e.y \in {"R", "C"}
Unmerged(e) == e.x = "U" \/ e.y = "U"
Untracked(e) == e.x = "?" /\ e.y = "?"

Field(sort, e) == [sort |-> sort, x |-> e.x, y |-> e.y, path |-> e.path, value |-> None]
\* A path on its own; where a record is expected it is one only by accident.
PathField(p) == [sort |-> IF p \in Disguised THEN "untracked" ELSE "text",
                 x |-> "?", y |-> "?", path |-> p, value |-> None]
Header(key, value) == [sort |-> key, x |-> " ", y |-> " ", path |-> 0, value |-> value]

EntryFields(e, v2) ==
    LET sort == IF Untracked(e) THEN "untracked"
                ELSE IF v2 /\ Renames(e) THEN "renamed"
                ELSE IF v2 /\ Unmerged(e) THEN "unmerged" ELSE "ordinary"
        Dotted(f) == IF v2 THEN [f EXCEPT !.x = IF @ = " " THEN "." ELSE @,
                                          !.y = IF @ = " " THEN "." ELSE @] ELSE f
    IN <<Dotted(Field(sort, e))>> \o IF Renames(e) THEN <<PathField(e.old)>> ELSE <<>>
Fields(r, v2) == FlattenSeq([i \in DOMAIN r.entries |-> EntryFields(r.entries[i], v2)])

\* git status --porcelain=v1 -z, and --porcelain=v2 --branch -z.
StatusV1(r) == Fields(r, FALSE)
StatusV2(r) ==
    <<Header("branch.oid", r.refs["HEAD"]), Header("branch.head", r.branch)>>
    \o (IF r.upstream = None THEN <<>> ELSE <<Header("branch.upstream", r.upstream)>>)
    \o (IF r.ab = None THEN <<>> ELSE <<Header("branch.ab", r.ab)>>)
    \o Fields(r, TRUE)

-----------------------------------------------------------------------------
(* git_status.rs.  A parse is [ok, entries, ...]; the field that the       *)
(* output breaks off in has sort "torn": it has no NUL.                    *)

BadStatus == [ok |-> FALSE, entries |-> <<>>]
Entry(f, old) == [x |-> f.x, y |-> f.y, path |-> f.path, old |-> old]
With(e, rest) == IF rest.ok THEN [rest EXCEPT !.entries = <<e>> \o @] ELSE rest

\* Mutant: the old path of a rename is not taken from the output.
ParseV1KeepsOldPath(raw) ==
    IF raw = <<>> THEN [ok |-> TRUE, entries |-> <<>>]
    ELSE IF raw[1].sort \in {"torn", "text"} THEN BadStatus
    ELSE With(Entry(raw[1], 0), ParseV1(Tail(raw)))

\* parse_porcelain_v1_z: a rename takes the next field as its old path.
ParseV1(raw) ==
    IF raw = <<>> THEN [ok |-> TRUE, entries |-> <<>>]
    ELSE IF raw[1].sort \in {"torn", "text"} THEN BadStatus
    ELSE IF ~Renames(raw[1]) THEN With(Entry(raw[1], 0), ParseV1(Tail(raw)))
    ELSE IF Len(raw) < 2 \/ raw[2].sort = "torn" THEN BadStatus
    ELSE With(Entry(raw[1], raw[2].path), ParseV1(SubSeq(raw, 3, Len(raw))))

normalize_v2_status(c) == IF c = "." THEN " " ELSE c
parse_v2_entry(f, old) ==
    [Entry(f, old) EXCEPT !.x = normalize_v2_status(@), !.y = normalize_v2_status(@)]

\* parse_branch_header; the counts must be +n -n.
parse_branch_header(f, s) ==
    CASE f.sort = "branch.head" -> IF f.value = "(detached)" THEN s ELSE [s EXCEPT !.branch = f.value]
      [] f.sort = "branch.upstream" -> [s EXCEPT !.upstream = f.value]
      [] f.sort = "branch.ab" -> IF f.value = "malformed" THEN [s EXCEPT !.ok = FALSE]
                                 ELSE [s EXCEPT !.ab = f.value]
      [] f.sort = "branch.oid" -> s

Headers == {"branch.oid", "branch.head", "branch.upstream", "branch.ab"}
NoSnapshot == [ok |-> TRUE, branch |-> None, upstream |-> None, ab |-> None, entries |-> <<>>]

\* parse_porcelain_v2_branch_z: s is the snapshot so far.
ParseV2(raw, s) ==
    IF raw = <<>> \/ ~s.ok THEN s
    ELSE LET f == raw[1]
             Goes(n, e) == ParseV2(SubSeq(raw, n + 1, Len(raw)), [s EXCEPT !.entries = Append(@, e)])
         IN CASE f.sort \in Headers -> ParseV2(Tail(raw), parse_branch_header(f, s))
              [] f.sort = "untracked" -> Goes(1, Entry(f, 0))
              [] f.sort = "ignored" -> ParseV2(Tail(raw), s)
              [] f.sort \in {"ordinary", "unmerged"} -> Goes(1, parse_v2_entry(f, 0))
              [] f.sort = "renamed" -> IF Len(raw) < 2 \/ raw[2].sort = "torn" THEN [s EXCEPT !.ok = FALSE]
                                       ELSE Goes(2, parse_v2_entry(f, raw[2].path))
              [] f.sort \in {"torn", "text"} -> [s EXCEPT !.ok = FALSE]

CountOf(entries, P(_)) == Cardinality({i \in DOMAIN entries : P(entries[i])})
count_statuses(entries) ==
    [staged |-> CountOf(entries, LAMBDA e : ~Untracked(e) /\ e.x # " "),
     unstaged |-> CountOf(entries, LAMBDA e : ~Untracked(e) /\ e.y # " "),
     untracked |-> CountOf(entries, Untracked)]

-----------------------------------------------------------------------------
(* parse.rs.                                                               *)

\* git blame --line-porcelain: header, metadata and, after a tab, the text of every line.
\* With -L it is about one line.
BlameLines(s, line) ==
    LET Of(i, sort) == [sort |-> sort, line |-> i, commit |-> s[i]]
        About(i) == IF line \in {-1, i} THEN <<Of(i, "header"), Of(i, "meta"), Of(i, "text")>> ELSE <<>>
    IN FlattenSeq([i \in DOMAIN s |-> About(i)])
\* parse_line_porcelain: whatever is before a header is passed over, and an entry reaches to its text.
ParseBlame(raw) ==
    IF raw = <<>> THEN <<>>
    ELSE IF raw[1].sort # "header" THEN ParseBlame(Tail(raw))
    ELSE LET texts == {i \in 2..Len(raw) : raw[i].sort = "text"}
             rest == IF texts = {} THEN <<>> ELSE SubSeq(raw, Min(texts) + 1, Len(raw))
         IN <<[line |-> raw[1].line, commit |-> raw[1].commit]>> \o ParseBlame(rest)

\* git remote -v prints a fetch line and a push line for every push URL.
RemoteLines(r) ==
    FlattenSeq([i \in DOMAIN r.remotes |->
      <<[name |-> r.remotes[i].name, kind |-> "fetch", url |-> r.remotes[i].fetch]>>
      \o [j \in DOMAIN r.remotes[i].push |->
            [name |-> r.remotes[i].name, kind |-> "push", url |-> r.remotes[i].push[j]]]])

\* parse_remotes: one entry per name, at the place of its first line; the provider follows the
\* fetch URL.  A URL of the model is the host it names.
detect_provider(url) == IF url \in {"github", "gitlab", "bitbucket"} THEN url ELSE "unknown"
parse_remotes(lines) ==
    LET names == [i \in DOMAIN lines |-> lines[i].name]
        first == SelectSeq([i \in DOMAIN lines |-> i], LAMBDA i : \A j \in 1..(i - 1) : names[j] # names[i])
        Urls(n, k) == SelectSeq(lines, LAMBDA l : l.name = n /\ l.kind = k)
        Url(n, k) == IF Urls(n, k) = <<>> THEN None ELSE Last(Urls(n, k)).url
    IN [i \in DOMAIN first |->
          LET n == names[first[i]]
              shown == IF Url(n, "fetch") # None THEN Url(n, "fetch") ELSE Url(n, "push")
          IN [name |-> n, fetch_url |-> Url(n, "fetch"), push_url |-> Url(n, "push"),
              provider |-> detect_provider(shown)]]

\* apply_limit of the runtime; a limit that was not given is larger than every list.
GitLimit(s) == SubSeq(s, 1, Min({Len(s), gitAsk.limit}))
GitCut(s) == Len(s) > gitAsk.limit

-----------------------------------------------------------------------------
(* Processes.  read_output fails the command when git fails, read_trimmed  *)
(* and read_status_snapshot take it as nothing to report, is_inside_repo   *)
(* as not being inside one.                                                *)

Runs(p) == gitPc = p
Keep == UNCHANGED <<repo, gitAsk, gitPast, gitEdits>>
Steady == Keep /\ UNCHANGED gitFaults
Faulty == gitFaults < MaxGitFaults /\ gitFaults' = gitFaults + 1 /\ Keep

\* The whole of a read-only step.
Says(p, got) == gitPc' = p /\ gitGot' = got /\ UNCHANGED gitCode
Ends(got) == gitPc' = "done" /\ gitGot' = got /\ gitCode' = "ok"
GitFails(error) == gitPc' = "done" /\ gitCode' = error /\ UNCHANGED gitGot

OutsideAnswer == [gitGot EXCEPT !.inside = FALSE]

\* map_git_spawn_error: git is not there, or does not start.  read_trimmed takes no notice of it,
\* and the ctx domain has no error of its own for it.
Trimmed == {"log", "second_log", "second_describe", "target", "subject"}
GitMissing ==
    /\ gitPc \notin Trimmed \cup {"done"} /\ Faulty
    /\ IF gitAsk.cmd = "ctx.changed" THEN GitFails("invalid_argument")
       ELSE \E error \in {"dependency_missing", "command_execution"} : GitFails(error)

\* execute: a status goes straight to the snapshot, the others ask first where they are.
FirstProcess == IF gitAsk.cmd = "status" THEN "snapshot" ELSE "inside"

\* The work of each command once it is known to be inside.
AfterInside ==
    CASE gitAsk.cmd = "blame" /\ gitAsk.path \notin DOMAIN repo.blame -> GitFails("invalid_argument")
      [] gitAsk.cmd = "blame" /\ gitAsk.path \in DOMAIN repo.blame /\ gitAsk.line = 0 -> GitFails("invalid_argument")
      [] OTHER -> Says(gitAsk.cmd, [gitGot EXCEPT !.inside = TRUE])

IsInsideRepo ==
    /\ Runs("inside")
    /\ \/ Steady /\ IF repo.inside = "work" THEN AfterInside ELSE Ends(OutsideAnswer)
       \/ Faulty /\ Ends(OutsideAnswer)

\* execute_status: the snapshot, then git log and git describe, in two threads.
StatusSnapshot ==
    /\ Runs("snapshot")
    /\ \/ /\ Steady
          /\ IF repo.inside # "work" THEN Ends(OutsideAnswer)
             ELSE LET s == ParseV2(StatusV2(repo), NoSnapshot)
                  IN IF ~s.ok THEN GitFails("response_invalid")
                     ELSE Says("log", [gitGot EXCEPT !.inside = TRUE, !.snapshot = s,
                                                     !.counts = count_statuses(s.entries)])
       \/ Faulty /\ Ends(OutsideAnswer)

ReadLatest(part, value, empty) ==
    \/ Steady /\ gitGot' = [gitGot EXCEPT ![part] = value]
    \/ Faulty /\ gitGot' = [gitGot EXCEPT ![part] = empty]

\* The threads run in either order; the answer is put together when both have ended.
LatestCommit ==
    /\ gitPc \in {"log", "second_log"}
    /\ ReadLatest("commit", repo.refs["HEAD"], NoCommit)
    /\ IF gitPc = "log" THEN gitPc' = "second_describe" /\ UNCHANGED gitCode
       ELSE gitPc' = "done" /\ gitCode' = "ok"
\* git describe: the newest tag that HEAD reaches.  HEAD reaches the commits up to its own number.
Reached(r) == SelectSeq(r.tags, LAMBDA t : t.commit <= r.refs["HEAD"])
LatestTag ==
    /\ gitPc \in {"log", "second_describe"}
    /\ ReadLatest("tag", IF Reached(repo) = <<>> THEN None ELSE Reached(repo)[1].name, None)
    /\ IF gitPc = "log" THEN gitPc' = "second_log" /\ UNCHANGED gitCode
       ELSE gitPc' = "done" /\ gitCode' = "ok"

-----------------------------------------------------------------------------
(* The listings: one process after is_inside_repo.                         *)

Tags ==
    /\ Runs("tags")
    /\ LET all == [i \in DOMAIN repo.tags |-> repo.tags[i].name]
           tags == IF gitAsk.latest THEN SubSeq(all, 1, Min({1, Len(all)})) ELSE all
       IN \/ Steady /\ Ends([gitGot EXCEPT !.list = GitLimit(tags), !.truncated = GitCut(tags)])
          \/ Faulty /\ GitFails("command_failed")

Remotes ==
    /\ Runs("remotes")
    /\ \/ Steady /\ Ends([gitGot EXCEPT !.list = parse_remotes(RemoteLines(repo))])
       \/ Faulty /\ GitFails("command_failed")

\* git may be cut off and still end well: the output stops inside its last field.
Torn(raw) == IF raw = <<>> THEN raw ELSE [raw EXCEPT ![Len(raw)].sort = "torn"]
ChangedEntries(raw) ==
    LET parsed == ParseV1(raw)
    IN IF ~parsed.ok THEN GitFails("response_invalid")
       ELSE Ends([gitGot EXCEPT !.list = GitLimit(parsed.entries), !.truncated = GitCut(parsed.entries)])
\* git changed and ctx changed; the latter has no limit.
Changed ==
    /\ gitPc \in {"changed", "ctx.changed"}
    /\ \/ Steady /\ ChangedEntries(StatusV1(repo))
       \/ Faulty /\ \/ GitFails(IF gitPc = "changed" THEN "command_failed" ELSE "invalid_argument")
                    \/ ChangedEntries(Torn(StatusV1(repo)))

\* git diff shows the lines of the unstaged changes, of all files or of one.
DiffLines(r) ==
    FlattenSeq([i \in DOMAIN r.entries |->
      IF Untracked(r.entries[i]) \/ r.entries[i].y = " " \/ gitAsk.path \notin {0, r.entries[i].path}
      THEN <<>> ELSE <<<<r.entries[i].path, 1>>, <<r.entries[i].path, 2>>>>])
Diff ==
    /\ Runs("diff")
    /\ \/ Steady /\ Ends([gitGot EXCEPT !.list = GitLimit(DiffLines(repo)), !.truncated = GitCut(DiffLines(repo))])
       \/ Faulty /\ GitFails("command_failed")

\* is_no_commit_error: before the first commit a blame is empty; an untracked file, and a line the
\* file does not have, are errors of git.
Blame ==
    /\ Runs("blame")
    /\ LET s == IF gitAsk.path \in DOMAIN repo.blame THEN repo.blame[gitAsk.path] ELSE <<>>
           raw == BlameLines(s, gitAsk.line)
           got == ParseBlame(raw)
       IN \/ /\ Steady
             /\ IF repo.refs["HEAD"] = NoCommit THEN Ends(gitGot)
                ELSE IF raw = <<>> THEN GitFails("command_failed")
                ELSE Ends([gitGot EXCEPT !.list = GitLimit(got), !.truncated = GitCut(got)])
          \/ Faulty /\ GitFails("command_failed")

-----------------------------------------------------------------------------
(* read_commit_info: three processes resolve the reference, each anew.     *)

Tagged(r, name) == SelectSeq(r.tags, LAMBDA t : t.name = name)
Resolves(r, ref) ==
    CASE ref \in DOMAIN r.refs -> r.refs[ref]
      [] ref \notin DOMAIN r.refs /\ Tagged(r, ref) # <<>> -> Tagged(r, ref)[1].commit
      [] OTHER -> NoCommit
Resolved == Resolves(repo, gitAsk.ref)

\* git show prints an annotated tag, whatever the format, before the commit.  The note of a tag
\* is 0 for a plain one, -1 for a message, or the path in a line of it that reads like a numstat.
NoteOf(r, ref) == IF ref \in DOMAIN r.refs \/ Tagged(r, ref) = <<>> THEN 0 ELSE Tagged(r, ref)[1].note
TagHeader(r, ref) == IF NoteOf(r, ref) = 0 THEN <<>> ELSE <<"tag">>
TagNumbers(r, ref) ==
    IF NoteOf(r, ref) <= 0 THEN <<>>
    ELSE <<[status |-> None, path |-> NoteOf(r, ref), add |-> 9, del |-> 9]>>

CommitProcess(p, next, got) ==
    /\ Runs(p)
    /\ \/ /\ Steady
          /\ IF Resolved = NoCommit THEN GitFails("command_failed") ELSE Says(next, got)
       \/ Faulty /\ GitFails("command_failed")
\* The hash is what comes before the first NUL.
CommitMetadata ==
    CommitProcess("commit-info", "names", [gitGot EXCEPT !.hash = TagHeader(repo, gitAsk.ref) \o <<Resolved>>])
CommitNames == CommitProcess("names", "nums", [gitGot EXCEPT !.names = Commits[Resolved].names])

\* read_commit_files: the numbers are looked up by path; a numstat that diff-tree knows nothing
\* about (a merge) becomes the list.
FilesOf(names, nums) ==
    LET Stat(p) == SelectSeq(nums, LAMBDA n : n.path = p)
        Numbered(f) == IF Stat(f.path) = <<>> THEN f
                       ELSE [f EXCEPT !.add = Stat(f.path)[1].add, !.del = Stat(f.path)[1].del]
    IN IF names = <<>> THEN nums ELSE [i \in DOMAIN names |-> Numbered(names[i])]

\* sum_optional: a number that git does not give (-1) is left out; no number at all is none.
sum_optional(s) ==
    LET given == SelectSeq(s, LAMBDA n : n >= 0)
    IN IF given = <<>> THEN -1 ELSE FoldSeq(LAMBDA a, b : a + b, 0, given)

CommitNumbers ==
    /\ Runs("nums")
    /\ LET files == FilesOf(gitGot.names, TagNumbers(repo, gitAsk.ref) \o Commits[Resolved].nums)
       IN \/ /\ Steady
             /\ IF Resolved = NoCommit THEN GitFails("command_failed")
                ELSE Ends([gitGot EXCEPT !.list = GitLimit(files), !.truncated = GitCut(files),
                             !.file_count = Len(files),
                             !.additions = sum_optional([i \in DOMAIN files |-> files[i].add])])
          \/ Faulty /\ GitFails("command_failed")

-----------------------------------------------------------------------------
(* execute_tag_create.  The tag is there once git tag succeeds; what it    *)
(* points to is read back by two more processes, which may fail.           *)

NewTag(r) == [name |-> gitAsk.tag, commit |-> Resolves(r, gitAsk.ref),
              note |-> IF gitAsk.message THEN -1 ELSE NoteOf(r, gitAsk.ref)]
CreateTag ==
    /\ Runs("tag.create")
    /\ \/ /\ IF Resolved = NoCommit \/ Tagged(repo, gitAsk.tag) # <<>>
             THEN GitFails("command_failed") /\ UNCHANGED <<repo, gitPast>>
             ELSE /\ repo' = [repo EXCEPT !.tags = <<NewTag(repo)>> \o @]
                  /\ gitPast' = gitPast \cup {repo'} /\ Says("target", gitGot)
          /\ UNCHANGED <<gitAsk, gitEdits, gitFaults>>
       \/ Faulty /\ GitFails("command_failed")

TagTarget ==
    /\ Runs("target")
    /\ \/ /\ Steady
          /\ IF Tagged(repo, gitAsk.tag) = <<>> THEN Ends(gitGot)
             ELSE Says("subject", [gitGot EXCEPT !.commit = Tagged(repo, gitAsk.tag)[1].commit])
       \/ Faulty /\ Ends(gitGot)
TagSubject ==
    /\ Runs("subject")
    /\ \/ Steady /\ Ends([gitGot EXCEPT !.tag = IF Tagged(repo, gitAsk.tag) = <<>> THEN None ELSE gitAsk.tag])
       \/ Faulty /\ Ends(gitGot)

-----------------------------------------------------------------------------
(* Others: a commit that takes the whole work tree, a tag that goes.       *)

OthersCommit(c) ==
    /\ repo.inside = "work" /\ c \in DOMAIN Commits /\ c > repo.refs["HEAD"]
    /\ repo' = [repo EXCEPT !.refs["HEAD"] = c, !.entries = <<>>,
          !.blame = [p \in DOMAIN @ |-> [i \in DOMAIN @[p] |-> IF @[p][i] = NoCommit THEN c ELSE @[p][i]]]]
OthersDropTag == repo.tags # <<>> /\ repo' = [repo EXCEPT !.tags = Tail(@)]
GitEdit ==
    /\ gitPc # "done" /\ gitEdits < MaxGitEdits /\ gitEdits' = gitEdits + 1
    /\ (\E c \in DOMAIN Commits : OthersCommit(c)) \/ OthersDropTag
    /\ gitPast' = gitPast \cup {repo'}
    /\ UNCHANGED <<gitAsk, gitPc, gitGot, gitCode, gitFaults>>

NothingGot == [inside |-> FALSE, snapshot |-> NoSnapshot, counts |-> count_statuses(<<>>), commit |-> NoCommit,
               tag |-> None, list |-> <<>>, truncated |-> FALSE, hash |-> <<>>, names |-> <<>>,
               file_count |-> 0, additions |-> -1]

GitInit ==
    /\ repo \in Repos /\ gitAsk \in GitAsks /\ gitPc = FirstProcess /\ gitGot = NothingGot
    /\ gitCode = "none" /\ gitPast = {repo} /\ gitEdits = 0 /\ gitFaults = 0
GitAnswered == gitPc = "done" /\ UNCHANGED gitVars
GitNext ==
    \/ GitMissing \/ IsInsideRepo \/ StatusSnapshot \/ LatestCommit \/ LatestTag
    \/ Tags \/ Remotes \/ Changed \/ Diff \/ Blame
    \/ CommitMetadata \/ CommitNames \/ CommitNumbers
    \/ CreateTag \/ TagTarget \/ TagSubject \/ GitEdit \/ GitAnswered
GitSpec == GitInit /\ [][GitNext]_gitVars

-----------------------------------------------------------------------------
(* What the answers promise.                                               *)

Once(P(_)) == \E r \in gitPast : P(r)
FirstOf(s) == SubSeq(s, 1, Min({Len(s), gitAsk.limit}))

StatusTrue ==
    gitAsk.cmd = "status" /\ gitGot.inside =>
      /\ Once(LAMBDA r : /\ gitGot.snapshot.entries = r.entries
                         /\ gitGot.snapshot.branch = (IF r.branch = "(detached)" THEN None ELSE r.branch)
                         /\ gitGot.snapshot.upstream = r.upstream /\ gitGot.snapshot.ab = r.ab)
      /\ gitGot.commit = NoCommit \/ Once(LAMBDA r : gitGot.commit = r.refs["HEAD"])
      /\ gitGot.tag = None \/ Once(LAMBDA r : \E i \in DOMAIN r.tags : r.tags[i].name = gitGot.tag)

\* A blame before the first commit is empty.
BlameOf(r) ==
    LET s == r.blame[gitAsk.path]
        asked == IF gitAsk.line = -1 THEN [i \in DOMAIN s |-> i] ELSE <<gitAsk.line>>
    IN IF r.refs["HEAD"] = NoCommit THEN <<>> ELSE [i \in DOMAIN asked |-> [line |-> asked[i], commit |-> s[asked[i]]]]
ListOf(r) ==
    CASE gitAsk.cmd \in {"changed", "ctx.changed"} -> r.entries
      [] gitAsk.cmd = "tags" /\ ~gitAsk.latest -> [i \in DOMAIN r.tags |-> r.tags[i].name]
      [] gitAsk.cmd = "tags" /\ gitAsk.latest -> [i \in 1..Min({1, Len(r.tags)}) |-> r.tags[i].name]
      [] gitAsk.cmd = "blame" -> BlameOf(r)
      [] gitAsk.cmd = "diff" -> DiffLines(r)
ListTrue ==
    gitAsk.cmd \in {"changed", "ctx.changed", "tags", "blame", "diff"} /\ gitGot.inside =>
      Once(LAMBDA r : gitGot.list = FirstOf(ListOf(r)) /\ gitGot.truncated = (Len(ListOf(r)) > gitAsk.limit))

RemotesTrue ==
    gitAsk.cmd = "remotes" /\ gitGot.inside =>
      Once(LAMBDA r : /\ Len(gitGot.list) = Len(r.remotes)
                      /\ \A i \in DOMAIN r.remotes :
                           /\ gitGot.list[i].name = r.remotes[i].name
                           /\ gitGot.list[i].fetch_url = r.remotes[i].fetch
                           /\ gitGot.list[i].push_url = Last(r.remotes[i].push)
                           /\ gitGot.list[i].provider = detect_provider(r.remotes[i].fetch))

\* The commit and its files belong together unless somebody moved the reference meanwhile.  Of an
\* annotated tag only the end of the hash is the commit's, and what the message of the tag has that
\* reads like a number of lines is taken for one.
CommitTrue ==
    gitAsk.cmd = "commit-info" /\ gitGot.inside =>
      /\ Once(LAMBDA r : /\ Last(gitGot.hash) = Resolves(r, gitAsk.ref)
                         /\ NoteOf(r, gitAsk.ref) = 0 => Len(gitGot.hash) = 1)
      /\ Cardinality({Resolves(r, gitAsk.ref) : r \in gitPast}) = 1 =>
           LET c == Commits[Last(gitGot.hash)]
               shown == IF c.names = <<>> THEN c.nums ELSE c.names
               words == TagNumbers(repo, gitAsk.ref) = <<>>
           IN /\ c.names # <<>> \/ words =>
                   /\ gitGot.file_count = Len(shown) /\ gitGot.truncated = (Len(shown) > gitAsk.limit)
                   /\ [i \in DOMAIN gitGot.list |-> gitGot.list[i].path] = FirstOf([i \in DOMAIN shown |-> shown[i].path])
              /\ words =>
                   /\ \A i \in DOMAIN gitGot.list : \A n \in Range(c.nums) :
                        n.path = gitGot.list[i].path => gitGot.list[i].add = n.add
                   /\ {n.path : n \in Range(c.nums)} \subseteq {f.path : f \in Range(shown)}
                        => gitGot.additions = sum_optional([i \in DOMAIN c.nums |-> c.nums[i].add])

\* Without others, a tag is new exactly when the command says so, and no other tag is touched.
TagTrue ==
    gitAsk.cmd = "tag.create" /\ gitEdits = 0 =>
      LET before == {r \in gitPast : \A s \in gitPast : Len(r.tags) <= Len(s.tags)}
      IN \A r \in before :
           IF gitCode = "ok" /\ gitGot.inside
           THEN /\ repo.tags = <<NewTag(r)>> \o r.tags
                /\ gitGot.commit \in {NoCommit, Resolves(r, gitAsk.ref)}
           ELSE repo = r

\* Every part of the answer of a git command was true of the repository at some moment while the
\* command ran, whatever others did meanwhile: the changes of the work tree, each with the old path of
\* its own rename, the tags, the remotes, the lines, a commit with its files; nothing is passed off as
\* complete that the limit cut.  A tag is created exactly when the command says so.
GitSound ==
    /\ gitPc = "done" /\ gitCode = "ok" => StatusTrue /\ ListTrue /\ RemotesTrue /\ CommitTrue
    /\ gitPc = "done" => TagTrue
==============================================================================
