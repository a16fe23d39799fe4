------------------------------ MODULE FileTools ------------------------------
(***************************************************************************)
(* The domains that read a work tree: file, search and ctx.  A command     *)
(* first lists what it will look at and then opens the files one by one,   *)
(* so somebody who edits the tree can come in between; a text file is      *)
(* inspected (link, kind, size, first bytes) and read in two steps.        *)
(*                                                                         *)
(* A node of the tree is a number, in the order of the names.  A path is   *)
(* the sequence of the names it goes through, each a node or "..", so that *)
(* a file seen through a link, or by a detour, has a path of its own.  A   *)
(* line of text is "hit" (it matches the pattern, or declares a symbol),   *)
(* "miss" or "bad" (not UTF-8).                                            *)
(***************************************************************************)
EXTENDS Integers, Sequences, FiniteSets, FiniteSetsExt, SequencesExt

CONSTANTS
    WorkTrees,     \* the trees a command may find
    ToolAsks,      \* the commands
    ToolCwd,       \* the directory of the request
    ProcessCwd,    \* the directory of the process
    MaxTreeEdits   \* edits of the tree while a command runs

ASSUME ToolAssumption == MaxTreeEdits \in Nat

VARIABLES
    tree,          \* node -> [kind, in, to, size, nul, media, hidden, lines]
    toolAsk,       \* the command that runs
    toolPc,        \* "start", "walk", "open", "read", "tree", "lines", "done"
    rootsLeft,     \* roots still to walk
    todo,          \* entries still to look at
    listed,        \* what the walk has found
    found,         \* the results
    skipped,       \* counters of the skipped files
    cut,           \* "truncated" of the answer
    toolCode,      \* "ok" or the error of the answer
    stopping,      \* the request was cancelled
    treeEdits,
    moments        \* history: the trees there were since the command started

toolVars == <<tree, toolAsk, toolPc, rootsLeft, todo, listed, found, skipped, cut, toolCode, stopping, treeEdits, moments>>

-----------------------------------------------------------------------------
(* The tree, as the file system shows it.                                  *)

Nodes == DOMAIN tree
Up == 0   \* ".."
Real(n) == IF tree[n].kind = "link" THEN tree[n].to ELSE n
Leaf(p) == p[Len(p)]
RECURSIVE NodeAt(_)
NodeAt(p) == IF Leaf(p) = Up THEN tree[Real(NodeAt(Front(p)))].in ELSE Leaf(p)
KindAt(p) == tree[NodeAt(p)].kind
RealAt(p) == Real(NodeAt(p))
RealKind(p) == tree[RealAt(p)].kind
Entries(n) == {m \in Nodes : tree[m].in = n /\ tree[m].kind # "gone"}

\* Path::exists: every directory on the way is there, and so is the target of a link.
Exists(p) ==
    /\ NodeAt(p) \in Nodes /\ KindAt(p) # "gone" /\ RealKind(p) # "gone"
    /\ \A i \in 1..(Len(p) - 1) : p[i + 1] # Up => tree[p[i + 1]].in = RealAt(SubSeq(p, 1, i))

\* rebase, resolve_context_path, absolutize_path_at: a path is joined, and stays as it was spelled.
Absolute(a) == IF a.abs THEN a.at ELSE ToolCwd \o a.at

\* A walk lists what is below its root, the first k names of p.  It goes through links only with
\* follow; it reports the links that lead back to a directory it is in, and leaves them out, and
\* those that lead nowhere.
RECURSIVE WalkBelow(_, _, _)
WalkBelow(p, k, follow) ==
    LET below == {p \o <<m>> : m \in Entries(RealAt(p))}
        Through(q) == follow /\ KindAt(q) = "link"
        Back(q) == Through(q) /\ \E i \in k..Len(p) : RealAt(SubSeq(p, 1, i)) = RealAt(q)
        Inside(q) == KindAt(q) = "dir" \/ (Through(q) /\ RealKind(q) = "dir" /\ ~Back(q))
        parts == {WalkBelow(q, k, follow) : q \in {q \in below : Inside(q)}}
    IN IF RealKind(p) # "dir" THEN [paths |-> {p}, loop |-> FALSE, broken |-> FALSE]
       ELSE [paths |-> {p} \cup {q \in below : ~Back(q)} \cup UNION {w.paths : w \in parts},
             loop |-> (\E q \in below : Back(q)) \/ (\E w \in parts : w.loop),
             broken |-> \/ \E q \in below : Through(q) /\ RealKind(q) = "gone"
                        \/ \E w \in parts : w.broken]
WalkFrom(p, follow) == WalkBelow(p, Len(p), follow)

\* The order of paths is the order of their components.
PathLess(p, q) ==
    \E k \in 1..Len(q) : /\ \A i \in 1..(k - 1) : i <= Len(p) /\ p[i] = q[i]
                         /\ k > Len(p) \/ p[k] < q[k]
InOrder(S, Less(_, _)) ==
    [k \in 1..Cardinality(S) |-> CHOOSE x \in S : Cardinality({y \in S : Less(y, x)}) = k - 1]
Sorted(S) == InOrder(S, PathLess)

\* apply_limit.
apply_limit(s, n) == SubSeq(s, 1, Min({Len(s), n}))

-----------------------------------------------------------------------------
(* inspect_text_file.                                                      *)

\* Whether a file is text is guessed from its first bytes: a NUL, or bytes that are not UTF-8
\* there (the first line of the model), make it binary.
is_probably_binary(f) == f.nul \/ (f.lines # <<>> /\ f.lines[1] = "bad")

inspect_text_file(p, max, follow) ==
    LET f == tree[RealAt(p)]
    IN CASE KindAt(p) = "gone" -> "missing"
         [] KindAt(p) = "link" /\ ~follow -> "symlink"
         [] KindAt(p) # "gone" /\ ~(KindAt(p) = "link" /\ ~follow) ->
              CASE f.kind = "gone" -> "missing"
                [] f.kind \in {"dir", "other"} -> "not_file"
                [] f.kind = "file" /\ f.size > max -> "large"
                [] f.kind = "file" /\ f.size <= max -> IF is_probably_binary(f) THEN "binary" ELSE "allow"

HasBadLine(s) == \E i \in DOMAIN s : s[i] = "bad"
HitLines(s) == InOrder({i \in DOMAIN s : s[i] = "hit"}, <)

-----------------------------------------------------------------------------
(* Outcomes.                                                               *)

NoSkips == [binary |-> 0, large |-> 0, symlink |-> 0]
Count(reason) == IF reason \in DOMAIN skipped THEN [skipped EXCEPT ![reason] = @ + 1] ELSE skipped

ToolAnswer(result) ==
    /\ toolPc' = "done" /\ toolCode' = result
    /\ UNCHANGED <<tree, toolAsk, rootsLeft, todo, listed, found, skipped, cut, stopping, treeEdits, moments>>

\* An action that neither edits the tree nor is told to stop.
Quiet == UNCHANGED <<tree, toolAsk, stopping, treeEdits, moments>>

Searching == toolAsk.cmd \in {"text", "files"}

\* A search asks whether it was cancelled before it starts, at every root and at every file it opens.
CancelPoint ==
    \/ toolPc = "start" /\ Searching
    \/ toolPc = "walk" /\ rootsLeft # <<>> /\ Searching
    \/ toolPc = "open" /\ todo # <<>> /\ toolAsk.cmd = "text"

Cancelled == stopping /\ CancelPoint /\ ToolAnswer("cancelled")

-----------------------------------------------------------------------------
(* Which paths a command is about.                                         *)

\* Without a path a search and a tree take the directory of the request; a pack takes ".",
\* the directory of the process.
Requested ==
    IF toolAsk.paths # <<>> THEN [i \in DOMAIN toolAsk.paths |-> Absolute(toolAsk.paths[i])]
    ELSE <<IF toolAsk.cmd = "pack" THEN ProcessCwd ELSE ToolCwd>>

validate_max_bytes == toolAsk.max >= 1

\* resolve_scope_at: a root must exist and may be a link only with follow.
ScopeError(ps) ==
    \E i \in DOMAIN ps : ~Exists(ps[i]) \/ (~toolAsk.follow /\ KindAt(ps[i]) = "link")
Roots == Sorted(Range(Requested))
DisplayRoot == IF Len(Roots) = 1 THEN Roots[1] ELSE ToolCwd

\* display_path: relative to the display root when it is below it.
display_path(p) ==
    CASE p = DisplayRoot -> <<Leaf(p)>>
      [] p # DisplayRoot /\ IsStrictPrefix(DisplayRoot, p) -> SubSeq(p, Len(DisplayRoot) + 1, Len(p))
      [] OTHER -> p

\* build_matcher, build_globset.
BadQuery == toolAsk.pattern \in {"empty", "malformed"} \/ toolAsk.badGlob

StartSearch ==
    /\ toolPc = "start" /\ Searching /\ ~stopping
    /\ IF \/ toolAsk.cmd = "text" /\ ~validate_max_bytes
          \/ ScopeError(Requested)
          \/ toolAsk.cmd = "text" /\ BadQuery
       THEN ToolAnswer("invalid_argument")
       ELSE /\ toolPc' = "walk" /\ rootsLeft' = Roots /\ Quiet
            /\ UNCHANGED <<todo, listed, found, skipped, cut, toolCode>>

-----------------------------------------------------------------------------
(* collect_files_from_roots.                                               *)

\* file_matches_globs: the globs of the model are the nodes they match.
GlobTakes(p) == toolAsk.globs = {} \/ Leaf(p) \in toolAsk.globs

\* collect_files_ignore_aware: hidden and ignored entries are left out; a loop of links, or a
\* link to nowhere, is an error.
SearchRoot(p) ==
    LET w == WalkFrom(p, toolAsk.follow)
        Visible(q) == \A i \in (Len(p) + 1)..Len(q) : ~tree[q[i]].hidden
        Kept(q) == RealKind(q) = "file" /\ (KindAt(q) = "link" => toolAsk.follow)
                   /\ (toolAsk.cmd = "text" => GlobTakes(q))
    IN [paths |-> {q \in w.paths : Visible(q) /\ Kept(q)}, bad |-> w.loop \/ w.broken]

\* execute_files: the query is looked for in the path that is shown; one match too many ends it.
FilesAnswer(paths) ==
    LET hits == SelectSeq(paths, LAMBDA p : Range(display_path(p)) \cap toolAsk.named # {})
    IN /\ found' = [i \in 1..Min({Len(hits), toolAsk.limit}) |-> display_path(hits[i])]
       /\ cut' = (Len(hits) > toolAsk.limit) /\ toolPc' = "done" /\ toolCode' = "ok"

WalkSearchRoot ==
    /\ toolPc = "walk" /\ Searching /\ rootsLeft # <<>> /\ ~stopping
    /\ LET p == rootsLeft[1]
       IN IF ~Exists(p) \/ RealKind(p) \notin {"file", "dir"} THEN ToolAnswer("invalid_argument")
          ELSE IF SearchRoot(p).bad THEN ToolAnswer("directory_read")
          ELSE /\ listed' = listed \cup SearchRoot(p).paths /\ rootsLeft' = Tail(rootsLeft) /\ Quiet
               /\ UNCHANGED <<toolPc, todo, found, skipped, cut, toolCode>>

\* The files of all roots, sorted, each once.
FilesListed ==
    /\ toolPc = "walk" /\ Searching /\ rootsLeft = <<>>
    /\ IF toolAsk.cmd = "files" THEN FilesAnswer(Sorted(listed)) /\ UNCHANGED todo
       ELSE todo' = Sorted(listed) /\ toolPc' = "open" /\ UNCHANGED <<found, cut, toolCode>>
    /\ Quiet /\ UNCHANGED <<rootsLeft, listed, skipped>>

-----------------------------------------------------------------------------
(* collect_text_matches, process_pack_entry, collect_symbols_for_file: one *)
(* file is inspected, then read.                                           *)

Opening == toolPc = "open" /\ todo # <<>>
NextFile == todo' = Tail(todo) /\ toolPc' = "open"

\* is_text_candidate: images, archives and the like are told by their names.
IsTextCandidate(p) == ~tree[NodeAt(p)].media

\* A pack lists every entry, whatever can be read of it; it stops when it has enough of them.
PackItem(p, text) ==
    [path |-> p, kind |-> KindAt(p), line |-> Len(text),
     symbols |-> apply_limit(HitLines(text), toolAsk.preview), more |-> Len(HitLines(text))]
Packed(p, text) ==
    /\ found' = Append(found, PackItem(p, text))
    /\ IF Len(found) + 1 >= toolAsk.limit
       THEN cut' = TRUE /\ toolPc' = "done" /\ toolCode' = "ok" /\ UNCHANGED todo
       ELSE UNCHANGED <<cut, toolCode>> /\ NextFile

Leaves(p) == IF toolAsk.cmd = "pack" THEN Packed(p, <<>>) ELSE UNCHANGED <<found, cut, toolCode>> /\ NextFile

\* execute_symbols counts the files it opens below a directory; a single file is always opened.
SymbolsFull ==
    /\ toolAsk.cmd = "symbols" /\ RealKind(Requested[1]) = "dir"
    /\ Cardinality(listed) - Len(todo) >= toolAsk.limit

Inspect ==
    /\ Opening /\ ~SymbolsFull /\ ~(stopping /\ CancelPoint)
    /\ LET p == todo[1]
           d == inspect_text_file(p, toolAsk.max, toolAsk.follow)
       IN CASE d = "missing" -> ToolAnswer("file_metadata")
            [] d = "allow" -> /\ Quiet /\ UNCHANGED <<rootsLeft, listed, skipped>>
                              /\ IF toolAsk.cmd # "text" /\ ~IsTextCandidate(p) THEN Leaves(p)
                                 ELSE toolPc' = "read" /\ UNCHANGED <<todo, found, cut, toolCode>>
            [] d \in {"symlink", "not_file", "large", "binary"} ->
                 skipped' = Count(d) /\ Leaves(p) /\ Quiet /\ UNCHANGED <<rootsLeft, listed>>

\* build_context_lines: the lines around a match, cut at both ends of the file.
ContextBefore(i) == IF toolAsk.context = 0 THEN {} ELSE Max({1, i - toolAsk.context})..(i - 1)
ContextAfter(i, n) == IF toolAsk.context = 0 \/ i >= n THEN {} ELSE (i + 1)..Min({n, i + toolAsk.context})
TextMatch(p, i, n) == [path |-> p, line |-> i, before |-> ContextBefore(i), after |-> ContextAfter(i, n)]

\* match_file: what is left of the limit bounds the matches of one file.
MatchFile(p, text) ==
    LET hits == HitLines(text)
        room == toolAsk.limit - Len(found)
        taken == apply_limit(hits, room)
    IN /\ found' = found \o [i \in DOMAIN taken |-> TextMatch(display_path(p), taken[i], Len(text))]
       /\ cut' = (Len(hits) > room)
       /\ IF Len(hits) > room THEN toolPc' = "done" /\ toolCode' = "ok" /\ UNCHANGED todo
          ELSE UNCHANGED toolCode /\ NextFile

SymbolsOf(p, text) ==
    LET taken == apply_limit(HitLines(text), toolAsk.preview)
    IN /\ found' = IF taken = <<>> THEN found ELSE Append(found, [path |-> p, symbols |-> taken])
       /\ UNCHANGED <<cut, toolCode>> /\ NextFile

\* What was inspected may have been replaced before it is read.  A search that was cancelled
\* notices at the first line.
ReadFile ==
    /\ toolPc = "read"
    /\ LET p == todo[1]
           f == tree[RealAt(p)]
       IN IF KindAt(p) = "gone" \/ f.kind # "file" THEN ToolAnswer("file_read")
          ELSE IF stopping /\ f.lines # <<>> /\ ~HasBadLine(f.lines) THEN ToolAnswer("cancelled")
          ELSE /\ Quiet /\ UNCHANGED <<rootsLeft, listed>>
               /\ IF HasBadLine(f.lines) THEN skipped' = Count("binary") /\ Leaves(p)
                  ELSE /\ UNCHANGED skipped
                       /\ CASE toolAsk.cmd = "text" -> MatchFile(p, f.lines)
                            [] toolAsk.cmd = "pack" -> Packed(p, f.lines)
                            [] toolAsk.cmd = "symbols" -> SymbolsOf(p, f.lines)

\* execute_symbols has opened as many files as it may, and there is another one.
SymbolsStop ==
    /\ Opening /\ SymbolsFull /\ cut' = TRUE /\ toolPc' = "done" /\ toolCode' = "ok"
    /\ Quiet /\ UNCHANGED <<rootsLeft, todo, listed, found, skipped>>

NoFileLeft ==
    /\ toolPc = "open" /\ todo = <<>>
    /\ IF rootsLeft = <<>> THEN ToolAnswer("ok")
       ELSE /\ toolPc' = "walk" /\ Quiet
            /\ UNCHANGED <<rootsLeft, todo, listed, found, skipped, cut, toolCode>>

-----------------------------------------------------------------------------
(* ctx pack and ctx symbols.  The walk follows the order of the names and  *)
(* skips a link that leads back to its own path.                           *)

StartPack ==
    /\ toolPc = "start" /\ toolAsk.cmd = "pack"
    /\ IF ~validate_max_bytes THEN ToolAnswer("invalid_argument")
       ELSE /\ toolPc' = "walk" /\ rootsLeft' = Requested /\ Quiet
            /\ UNCHANGED <<todo, listed, found, skipped, cut, toolCode>>

\* execute_pack takes a root when its turn comes, after what it has packed of the others.
PackRoot ==
    /\ toolPc = "walk" /\ toolAsk.cmd = "pack"
    /\ LET p == rootsLeft[1]
           w == WalkFrom(p, toolAsk.follow)
       IN IF ~Exists(p) THEN ToolAnswer("invalid_argument")
          ELSE IF w.broken THEN ToolAnswer("directory_read")
          ELSE /\ toolPc' = "open" /\ rootsLeft' = Tail(rootsLeft) /\ todo' = Sorted(w.paths)
               /\ listed' = listed \cup w.paths /\ Quiet /\ UNCHANGED <<found, skipped, cut, toolCode>>

StartSymbols ==
    /\ toolPc = "start" /\ toolAsk.cmd = "symbols"
    /\ LET p == Requested[1]
           w == WalkFrom(p, toolAsk.follow)
           files == {q \in w.paths : RealKind(q) = "file" /\ (KindAt(q) = "link" => toolAsk.follow)}
       IN IF ~validate_max_bytes \/ ScopeError(<<p>>) THEN ToolAnswer("invalid_argument")
          ELSE IF w.broken THEN ToolAnswer("directory_read")
          ELSE /\ toolPc' = "open" /\ todo' = Sorted(files) /\ listed' = files /\ Quiet
               /\ UNCHANGED <<rootsLeft, found, skipped, cut, toolCode>>

-----------------------------------------------------------------------------
(* file read, head, tail, stat and tree.                                   *)

LineTool == toolAsk.cmd \in {"read", "head", "tail"}

\* validate_line_range, then the file must pass the inspection: a skip is an error here.
StartLines ==
    /\ toolPc = "start" /\ LineTool
    /\ LET p == Requested[1]
           d == inspect_text_file(p, toolAsk.max, toolAsk.follow)
       IN CASE \/ toolAsk.cmd = "read" /\ (toolAsk.from = 0 \/ toolAsk.to < toolAsk.from)
               \/ ~validate_max_bytes -> ToolAnswer("invalid_argument")
            [] OTHER -> CASE d = "missing" -> ToolAnswer("file_metadata")
                          [] d = "allow" -> /\ toolPc' = "lines" /\ Quiet
                                            /\ UNCHANGED <<rootsLeft, todo, listed, found, skipped, cut, toolCode>>
                          [] d \in {"symlink", "not_file", "large", "binary"} -> ToolAnswer("invalid_argument")

\* read_lines_in_range stops one line after the cap and does not decode the lines before the
\* range; read_tail_lines decodes every line, and the limit cuts the end of its queue.
LinesOf(text) ==
    LET first == IF toolAsk.cmd = "read" THEN toolAsk.from ELSE 1
        last == IF toolAsk.cmd = "read" THEN toolAsk.to ELSE toolAsk.lines
        stop == Min({Len(text), last, first + toolAsk.limit})
        begin == Max({1, Len(text) - toolAsk.lines + 1})
    IN IF toolAsk.cmd = "tail"
       THEN [decoded |-> 1..Len(text),
             lines |-> begin..Min({Len(text), begin + toolAsk.limit - 1}),
             cut |-> Len(text) - begin + 1 > toolAsk.limit]
       ELSE [decoded |-> first..stop,
             lines |-> first..Min({stop, first + toolAsk.limit - 1}),
             cut |-> stop = first + toolAsk.limit]

ReadLines ==
    /\ toolPc = "lines"
    /\ LET p == Requested[1]
           f == tree[RealAt(p)]
           got == LinesOf(f.lines)
           asked == toolAsk.cmd = "read" \/ toolAsk.lines # 0
       IN IF asked /\ (KindAt(p) = "gone" \/ f.kind # "file") THEN ToolAnswer("file_read")
          ELSE IF asked /\ \E i \in got.decoded : f.lines[i] = "bad" THEN ToolAnswer("invalid_argument")
          ELSE /\ found' = InOrder(got.lines, <) /\ cut' = got.cut
               /\ toolPc' = "done" /\ toolCode' = "ok" /\ Quiet
               /\ UNCHANGED <<rootsLeft, todo, listed, skipped>>

Stat ==
    /\ toolPc = "start" /\ toolAsk.cmd = "stat"
    /\ LET p == Requested[1]
       IN IF KindAt(p) = "gone" THEN ToolAnswer("file_metadata")
          ELSE /\ found' = <<[path |-> p, kind |-> KindAt(p)]>> /\ toolPc' = "done" /\ toolCode' = "ok"
               /\ Quiet /\ UNCHANGED <<rootsLeft, todo, listed, skipped, cut>>

StartTree ==
    /\ toolPc = "start" /\ toolAsk.cmd = "tree" /\ toolPc' = "tree" /\ todo' = <<Requested[1]>>
    /\ Quiet /\ UNCHANGED <<rootsLeft, listed, found, skipped, cut, toolCode>>

\* collect_tree_entries: listed holds the directories that were entered, each at most once
\* however many links lead to it.
Enters(p) ==
    /\ RealKind(p) = "dir" /\ (KindAt(p) = "dir" \/ toolAsk.follow)
    /\ Len(p) - Len(Requested[1]) < toolAsk.depth /\ RealAt(p) \notin listed

TreeEntry ==
    /\ toolPc = "tree" /\ todo # <<>>
    /\ LET p == todo[1]
       IN IF KindAt(p) = "gone" THEN ToolAnswer("file_metadata")
          ELSE IF KindAt(p) = "link" /\ toolAsk.follow /\ RealKind(p) = "gone" THEN ToolAnswer("file_metadata")
          ELSE /\ found' = Append(found, p)
               /\ IF Enters(p)
                  THEN /\ listed' = listed \cup {RealAt(p)}
                       /\ todo' = Sorted({p \o <<m>> : m \in Entries(RealAt(p))}) \o Tail(todo)
                  ELSE UNCHANGED listed /\ todo' = Tail(todo)
               /\ Quiet /\ UNCHANGED <<toolPc, rootsLeft, skipped, cut, toolCode>>

TreeDone ==
    /\ toolPc = "tree" /\ todo = <<>>
    /\ found' = apply_limit(found, toolAsk.limit) /\ cut' = (Len(found) > toolAsk.limit)
    /\ toolPc' = "done" /\ toolCode' = "ok" /\ Quiet
               /\ UNCHANGED <<rootsLeft, todo, listed, skipped>>

-----------------------------------------------------------------------------
(* Everybody else.                                                         *)

CancelTool ==
    /\ ~stopping /\ toolPc # "done" /\ Searching /\ toolAsk.typed /\ stopping' = TRUE
    /\ UNCHANGED <<tree, toolAsk, toolPc, rootsLeft, todo, listed, found, skipped, cut, toolCode, treeEdits, moments>>

\* A file is deleted, or written anew with other lines.
EditTree ==
    /\ treeEdits < MaxTreeEdits /\ toolPc \in {"walk", "open", "read", "lines", "tree"}
    /\ \E n \in {n \in Nodes : tree[n].kind = "file"} :
         tree' \in {[tree EXCEPT ![n].kind = "gone"], [tree EXCEPT ![n].lines = <<"hit">>],
                    [tree EXCEPT ![n].lines = <<"miss", "bad">>]}
    /\ treeEdits' = treeEdits + 1 /\ moments' = moments \cup {tree'}
    /\ UNCHANGED <<toolAsk, toolPc, rootsLeft, todo, listed, found, skipped, cut, toolCode, stopping>>

ToolInit ==
    /\ tree \in WorkTrees /\ toolAsk \in ToolAsks /\ toolPc = "start" /\ rootsLeft = <<>> /\ todo = <<>>
    /\ listed = {} /\ found = <<>> /\ skipped = NoSkips /\ cut = FALSE /\ toolCode = "none"
    /\ stopping = FALSE /\ treeEdits = 0 /\ moments = {tree}

ToolAnswered == toolPc = "done" /\ UNCHANGED toolVars

ToolNext ==
    \/ Cancelled \/ StartSearch \/ WalkSearchRoot \/ FilesListed \/ Inspect \/ ReadFile
    \/ SymbolsStop \/ NoFileLeft \/ StartPack \/ PackRoot \/ StartSymbols
    \/ StartLines \/ ReadLines \/ Stat \/ StartTree \/ TreeEntry
    \/ TreeDone \/ CancelTool \/ EditTree \/ ToolAnswered

ToolSpec == ToolInit /\ [][ToolNext]_toolVars

-----------------------------------------------------------------------------
(* What the answers promise.  The references look at the tree as a whole,  *)
(* without walking it, at one of the moments of the command.               *)

RECURSIVE Above(_)
Above(n) == {n} \cup IF tree[n].in = 0 THEN {} ELSE Above(tree[n].in)
Top(i) == NodeAt(Requested[i])
Holding(n) == {i \in DOMAIN Requested : Top(i) \in Above(n)}
Scope(t) == {n \in DOMAIN t : t[n].kind # "gone" /\ Holding(n) # {}}
Depth(n) == Cardinality(Above(n) \ Above(Top(1)))
Firsts(S, k, Less(_, _)) == {x \in S : Cardinality({y \in S : Less(y, x)}) < k}
Times(x, s) == Cardinality({i \in DOMAIN s : s[i] = x})
Plain == \A i \in DOMAIN Requested : Up \notin Range(Requested[i])

Text(f) == f.kind = "file" /\ f.size <= toolAsk.max /\ ~f.nul /\ ~HasBadLine(f.lines)
Hits(f) == {i \in DOMAIN f.lines : f.lines[i] = "hit"}
Seen(n) == \E i \in Holding(n) : \A m \in Above(n) \ Above(Top(i)) : ~tree[m].hidden
Taken(n) == Seen(n) /\ (toolAsk.globs = {} \/ n \in toolAsk.globs)
MatchesIn(t, n) == IF n \in Scope(t) /\ Taken(n) /\ Text(t[n]) THEN Hits(t[n]) ELSE {}
AllMatches == UNION {{<<n, i>> : i \in MatchesIn(tree, n)} : n \in Nodes}
MatchLess(x, y) == x[1] < y[1] \/ (x[1] = y[1] /\ x[2] < y[2])
Reported == [i \in DOMAIN found |-> <<Leaf(found[i].path), found[i].line>>]

\* A match is reported once for every way its root was spelled, so once where no root has a "..",
\* although roots overlap; then "truncated" means that there is one more.  In a tree that was
\* edited, what is reported of one file is what that file was at one moment.
SearchSound ==
    toolAsk.cmd = "text" /\ ~toolAsk.follow =>
      /\ Len(found) <= toolAsk.limit
      /\ treeEdits = 0 /\ Plain =>
           /\ Range(Reported) = Firsts(AllMatches, toolAsk.limit, MatchLess) /\ IsInjective(Reported)
           /\ cut = (Cardinality(AllMatches) > toolAsk.limit)
      /\ treeEdits = 0 /\ ~cut =>
           /\ Range(Reported) = AllMatches
           /\ \A x \in AllMatches : Times(x, Reported) <= Cardinality({Requested[i] : i \in Holding(x[1])})
      /\ \A n \in Nodes : \E t \in moments :
           LET lines == {x[2] : x \in {x \in Range(Reported) : x[1] = n}}
           IN lines = IF cut THEN Firsts(MatchesIn(t, n), Cardinality(lines), <) ELSE MatchesIn(t, n)

FilesSound ==
    toolAsk.cmd = "files" /\ ~toolAsk.follow /\ Plain /\ treeEdits = 0 =>
      LET files == {n \in Scope(tree) : tree[n].kind = "file" /\ Seen(n)}
          named == {Leaf(found[i]) : i \in DOMAIN found}
      IN /\ named \subseteq files /\ Cardinality(named) = Len(found) /\ Len(found) <= toolAsk.limit
         /\ ~cut => {n \in files : n \in toolAsk.named} \subseteq named
         /\ \A n \in named : (Above(n) \cup {n}) \cap toolAsk.named # {}

AskedLines(text) ==
    {i \in DOMAIN text : CASE toolAsk.cmd = "read" -> toolAsk.from <= i /\ i <= toolAsk.to
                           [] toolAsk.cmd = "head" -> i <= toolAsk.lines
                           [] toolAsk.cmd = "tail" -> Len(text) - i < toolAsk.lines}
\* The lines are those the file had at one moment.
LinesSound ==
    LineTool => \E t \in moments :
      LET text == t[Real(Top(1))].lines
      IN /\ Range(found) = Firsts(AskedLines(text), toolAsk.limit, <) /\ IsInjective(found)
         /\ cut = (Cardinality(AskedLines(text)) > toolAsk.limit)
         /\ \A i \in Range(found) : text[i] # "bad"

TreeSound ==
    toolAsk.cmd = "tree" =>
      /\ Len(found) <= toolAsk.limit
      /\ \A i \in DOMAIN found : \E t \in moments : t[NodeAt(found[i])].kind # "gone"
      /\ ~toolAsk.follow /\ ~cut /\ treeEdits = 0 => /\ IsInjective(found)
           /\ {NodeAt(found[i]) : i \in DOMAIN found} = {n \in Scope(tree) : Depth(n) <= toolAsk.depth}
      /\ \A i, j \in DOMAIN found :
           /\ Len(found[i]) > Len(Requested[1]) /\ Len(found[j]) > Len(Requested[1])
           /\ RealAt(Front(found[i])) = RealAt(Front(found[j]))
           => Front(found[i]) = Front(found[j])

\* The symbols of a file: the first few, without a word about the others.
Declared(f) == IF Text(f) /\ ~f.media THEN Hits(f) ELSE {}
Shown(x, f) == Range(x.symbols) = Firsts(Declared(f), toolAsk.preview, <)

\* A pack has an entry once for every root it is under; it says that it left something out as soon
\* as it is full, even when nothing is left.  Only a file it says nothing of lets symbols tell
\* that there is more: "truncated" is about files.  A file shows the symbols of one moment.
CtxSound ==
    /\ toolAsk.cmd = "pack" /\ ~toolAsk.follow /\ (\A i \in DOMAIN Requested : tree[Top(i)].kind # "link") =>
         LET packed == [i \in DOMAIN found |-> NodeAt(found[i].path)]
         IN /\ Len(found) <= Max({1, toolAsk.limit})
            /\ ~cut /\ treeEdits = 0 => \A n \in Nodes :
                 Times(n, packed) = IF n \in Scope(tree) THEN Cardinality(Holding(n)) ELSE 0
            /\ \A i \in DOMAIN found : \E t \in moments :
                 Shown(found[i], t[packed[i]]) /\ found[i].more = Cardinality(Declared(t[packed[i]]))
    /\ toolAsk.cmd = "symbols" /\ ~toolAsk.follow /\ tree[Top(1)].kind = "dir" =>
         LET files == {n \in Scope(tree) : tree[n].kind = "file"}
             told == [i \in DOMAIN found |-> NodeAt(found[i].path)]
         IN /\ treeEdits = 0 =>
                 /\ cut = (Cardinality(files) > toolAsk.limit)
                 /\ IsInjective(told)
                 /\ Range(told) = {n \in Firsts(files, toolAsk.limit, <) : Declared(tree[n]) # {}}
            /\ \A i \in DOMAIN found : \E t \in moments : Shown(found[i], t[told[i]])

\* What a command that reads the work tree answers is true of it.  A search returns the first
\* matches of all files under its roots, each once although roots overlap (a root spelled by a
\* detour makes another answer of it), and says "truncated" when and only when there is one more;
\* so do the line commands with the lines of their range; a tree enters every directory once
\* although links lead back to it; a pack has every entry once for each root it is under.  When the
\* tree is edited while the command runs, what is said of one file is what it was at one moment.
ReadToolsSound ==
    toolPc = "done" /\ toolCode = "ok" =>
      SearchSound /\ FilesSound /\ LinesSound /\ TreeSound /\ CtxSound
==============================================================================
