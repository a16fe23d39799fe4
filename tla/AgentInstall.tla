---------------------------- MODULE AgentInstall ----------------------------
(***************************************************************************)
(* `ah ai install` and `ah ai uninstall` (crates/ah-ai): registering the   *)
(* MCP server with one agent and keeping a managed block in its rules      *)
(* file. Both the agent's configuration and the rules file belong to the   *)
(* user: they are edited by the agent, by the user and by every run of     *)
(* `ah`, and a run may fail at each of its calls or be killed between them.*)
(*                                                                         *)
(* A configuration document holds an entry per server name; `rest` counts  *)
(* everything else in it, and `stray` says whether something that is no    *)
(* JSON object stands where the servers belong, or is the whole document.  *)
(* The rules file is a sequence of tokens: words, line ends, and the two   *)
(* markers of the block.                                                   *)
(***************************************************************************)
EXTENDS Naturals, Sequences, SequencesExt

CONSTANTS
    Requests,      \* what a run may be asked: [op, target, scope, mcp, rules, transport, dry, ask]
    Configs,       \* what the agent's documents may hold at first
    RulesTexts,    \* what the rules file may hold at first
    MaxEdits,      \* bound: edits by the user or the agent
    MaxRuns        \* bound: runs of `ah`

SERVER_NAME == "aihelper"
LEGACY == "ah"
Names == {SERVER_NAME, LEGACY}

\* The agents, as far as they differ here: who writes the configuration, how a
\* registration is looked up, which scopes there are.
TARGETS ==
    [claude   |-> [registrar |-> "cli",  probe |-> "claude",   scopes |-> {"local", "project", "user"}],
     codex    |-> [registrar |-> "cli",  probe |-> "list",     scopes |-> {"project", "user"}],
     gemini   |-> [registrar |-> "cli",  probe |-> "json",     scopes |-> {"project", "user"}],
     cursor   |-> [registrar |-> "file", probe |-> "json",     scopes |-> {"project", "user"}],
     copilot  |-> [registrar |-> "file", probe |-> "json",     scopes |-> {"project"}],
     opencode |-> [registrar |-> "file", probe |-> "opencode", scopes |-> {"project", "user"}]]

\* What a document may register a server with, and the documents and requests there are:
\* an agent has a document to register in, nothing is registered where no object is, a
\* registration has a known transport, and the words of a block are no markers.
AgentSpecs == {"none", "odd", "stdio", "http"}
AgentDocument == [aihelper : AgentSpecs, ah : AgentSpecs, rest : Nat, sound : BOOLEAN,
                  stray : {"none", "servers", "root"}]
ASSUME AgentAssumption ==
    /\ \A d \in Configs : /\ d \in Seq(AgentDocument) /\ d # <<>>
                          /\ \A i \in DOMAIN d : d[i].stray # "none" => d[i].aihelper = "none" /\ d[i].ah = "none"
    /\ \A r \in Requests : /\ r.op \in {"install", "uninstall"} /\ r.target \in DOMAIN TARGETS
                           /\ r.transport \in {"stdio", "http", "managed", "offhost"}
                           /\ {r.mcp, r.rules, r.dry, r.ask} \subseteq BOOLEAN
                           /\ r.rules_domains \notin {"begin", "end", "nl"}
    /\ \A text \in RulesTexts : text \in Seq({text[i] : i \in DOMAIN text})

require_scope(t, scope) == scope \in TARGETS[t].scopes

VARIABLES
    docs,          \* the agent's documents at the registration's scope, least significant first
    rules,         \* the rules file: [there, text]
    managed,       \* the managed service: Running, Stopped, NotInstalled, NeedsRepair
    run,           \* the run of `ah`: [at, req, spec, seen, had, failures, doc, left, after, text]
    edits, runs,
    raced,         \* the edits by somebody else that fell into the read-modify-write of the run
    userWords          \* what the user wrote in the rules file

agentVars == <<docs, rules, managed, run, edits, runs, raced, userWords>>
worldVars == <<docs, rules, managed, edits, runs, raced, userWords>>

NoRun == [at |-> "idle", req |-> [op |-> "none"], spec |-> "none", seen |-> "none", had |-> FALSE,
         failures |-> 0, doc |-> <<>>, left |-> {}, after |-> "none", text |-> [there |-> FALSE, text |-> <<>>]]
Target == TARGETS[run.req.target]
Cli == Target.registrar = "cli"

-----------------------------------------------------------------------------
(* What the agent has registered. An entry is a specification, "none", or   *)
(* "odd": present, but disabled or not readable as a specification.         *)

\* read: a document that cannot be parsed is reported and never overwritten.
Readable(d) == \A i \in DOMAIN d : d[i].sound

AgentEntries(d, name) == {i \in DOMAIN d : d[i][name] # "none"}

\* registrar::probe: the agent's own list, its JSON document, or OpenCode's files
\* laid over each other.
probe(d, name) ==
    IF AgentEntries(d, name) = {} THEN "none"
    ELSE LET top == CHOOSE i \in AgentEntries(d, name) : \A j \in AgentEntries(d, name) : j <= i
         IN IF d[top][name] = "odd" THEN "none" ELSE d[top][name]

\* opencode_config::contains also counts an entry that is switched off.
Present(t, d, name) ==
    IF TARGETS[t].probe = "opencode" THEN AgentEntries(d, name) # {} ELSE probe(d, name) # "none"

\* The most significant document that exists, which a registration goes to.
TopOf(d) == d[Len(d)]

\* json_config::merge, opencode_config::merge: this entry is replaced. What stands in
\* place of the servers, or of the document, and is no object, makes room for it.
merge(d, name, spec) ==
    LET top == TopOf(d)
    IN [d EXCEPT ![Len(d)] = [top EXCEPT ![name] = spec, !.stray = "none",
                                         !.rest = IF top.stray = "root" THEN 0 ELSE top.rest]]

\* Only json_config::merge makes room; opencode_config::merge refuses such a document,
\* and so, it is assumed, does the CLI of an agent.
MakesRoom(t) == TARGETS[t].registrar = "file" /\ TARGETS[t].probe = "json"
Mergeable(t, d) == Readable(d) /\ (TopOf(d).stray = "none" \/ MakesRoom(t))

\* json_config::remove, opencode_config::remove.
remove(d, name) == [i \in DOMAIN d |-> [d[i] EXCEPT ![name] = "none"]]

-----------------------------------------------------------------------------
(* The managed block.                                                       *)

BEGIN == "begin"
END == "end"
block(domains) == <<BEGIN, domains, END>>

Positions(text, token) == {i \in DOMAIN text : text[i] = token}
First(S) == CHOOSE i \in S : \A j \in S : i <= j

Malformed(text) ==
    LET b == Positions(text, BEGIN)  e == Positions(text, END)
    IN ~ (\/ b = {} /\ e = {}
          \/ b # {} /\ e # {} /\ First(e) > First(b))
Located(text) == Positions(text, BEGIN) # {} /\ ~ Malformed(text)

Before(text) == SubSeq(text, 1, First(Positions(text, BEGIN)) - 1)
After(text) == SubSeq(text, First(Positions(text, END)) + 1, Len(text))
Managed(text) == SubSeq(text, First(Positions(text, BEGIN)), First(Positions(text, END)))

EndsLine(text) == text # <<>> /\ Last(text) = "nl"

\* upsert.
upsert(text, b) ==
    IF Located(text) THEN Before(text) \o b \o After(text)
    ELSE text \o (IF text = <<>> THEN <<>> ELSE IF EndsLine(text) THEN <<"nl">> ELSE <<"nl", "nl">>)
              \o b \o <<"nl">>

\* trim_end_matches, trim_start_matches over line ends.
TrimEnd(text) ==
    LET kept == {0} \cup {i \in DOMAIN text : text[i] # "nl"}
    IN SubSeq(text, 1, CHOOSE i \in kept : \A j \in kept : j <= i)
TrimStart(text) ==
    LET kept == {Len(text) + 1} \cup {i \in DOMAIN text : text[i] # "nl"}
    IN SubSeq(text, First(kept), Len(text))

\* Mutant: the block is taken to end at the last end marker of the file.
stripToLastMarker(text) ==
    LET e == Positions(text, END)
        rest == SubSeq(text, (CHOOSE i \in e : \A j \in e : j <= i) + 1, Len(text))
    IN IF ~ Located(text) THEN text ELSE TrimEnd(Before(text)) \o TrimStart(rest)

\* strip.
strip(text) ==
    LET head == TrimEnd(Before(text))  tail == TrimStart(After(text))
        joined == head \o (IF head # <<>> /\ tail # <<>> THEN <<"nl", "nl">> ELSE <<>>) \o tail
    IN IF ~ Located(text) THEN text
       ELSE IF joined # <<>> /\ ~ EndsLine(joined) THEN Append(joined, "nl") ELSE joined

\* The user's own words: everything outside the block. A file with an unbalanced
\* block is the user's as a whole.
Words(text) ==
    SelectSeq(IF Located(text) THEN Before(text) \o After(text) ELSE text, LAMBDA w : w # "nl")

-----------------------------------------------------------------------------
(* A run.                                                                   *)

GoesTo(at) == run' = [run EXCEPT !.at = at]
Fail == run' = [run EXCEPT !.at = "failed"]
Over == {"idle", "done", "failed", "cancelled", "panicked"}

\* classify, plan_managed: the endpoint the service will serve, unless it needs repair.
PlannedSpec(req) == IF req.transport = "managed" THEN "http" ELSE req.transport
PlanRefused(req) == req.transport = "managed" /\ managed = "NeedsRepair"

\* http_spec: only a plain loopback endpoint is ever registered.
SpecRefused(req) == req.transport = "offhost"

\* Only OpenCode has several documents at a scope.
Has(t, d) == Len(d) = 1 \/ TARGETS[t].probe = "opencode"

\* install up to the confirmation: the request is checked and planned, read-only.
\* `seen` is the service as detected. plan_summary renders the agent's command
\* line, which a target without one does not have.
BeginInstall(req) ==
    /\ run.at \in Over /\ runs < MaxRuns /\ req.op = "install" /\ Has(req.target, docs)
    /\ runs' = runs + 1 /\ raced' = 0
    /\ run' = [NoRun EXCEPT !.req = req, !.seen = managed,
                 !.spec = IF req.mcp THEN PlannedSpec(req) ELSE "none",
                 !.at = IF \/ ~ req.mcp /\ ~ req.rules
                           \/ ~ require_scope(req.target, req.scope)
                           \/ req.mcp /\ (PlanRefused(req) \/ SpecRefused(req)) THEN "failed"
                        ELSE IF ~ req.ask THEN "ensure"
                        ELSE IF req.mcp /\ TARGETS[req.target].registrar = "file" THEN "panicked"
                        ELSE "confirm"]
    /\ UNCHANGED <<docs, rules, managed, edits, userWords>>

\* prompt::confirm: nothing was executed or written before it.
Confirm ==
    /\ run.at = "confirm"
    /\ \/ GoesTo("ensure") \/ GoesTo("cancelled") \/ Fail
    /\ UNCHANGED worldVars

\* managed::ensure_ready: acts on the state detected before the confirmation, which for
\* a running service may lack its endpoint. The service's own start and install check
\* again what they find.
EnsureReady ==
    /\ run.at = "ensure"
    /\ IF ~ run.req.mcp THEN GoesTo("rules") /\ UNCHANGED managed
       ELSE IF run.req.transport # "managed" \/ run.req.dry
       THEN GoesTo("probe") /\ UNCHANGED managed
       ELSE \/ Fail /\ UNCHANGED managed
            \/ run.seen = "Running" /\ GoesTo("probe") /\ UNCHANGED managed
            \/ /\ run.seen # "Running"
               /\ managed # "NeedsRepair" /\ (run.seen = "Stopped" => managed # "NotInstalled")
               /\ managed' = "Running" /\ GoesTo("probe")
    /\ UNCHANGED <<docs, rules, edits, runs, raced, userWords>>

\* uninstall: resolve_scope, then the probe.
BeginUninstall(req) ==
    /\ run.at \in Over /\ runs < MaxRuns /\ req.op = "uninstall" /\ Has(req.target, docs)
    /\ runs' = runs + 1 /\ raced' = 0
    /\ run' = [NoRun EXCEPT !.req = req, !.seen = managed,
                 !.at = IF require_scope(req.target, req.scope) THEN "probe" ELSE "failed"]
    /\ UNCHANGED <<docs, rules, managed, edits, userWords>>

\* install_mcp and uninstall up to the first mutation. A document may not be read, and
\* the agent's own list may not be given.
ProbeAgent ==
    LET t == run.req.target
        now == probe(docs, SERVER_NAME)
        present == Present(t, docs, SERVER_NAME)
        next == IF run.req.op = "uninstall" THEN IF present THEN "drop" ELSE "legacy"
                ELSE IF now = run.spec THEN "legacy"
                ELSE IF present /\ Cli THEN "drop" ELSE "add"
    IN /\ run.at = "probe"
       /\ \/ /\ Readable(docs)
             /\ run' = [run EXCEPT !.had = present, !.seen = now,
                          !.at = IF run.req.dry /\ next # "legacy" THEN "legacy" ELSE next]
          \/ Fail
       /\ UNCHANGED worldVars

\* apply_remove. The agent's CLI does it in one call, which may fail; the documents are
\* all read here, and those with the entry are written by Store.
DropEntry(name, next) ==
    \/ Cli /\ docs' = remove(docs, name) /\ GoesTo(next) /\ UNCHANGED raced
    \/ Cli /\ run' = [run EXCEPT !.at = "failed", !.failures = @ + 1] /\ UNCHANGED <<docs, raced>>
    \/ /\ ~ Cli /\ Readable(docs) /\ raced' = 0
       /\ run' = [run EXCEPT !.at = "store", !.after = next, !.doc = remove(docs, name),
                             !.left = AgentEntries(docs, name)]
       /\ UNCHANGED docs
    \/ ~ Cli /\ Fail /\ UNCHANGED <<docs, raced>>

\* A replacement removes the old registration first.
Drop ==
    /\ run.at = "drop"
    /\ DropEntry(SERVER_NAME, IF run.req.op = "install" THEN "add" ELSE "legacy")
    /\ UNCHANGED <<rules, managed, edits, runs, userWords>>

\* Mutant: an add that fails is reported without restoring the old registration.
AddWithoutRestore ==
    /\ run.at = "add"
    /\ \/ /\ Cli
          /\ \/ Mergeable(run.req.target, docs) /\ docs' = merge(docs, SERVER_NAME, run.spec) /\ GoesTo("legacy")
             \/ run' = [run EXCEPT !.at = "failed", !.failures = @ + 1] /\ UNCHANGED docs
          /\ UNCHANGED raced
       \/ /\ ~ Cli /\ Mergeable(run.req.target, docs) /\ raced' = 0
          /\ run' = [run EXCEPT !.at = "store", !.after = "legacy", !.doc = merge(docs, SERVER_NAME, run.spec),
                                !.left = {Len(docs)}]
          /\ UNCHANGED docs
       \/ ~ Cli /\ Fail /\ UNCHANGED <<docs, raced>>
    /\ UNCHANGED <<rules, managed, edits, runs, userWords>>

\* Registering: one call of the agent's CLI, and where it fails the previous
\* registration again; or a document read here and written by Store.
Add ==
    /\ run.at = "add"
    /\ \/ /\ Cli
          /\ \/ Mergeable(run.req.target, docs) /\ docs' = merge(docs, SERVER_NAME, run.spec) /\ GoesTo("legacy")
             \/ /\ run' = [run EXCEPT !.failures = @ + 1, !.at = IF run.seen = "none" THEN "failed" ELSE "restore"]
                /\ UNCHANGED docs
          /\ UNCHANGED raced
       \/ /\ ~ Cli /\ Mergeable(run.req.target, docs) /\ raced' = 0
          /\ run' = [run EXCEPT !.at = "store", !.after = "legacy", !.doc = merge(docs, SERVER_NAME, run.spec),
                                !.left = {Len(docs)}]
          /\ UNCHANGED docs
       \/ ~ Cli /\ Fail /\ UNCHANGED <<docs, raced>>
    /\ UNCHANGED <<rules, managed, edits, runs, userWords>>

Restore ==
    /\ run.at = "restore"
    /\ \/ Mergeable(run.req.target, docs) /\ docs' = merge(docs, SERVER_NAME, run.seen) /\ Fail
       \/ run' = [run EXCEPT !.at = "failed", !.failures = @ + 1] /\ UNCHANGED docs
    /\ UNCHANGED <<rules, managed, edits, runs, raced, userWords>>

\* atomic_write of a document that was read and changed. OpenCode's are written one
\* after the other, and a write that fails leaves those before it written.
StoreNext == First(run.left)
Store ==
    /\ run.at = "store"
    /\ \/ /\ docs' = [docs EXCEPT ![StoreNext] = run.doc[StoreNext]]
          /\ run' = [run EXCEPT !.left = @ \ {StoreNext},
                                !.at = IF run.left = {StoreNext} THEN run.after ELSE "store"]
       \/ Fail /\ UNCHANGED docs
    /\ UNCHANGED <<rules, managed, edits, runs, raced, userWords>>

\* Mutant: only a run that changed the registration looks for the old name.
LegacyWhenChanged ==
    /\ run.at = "legacy"
    /\ \/ Fail /\ UNCHANGED <<docs, raced>>
       \/ /\ Readable(docs)
          /\ IF Present(run.req.target, docs, LEGACY) /\ run.seen # run.spec /\ ~ run.req.dry
             THEN DropEntry(LEGACY, "rules")
             ELSE GoesTo("rules") /\ UNCHANGED <<docs, raced>>
    /\ UNCHANGED <<rules, managed, edits, runs, userWords>>

\* legacy_registration: the name an earlier AIHelper used goes too. It is looked up anew,
\* which may fail.
Legacy ==
    /\ run.at = "legacy"
    /\ \/ Fail /\ UNCHANGED <<docs, raced>>
       \/ /\ Readable(docs)
          /\ IF Present(run.req.target, docs, LEGACY) /\ ~ run.req.dry
             THEN DropEntry(LEGACY, "rules")
             ELSE GoesTo("rules") /\ UNCHANGED <<docs, raced>>
    /\ UNCHANGED <<rules, managed, edits, runs, userWords>>

\* The end of uninstall: the block goes, and a file that is empty without it.
Uninstalled(text) == LET left == strip(text) IN IF TrimStart(left) = <<>> THEN <<>> ELSE left

\* install_rules and the end of uninstall: a file that cannot be read or has an unbalanced
\* block is refused, also after the registration was changed; what is unchanged is not
\* written.
RulesRead ==
    LET text == rules.text
        next == IF run.req.op = "install" THEN upsert(text, block(run.req.rules_domains)) ELSE Uninstalled(text)
    IN /\ run.at = "rules"
       /\ IF run.req.op = "install" /\ ~ run.req.rules THEN GoesTo("done")
          ELSE \/ Fail
               \/ /\ ~ Malformed(text)
                  /\ IF run.req.dry \/ next = text THEN GoesTo("done")
                     ELSE run' = [run EXCEPT !.at = "write",
                                             !.text = [there |-> TrimStart(next) # <<>>, text |-> next]]
       /\ raced' = 0
       /\ UNCHANGED <<docs, rules, managed, edits, runs, userWords>>

\* rules::write, or rules::delete of a file nothing else is in.
RulesWrite ==
    /\ run.at = "write"
    /\ \/ /\ rules' = IF run.text.there THEN run.text ELSE [there |-> FALSE, text |-> <<>>]
          /\ userWords' = IF raced > 0 THEN Words(rules'.text) ELSE userWords
          /\ GoesTo("done")
       \/ Fail /\ UNCHANGED <<rules, userWords>>
    /\ UNCHANGED <<docs, managed, edits, runs, raced>>

\* The process is killed between two of its calls.
Kill ==
    /\ run.at \notin Over
    /\ run' = [NoRun EXCEPT !.failures = 2]
    /\ UNCHANGED worldVars

-----------------------------------------------------------------------------
(* Everybody else.                                                          *)

\* An edit falls into the read-modify-write of the run at stage `at`.
Counted(at) == raced' = IF run.at = at THEN raced + 1 ELSE raced

\* The agent or the user changes something else in a document.
EditDocument ==
    /\ edits < MaxEdits /\ edits' = edits + 1
    /\ \E i \in DOMAIN docs : docs[i].sound /\ docs' = [docs EXCEPT ![i].rest = @ + 1]
    /\ Counted("store")
    /\ UNCHANGED <<rules, managed, run, runs, userWords>>

\* The user adds a word at either end of the rules file.
EditRules ==
    /\ edits < MaxEdits /\ edits' = edits + 1
    /\ \E text \in {<<"w">> \o rules.text, rules.text \o <<"w">>} :
         rules' = [there |-> TRUE, text |-> text] /\ userWords' = Words(text)
    /\ Counted("write")
    /\ UNCHANGED <<docs, managed, run, runs>>

\* The managed service is stopped, removed or damaged by somebody else.
ServiceChanges ==
    /\ edits < MaxEdits /\ edits' = edits + 1
    /\ managed' \in {"Running", "Stopped", "NotInstalled", "NeedsRepair"} \ {managed}
    /\ UNCHANGED <<docs, rules, run, runs, raced, userWords>>

-----------------------------------------------------------------------------

AgentInit ==
    /\ docs \in Configs
    /\ rules \in {[there |-> text # <<>>, text |-> text] : text \in RulesTexts}
    /\ managed \in {"Stopped", "NeedsRepair"}
    /\ run = NoRun /\ edits = 0 /\ runs = 0 /\ raced = 0
    /\ userWords = Words(rules.text)

AgentNext ==
    \/ \E req \in Requests : BeginInstall(req) \/ BeginUninstall(req)
    \/ Confirm \/ EnsureReady \/ ProbeAgent \/ Drop \/ Add \/ Restore \/ Store \/ Legacy
    \/ RulesRead \/ RulesWrite \/ Kill
    \/ EditDocument \/ EditRules \/ ServiceChanges

AgentSpec == AgentInit /\ [][AgentNext]_agentVars

-----------------------------------------------------------------------------
(* Properties.                                                              *)

\* What a successful run reports is so. After an install the agent finds exactly the
\* requested server under the current name and none under the old one, after an uninstall
\* it finds neither, whatever else was edited meanwhile; and the rules file carries the
\* block that was rendered, or none.
RegistrationAsReported ==
    run.at = "done" /\ ~ run.req.dry =>
      IF run.req.op = "install"
      THEN run.req.mcp => /\ probe(docs, SERVER_NAME) = run.spec
                          /\ ~ Present(run.req.target, docs, LEGACY)
      ELSE \A name \in Names : ~ Present(run.req.target, docs, name)
RulesAsReported ==
    run.at = "done" /\ ~ run.req.dry =>
      IF run.req.op = "install"
      THEN run.req.rules => Located(rules.text) /\ Managed(rules.text) = block(run.req.rules_domains)
      ELSE Positions(rules.text, BEGIN) = {}
ReportedIsSo == RegistrationAsReported /\ RulesAsReported

\* A replacement that fails leaves the agent with a registration: it is lost only when
\* two calls of the agent's CLI fail or the process is killed in between.
ReplacementKeepsOne ==
    run.at = "failed" /\ run.req.op = "install" /\ run.had /\ run.failures < 2
      => AgentEntries(docs, SERVER_NAME) # {}

\* A run reports success for what is then so, and failure without having taken the
\* registration there was.
InstallHonest == ReportedIsSo /\ ReplacementKeepsOne

\* A step takes nothing from the agent's documents but registrations of this program and
\* edits that fell into its read-modify-write. The one exception is json_config::merge,
\* which registers in place of what is no object: it then takes that, and nothing else.
Displaced(i) ==
    /\ docs[i].stray # "none" /\ run.req.op = "install" /\ MakesRoom(run.req.target)
    /\ docs'[i].aihelper = run.spec
SettingsStay ==
    \A i \in DOMAIN docs :
      /\ docs'[i].stray = docs[i].stray \/ Displaced(i)
      /\ docs'[i].rest + raced >= docs[i].rest \/ (docs[i].stray = "root" /\ Displaced(i))

\* A step takes no word of the user's from the rules file; of a file that was edited since
\* the run read it (atomic_write in install_rules and uninstall), it takes those edits and
\* no more.
WordsStay ==
    /\ raced = 0 => Words(rules'.text) = userWords'
    /\ Len(Words(rules'.text)) + raced >= Len(userWords)

\* No sequence of runs, failures and kills costs the user a word of the rules file or
\* anything else in the agent's configuration, but for the edits that fall between the
\* read and the write of a run and for what json_config::merge displaces.
UserTextKept == [][WordsStay /\ SettingsStay]_agentVars

\* What add_invocation asserts: "a CLI-registered target always has a program", which
\* every caller has to make true.
NeverPanics == run.at # "panicked"
=============================================================================
