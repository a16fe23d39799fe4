------------------------------- MODULE MCHost -------------------------------
(***************************************************************************)
(* Small instances, for TLC, of the machines that make up one host: the    *)
(* command line, the plugins it loads and the log it keeps, the agents it  *)
(* is registered with, and the managed service with its registration.      *)
(* They share no state here, so one is explored at a time.                 *)
(***************************************************************************)
EXTENDS MCServiceLifecycle, ServiceRegistration, AgentInstall, PluginHost, MCCommandLine, EventLog, Redaction

VARIABLE machine

-----------------------------------------------------------------------------
(* Runs of `ah ai`, the documents and rules files they find.               *)

Ask(o, t, s) == [op |-> o, target |-> t, scope |-> s, mcp |-> TRUE, rules |-> TRUE, transport |-> "http",
                 rules_domains |-> "d2", dry |-> FALSE, ask |-> FALSE]
SomeRequests ==
    {Ask("install", t, "project") : t \in {"codex", "cursor", "opencode"}}
    \cup {Ask("uninstall", t, "project") : t \in {"codex", "opencode", "cursor"}}
    \cup {[Ask("install", "gemini", "user") EXCEPT !.transport = "managed", !.ask = TRUE],
          [Ask("install", "claude", "local") EXCEPT !.mcp = FALSE, !.rules_domains = "d1"],
          [Ask("install", "copilot", "user") EXCEPT !.dry = TRUE],
          [Ask("install", "gemini", "user") EXCEPT !.transport = "offhost"],
          [Ask("install", "copilot", "project") EXCEPT !.dry = TRUE],
          [Ask("install", "gemini", "user") EXCEPT !.transport = "stdio", !.rules = FALSE]}
Doc(a, l) == [aihelper |-> a, ah |-> l, rest |-> 1, sound |-> TRUE, stray |-> "none"]
SomeConfigs ==
    {<<Doc("none", "none")>>, <<Doc("stdio", "stdio")>>, <<Doc("http", "http")>>,
     <<Doc("stdio", "none"), Doc("odd", "stdio")>>, <<[Doc("none", "none") EXCEPT !.sound = FALSE]>>}
    \cup {<<[Doc("none", "none") EXCEPT !.stray = where]>> : where \in {"servers", "root"}}
OldBlock == block("d1")
SomeTexts ==
    {<<>>, <<"u", "nl">>, <<"u">> \o OldBlock \o <<"nl", "v">>,
     <<"u", "nl", "nl">> \o OldBlock \o <<"nl", "v", "end">>, <<"end", "u", "begin">>}

-----------------------------------------------------------------------------
(* Libraries in the plugin directories, and the calls that reach them.     *)

Slot(n, r, k) == [name |-> n, required |-> r, kinds |-> k]
Cmd(i, s, p) == [id |-> i, wellformed |-> TRUE, slots |-> s, properties |-> p]
Lib(f, d, cs) ==
    [file |-> f, plugin |-> f, domain |-> d, opens |-> TRUE, abi |-> 1, metadata |-> "agrees", api |-> <<1, 0>>,
     capabilities |-> {"typed"}, symbols |-> {"catalog", "invoke", "cancel"}, catalog |-> cs, parses |-> TRUE, tools |-> FALSE]
GitTool == <<"git">>
PgTool == <<"pg">>
HttpTool == <<"http">>
CreateTag == <<"git", "tag", "create">>
Query == <<"pg", "query">>
Get == <<"http", "get">>
DbSlot == Slot("db", TRUE, {"postgres"})
AuthSlot == Slot("auth", FALSE, {"token"})
SomeBuiltins ==
    (GitTool :> [Lib(0, GitTool, <<Cmd(CreateTag, <<>>, {"name"})>>) EXCEPT !.tools = TRUE])
    @@ (HttpTool :> Lib(0, HttpTool, <<Cmd(Get, <<AuthSlot>>, {"url", "bearer"})>>))
SomeHost == (<<"plugins">> :> Lib(0, <<"plugins">>, <<Cmd(<<"plugins", "list">>, <<>>, {})>>))
PgLib == Lib(1, PgTool, <<Cmd(Query, <<DbSlot>>, {"sql"})>>)
NewerPg == [PgLib EXCEPT !.file = 2, !.plugin = 2, !.metadata = "absent", !.capabilities = {}, !.symbols = {}]
GitLib == Lib(3, GitTool, <<Cmd(<<"git", "log">>, <<>>, {})>>)
SomeLayouts ==
    {<<{PgLib}, {GitLib}>>, <<{[GitLib EXCEPT !.plugin = 9, !.file = 9]}, {GitLib, PgLib}>>,
     <<{PgLib, NewerPg}, {[PgLib EXCEPT !.tools = TRUE]}>>,
     <<{[PgLib EXCEPT !.abi = 2, !.file = 4], [GitLib EXCEPT !.catalog[1].properties = {"context"}, !.file = 5],
        [PgLib EXCEPT !.symbols = {"catalog"}, !.file = 6], [GitLib EXCEPT !.parses = FALSE]},
       {[PgLib EXCEPT !.domain = <<"ai">>, !.catalog[1].id = <<"ai", "query">>], [NewerPg EXCEPT !.api = <<2, 0>>]}>>}
TypedCall(c, args, creds) ==
    [kind |-> "typed", command |-> c, arguments |-> args, credentials |-> creds, smuggled |-> <<>>, argv |-> <<>>]
OneWord == [t |-> "word", slot |-> "db", id |-> "s1", good |-> FALSE]
SlotValue == [OneWord EXCEPT !.good = TRUE]
SlotFlag == [OneWord EXCEPT !.t = "flag"]
JoinedSlot(s, i) == [t |-> "joined", slot |-> s, id |-> i, good |-> TRUE]
Separator == [OneWord EXCEPT !.t = "sep"]
LegacyCall(d, argv) == [TypedCall(d, {}, <<>>) EXCEPT !.kind = "legacy", !.argv = argv]
SomeCalls ==
    {TypedCall(Query, {"sql", "credentials"}, "db" :> "s1"), TypedCall(Query, {"sql"}, <<>>),
     [TypedCall(CreateTag, {"name"}, <<>>) EXCEPT !.smuggled = "db" :> [id |-> "s2", kind |-> "postgres"]],
     TypedCall(Get, {"url", "bearer"}, <<>>), TypedCall(Get, {"url", "credentials"}, "auth" :> "s1"),
     TypedCall(<<"git", "log">>, {}, <<>>), TypedCall(<<"plugins", "list">>, {}, <<>>),
     LegacyCall(PgTool, <<OneWord, SlotFlag, SlotValue>>), LegacyCall(PgTool, <<OneWord, JoinedSlot("db", "s1"), JoinedSlot("db", "s2")>>),
     LegacyCall(GitTool, <<OneWord, Separator, SlotFlag, OneWord>>), LegacyCall(GitTool, <<JoinedSlot("db", "s1")>>), LegacyCall(HttpTool, <<SlotFlag>>),
     LegacyCall(HttpTool, <<JoinedSlot("auth", "s2"), OneWord>>), LegacyCall(<<"ollama">>, <<OneWord>>)}

-----------------------------------------------------------------------------
(* Records with every kind of argument, from two processes.                *)

Says(val) == Text(<<Span("word", <<"x">>, val)>>)
Credential(val) == <<Flag(<<"credential">>), Says(val)>>
LinkTo(user, query) == Text(<<[Span("url", <<"https">>, user) EXCEPT !.query = query]>>)
ApiKey == [name |-> <<"api", "key">>, val |-> "secret"]
Authorization(val) == Text(<<Span("pair", <<"authorization">>, val), Span("word", <<"x">>, val)>>)
Curl(ws, ok) == [form |-> "curl", split |-> ok, words |-> <<Says("plain")>> \o ws]
UserFlag == Flag(<<"user">>)
HeaderFlag == Flag(<<"h">>)
Member(key, value) == [key |-> <<key>>, value |-> value]
Document == [form |-> "json", value |-> Obj(<<Member("a", Arr(<<Str(LinkTo("secret", <<>>)), Str(Says("plain")), Marker>>)),
                                              Member("password", Obj(<<Member("x", Str(Says("secret")))>>))>>)]
\* Texts with a secret where redaction looks for one.
SecretTexts ==
  {LinkTo("secret", <<ApiKey>>), Authorization("secret"), Document,
   Text(<<Span("word", <<"bearer">>, "plain"), Span("word", <<"x">>, "secret")>>),
   Text(<<Span("word", <<"x">>, "plain"), Span("userinfo", <<"x">>, "secret"), Span("pair", <<"x">>, "plain"),
          Span("pair", <<"client", "secret">>, "secret")>>),
   Curl(<<UserFlag, Says("secret"), HeaderFlag, Authorization("secret")>>, TRUE),
   Curl(<<[form |-> "joined", name |-> <<"h">>, value |-> Authorization("secret")], Says("plain"), Says("plain")>>, TRUE),
   Curl(<<[form |-> "joined", name |-> <<"u">>, value |-> Says("secret")]>>, FALSE)}
LogEvent(kind) == [kind |-> kind, domain |-> "http", argv |-> <<>>, args |-> Obj(<<>>), failed |-> TRUE, told |-> TRUE,
                   message |-> Says("plain"), cause |-> Says("plain"), size |-> "fits", unredacted |-> FALSE]
CliEvents ==
  {[LogEvent("cli") EXCEPT !.argv = <<t>>, !.message = t] : t \in SecretTexts}
  \cup {[LogEvent("cli") EXCEPT !.argv = a] :
          a \in {<<UserFlag, Flag(<<"token">>), Says("secret")>>, <<Assign(<<"user">>, Says("secret")), Says("plain")>>,
                 <<Assign(<<"header">>, Authorization("secret"))>>, <<UserFlag, Assign(<<"x">>, Says("secret"))>>,
                 <<Says("plain"), Says("plain"), Flag(<<"token">>), Says("secret")>>}}
  \cup {[LogEvent("cli") EXCEPT !.argv = Credential("vault") \o <<t>>, !.cause = Says("vault"), !.unredacted = TRUE] :
          t \in {Assign(<<"credential">>, Says("vault")), Flag(<<"x">>)}}
McpEvents ==
  {[LogEvent("mcp") EXCEPT !.args = Obj(<<f, Member("context", Str(Says("secret")))>>), !.unredacted = TRUE, !.told = FALSE] :
     f \in {Member("bearer", Str(Says("vault"))), Member("headers", Arr(<<Str(Authorization("vault"))>>)),
            Member("url", Str(LinkTo("vault", <<>>))), Member("url", Str(LinkTo("none", <<ApiKey>>))),
            Member("curl", Str(Curl(<<UserFlag, Says("vault")>>, TRUE))), Member("curl", Str(Curl(<<HeaderFlag, Says("plain")>>, FALSE)))}}
  \cup {[LogEvent("mcp") EXCEPT !.domain = "github", !.args = Obj(<<Member("token", Str(Says("vault")))>>), !.unredacted = TRUE],
        [LogEvent("mcp") EXCEPT !.domain = "job", !.unredacted = TRUE,
           !.args = Obj(<<Member("arguments", Obj(<<Member("basic", Str(Says("vault")))>>))>>)],
        [LogEvent("mcp") EXCEPT !.size = "compact", !.failed = FALSE], [LogEvent("cli") EXCEPT !.size = "never"]}
SystemEvents ==
  {[LogEvent("system") EXCEPT !.argv = Credential("vault"), !.unredacted = TRUE],
   [LogEvent("system") EXCEPT !.args = Str(Says("secret"))],
   [LogEvent("system") EXCEPT !.args = Obj(<<Member("path", Str(LinkTo("secret", <<>>)))>>)]}
SomeEvents == <<CliEvents \cup McpEvents \cup SystemEvents, {[LogEvent("system") EXCEPT !.size = "minimal"]}>>
TwoProcesses == <<1, 2>>

-----------------------------------------------------------------------------
(* The machines that do not run stay in one initial state.                 *)

Rests(m, state) == machine = m \/ (machine # m /\ state)

AllInit ==
    /\ machine \in {"service", "registration", "agents", "plugins", "line", "log"}
    /\ Rests("service", task = NoTask) /\ Init
    /\ Rests("registration", adapter = "systemd") /\ RegistrationInit
    /\ Rests("agents", /\ docs = <<Doc("none", "none")>> /\ managed = "Stopped"
                       /\ rules = [there |-> FALSE, text |-> <<>>])
    /\ AgentInit
    /\ Rests("plugins", layout = <<{PgLib}, {GitLib}>> /\ vault = [i \in SecretIds |-> "missing"])
    /\ HostInit
    /\ Rests("line", words = <<>> /\ leaked = {} /\ found = "none" /\ broken = FALSE)
    /\ LineInit
    /\ Rests("log", event = [w \in Writers |-> CHOOSE e \in Events[w] : TRUE] /\ logs = [d \in Dates |-> NoLog])
    /\ LogInit

Turn(m, moves, others) == machine = m /\ moves /\ UNCHANGED <<machine, others>>

AllNext ==
    \/ Turn("service", Next, <<registrationVars, agentVars, hostVars, lineVars, logVars>>)
    \/ Turn("registration", RegistrationNext, <<vars, agentVars, hostVars, lineVars, logVars>>)
    \/ Turn("agents", AgentNext, <<vars, registrationVars, hostVars, lineVars, logVars>>)
    \/ Turn("plugins", HostNext, <<vars, registrationVars, agentVars, lineVars, logVars>>)
    \/ Turn("line", LineNext, <<vars, registrationVars, agentVars, hostVars, logVars>>)
    \/ Turn("log", LogNext, <<vars, registrationVars, agentVars, hostVars, lineVars>>)

allVars == <<machine, vars, registrationVars, agentVars, hostVars, lineVars, logVars>>

\* A run of `ah` ends; only the service must always be able to go on.
RunOver == machine # "service" /\ UNCHANGED allVars

AllSpec == AllInit /\ [][AllNext \/ RunOver]_allVars

-----------------------------------------------------------------------------
(* The log, and what redaction leaves in it.                                *)

\* Whatever a record is made of, arguments, parameters, context or an error text, the log shows no
\* secret that stands where redaction looks for one: behind a flag, under a name, in a header, a URL,
\* a curl command or a document.  With AH_LOG_UNREDACTED it still shows neither the vault credential
\* of a call nor, of a tool call, what the gate of the MCP adapter refuses to take inline.
Visible(r, level) == ShowsValue(r.payload, level) \/ ShowsValue(r.diag, level)
NothingSecretLogged ==
  \A w \in Writers : /\ ~event[w].unredacted => ~Visible(line[w], "secret")
                      /\ ~Visible(line[w], "vault")

\* The gate and the log agree: an http call that the gate lets through has nothing that the event
\* of the call hides for being inline, and one that it refuses has.
GateAgrees ==
  \A w \in Writers : event[w].kind = "mcp" /\ event[w].domain = "http" =>
    (validate_mcp_plaintext_auth("http", event[w].args) <=> redact_mcp_plaintext_auth(event[w].args) = event[w].args)

\* The log can be read line by line (LogIntact), and shows no secret.
LogSound == LogIntact /\ NothingSecretLogged /\ GateAgrees
=============================================================================
