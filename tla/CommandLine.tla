---------------------------- MODULE CommandLine ----------------------------
(***************************************************************************)
(* One run of `ah`, from the words typed to the record it leaves           *)
(* (src/entry.rs, src/cli, src/runtime_flow, the two early routes).        *)
(*                                                                         *)
(* The words are read by several hands before the command runs: the        *)
(* startup scan that picks a route, the scan for --cwd that decides which  *)
(* configuration and log directory are opened, the split of `run check`,   *)
(* the redaction of `secrets add|edit`, the early parser of a route, the   *)
(* parser built from the plugin catalog, and the last pass over a domain's *)
(* own arguments.  Each is here as an operator over the words; a run takes *)
(* them one after the other in the order of runtime_flow::run.             *)
(*                                                                         *)
(* A word is <<text>>, and <<option, value>> stands for `option=value`.    *)
(***************************************************************************)
EXTENDS Naturals, Sequences, SequencesExt, FiniteSets, TLC

CONSTANTS
    Lines,       \* the argument lists that are tried, without the program name
    CliDomains,  \* the plugin domains of the catalog ("run" is one)
    Directories  \* the values of --cwd that name a readable directory

VARIABLES
    words,     \* the argument list of this run
    leaked,    \* the updater's variables set in the environment
    found,     \* what recover_before_startup answers: none, launched, failed
    broken,    \* the configuration or the plugin settings do not load
    phase,     \* the step of runtime_flow::run that comes next
    base,      \* the base directory given to the configuration
    runner,    \* the managed runner: none, ready, failed, served
    ran,       \* the command that was executed
    trail      \* the records of the event log

lineVars == <<words, leaked, found, broken, phase, base, runner, ran, trail>>

None == "none"
NoLine == [kind |-> "none"]
Redacted == "***"

(***************************************************************************)
(* The four global flags, the hidden handoff flag, and which other words   *)
(* begin with a dash.                                                      *)
(***************************************************************************)
Switches == {"--json", "--quiet"}
ValueFlags == {"--cwd", "--limit"}
Globals == Switches \cup ValueFlags \cup {"--internal-handoff"}
Help == {"--help", "-h"}
Version == {"--version", "-V"}
CheckOptions == {"--timeout-secs", "--max-output-bytes", "--tail-lines"}
LeafSwitches == {"--open", "--all", "--check", "--rollback", "--no-start",
                 "--rules-only", "--mcp-only", "--yes", "--dry-run"}
LeafOptions == {"--transport", "--port", "--max-active", "--max-queued",
                "--default-timeout-ms", "--managed-config", "--kind",
                "--label", "--description", "--state", "--domain", "--url", "--scope"}
Dashes == Globals \cup Help \cup Version \cup CheckOptions \cup LeafSwitches
              \cup LeafOptions \cup {"--", "--secret"}
Dashed(w) == w[1] \in Dashes
Number(v) == v \in {"0", "3", "5"}

(***************************************************************************)
(* Where the option at i ends if it is one of the host's, else 0; and the  *)
(* first position from i that is not inside a host option.                 *)
(***************************************************************************)
host_option_end(argv, i) ==
    CASE Len(argv[i]) = 1 /\ argv[i][1] \in Switches -> i + 1
      [] Len(argv[i]) = 1 /\ argv[i][1] \in ValueFlags ->
             IF i + 2 > Len(argv) THEN Len(argv) + 1 ELSE i + 2
      [] Len(argv[i]) = 2 /\ argv[i][1] \in ValueFlags -> i + 1
      [] OTHER -> 0

PastHostOptions(argv, i) ==
    LET at[j \in 1..Len(argv) + 2] ==
            IF j > Len(argv) \/ host_option_end(argv, j) = 0 THEN j
            ELSE at[host_option_end(argv, j)]
    IN  at[i]

Word(argv, i) == IF i \in DOMAIN argv /\ Len(argv[i]) = 1 THEN argv[i][1] ELSE None

(***************************************************************************)
(* Where a `run check` line is divided: the domain word, the end of the    *)
(* host's part and the first word of the child.  Options of the host and   *)
(* of the check are passed over; anything else starts the child.           *)
(***************************************************************************)
run_check_option_end(argv, i) ==
    CASE Len(argv[i]) = 1 /\ argv[i][1] \in CheckOptions ->
             IF i + 2 > Len(argv) THEN Len(argv) + 1 ELSE i + 2
      [] Len(argv[i]) = 2 /\ argv[i][1] \in CheckOptions -> i + 1
      [] OTHER -> 0

NoLayout == [domain |-> 0, prefix |-> 0, child |-> 0]

run_check_layout(argv) ==
    LET d == PastHostOptions(argv, 1)
        c == PastHostOptions(argv, d + 1)
        end[j \in 1..Len(argv) + 2] ==
            IF j > Len(argv) THEN NoLayout
            ELSE IF Word(argv, j) = "--"
                 THEN [domain |-> d, prefix |-> j, child |-> j + 1]
            ELSE IF host_option_end(argv, j) # 0 THEN end[host_option_end(argv, j)]
            ELSE IF run_check_option_end(argv, j) # 0 THEN end[run_check_option_end(argv, j)]
            ELSE [domain |-> d, prefix |-> j, child |-> j]
    IN  IF Word(argv, d) = "run" /\ Word(argv, c) = "check" THEN end[c + 1] ELSE NoLayout

(***************************************************************************)
(* The --cwd that the configuration and the log are opened under: the last *)
(* one before the child of a `run check`, before `--` otherwise.           *)
(***************************************************************************)
\* Mutant: the scan does not stop where the child begins.
extract_last_cwdWholeLine(argv) ==
    LET scan[i \in 1..Len(argv) + 2, cwd \in {None, "error"} \cup
                  {argv[k][Len(argv[k])] : k \in DOMAIN argv}] ==
            CASE i > Len(argv) -> cwd
              [] i <= Len(argv) /\ Word(argv, i) = "--" -> cwd
              [] i <= Len(argv) /\ Word(argv, i) = "--cwd" ->
                     IF i + 1 > Len(argv) THEN "error" ELSE scan[i + 2, argv[i + 1][Len(argv[i + 1])]]
              [] OTHER -> scan[i + 1, IF argv[i][1] = "--cwd" THEN argv[i][2] ELSE cwd]
    IN  scan[1, None]

extract_last_cwd(argv) ==
    LET layout == run_check_layout(argv)
        end == IF layout = NoLayout THEN Len(argv) + 1 ELSE layout.prefix
        scan[i \in 1..Len(argv) + 2, cwd \in {None, "error"} \cup
                  {argv[k][Len(argv[k])] : k \in DOMAIN argv}] ==
            CASE i >= end -> cwd
              [] i < end /\ Word(argv, i) = "--" -> cwd
              [] i < end /\ Word(argv, i) = "--cwd" ->
                     IF i + 1 >= end THEN "error" ELSE scan[i + 2, argv[i + 1][Len(argv[i + 1])]]
              [] OTHER -> scan[i + 1, IF argv[i][1] = "--cwd" THEN argv[i][2] ELSE cwd]
    IN  scan[1, None]

resolve_request_dir(cwd) == IF cwd = None \/ cwd \in Directories THEN cwd ELSE "error"

initial_cwd_from_raw_args(argv) == resolve_request_dir(extract_last_cwd(argv))

(***************************************************************************)
(* The startup scan: the first three words that are no option, the         *)
(* handoff, and the route.  The scan takes the value of --cwd and --limit  *)
(* along, not that of --internal-handoff.                                  *)
(***************************************************************************)
leading_positionals(argv) ==
    LET scan[i \in 1..Len(argv) + 2] ==
            IF i > Len(argv) THEN <<>>
            ELSE IF Word(argv, i) \in ValueFlags
                 THEN IF i + 1 > Len(argv) THEN <<"error">> ELSE scan[i + 2]
            ELSE IF Dashed(argv[i]) THEN scan[i + 1]
            ELSE <<argv[i][1]>> \o scan[i + 1]
        all == scan[1]
    IN  SubSeq(all, 1, IF Len(all) < 3 THEN Len(all) ELSE 3)

has_flag(argv, flag) == \E i \in DOMAIN argv : argv[i][1] = flag

flag_value(argv, flag) ==
    LET at == {i \in DOMAIN argv : argv[i][1] = flag}
        first == CHOOSE i \in at : \A j \in at : i <= j
    IN  IF at = {} THEN None
        ELSE IF Len(argv[first]) = 2 THEN argv[first][2]
        ELSE IF first = Len(argv) THEN "error" ELSE argv[first + 1][1]

version_only(argv) == Len(argv) = 1 /\ Word(argv, 1) \in Version

handoff(argv, env) ==
    LET named == flag_value(argv, "--internal-handoff")
        lead == leading_positionals(argv)
    IN  IF named # None
        THEN IF named \in {"installed-smoke", "managed-restore"} THEN named ELSE "error"
        ELSE IF "installed-smoke" \in env /\ version_only(argv) THEN "installed-smoke"
        ELSE IF /\ "managed-restore" \in env
                /\ Len(lead) = 3
                /\ lead[1] = "mcp" /\ lead[2] = "service"
                /\ lead[3] \in {"install", "start", "status"}
             THEN "managed-restore" ELSE None

route(argv) ==
    LET lead == leading_positionals(argv)
    IN  CASE Len(lead) > 0 /\ lead[1] = "upgrade" -> "upgrade"
          [] Len(lead) > 1 /\ lead[1] = "mcp" /\ lead[2] = "service" -> "service"
          [] Len(lead) > 1 /\ lead[1] = "mcp" /\ lead[2] = "serve"
                 /\ has_flag(argv, "--managed-config") -> "managed"
          [] OTHER -> "full"

Unreadable(argv, env) ==
    \/ "error" \in {leading_positionals(argv)[i] : i \in DOMAIN leading_positionals(argv)}
    \/ handoff(argv, env) = "error"

(***************************************************************************)
(* What the parsers accept.  A node is a command with subcommands, or one  *)
(* that takes switches, options and positional arguments; of `single` at   *)
(* most one may be given, of `oneOf`, where there is one, at least one.    *)
(***************************************************************************)
Positional == "a positional argument"
Group(subs) == [subs |-> subs, switches |-> {}, options |-> {}, required |-> {},
                least |-> 0, most |-> 0, single |-> {}, oneOf |-> {}]
Leaf(switches, options, required, least, most, single) ==
    [subs |-> {}, switches |-> switches, options |-> options, required |-> required,
     least |-> least, most |-> most, single |-> single, oneOf |-> {}]
Plain == Leaf({}, {}, {}, 0, 0, {})

service_command ==
    (<<"mcp", "service">> :> Group({"install", "start", "stop", "restart", "status", "uninstall"}))
    @@ (<<"mcp", "service", "install">> :>
           Leaf({"--no-start"}, {"--port", "--max-active", "--default-timeout-ms"}, {}, 0, 0, {}))
    @@ [p \in {<<"mcp", "service", s>> : s \in {"start", "stop", "restart", "status", "uninstall"}}
            |-> Plain]

build_help_command ==
    <<"upgrade">> :> Leaf({"--check", "--rollback"}, {"--version"}, {}, 0, 0,
                          {"--check", "--version", "--rollback"})

build_mcp_command ==
    (<<"mcp">> :> Group({"serve", "service"}))
    @@ (<<"mcp", "serve">> :>
           Leaf({}, {"--transport", "--port", "--max-active", "--max-queued",
                     "--default-timeout-ms", "--managed-config"}, {}, 0, 0, {}))
    @@ service_command

build_ai_command ==
    (<<"ai">> :> Group({"info", "install", "uninstall", "status"}))
    @@ (<<"ai", "info">> :> Leaf({}, {"--domain"}, {}, 0, 0, {}))
    @@ (<<"ai", "install">> :>
           Leaf({"--mcp-only", "--rules-only", "--yes", "--dry-run"},
                {"--scope", "--transport", "--url"}, {}, 1, 1, {"--mcp-only", "--rules-only"}))
    @@ (<<"ai", "uninstall">> :> Leaf({"--dry-run"}, {"--scope"}, {}, 1, 1, {}))
    @@ (<<"ai", "status">> :> Leaf({}, {}, {}, 0, 1, {}))

build_plugins_command ==
    (<<"plugins">> :> Group({"list", "enable", "disable", "reset"}))
    @@ (<<"plugins", "list">> :> Leaf({}, {"--state"}, {}, 0, 0, {}))
    @@ [p \in {<<"plugins", "enable">>, <<"plugins", "disable">>} |-> Leaf({}, {}, {}, 1, 1, {})]
    @@ (<<"plugins", "reset">> :>
           [Leaf({"--all"}, {}, {}, 0, 1, {"--all", Positional}) EXCEPT !.oneOf = {"--all", Positional}])

build_secrets_command ==
    (<<"secrets">> :> Group({"init", "list", "add", "edit", "remove"}))
    @@ (<<"secrets", "init">> :> Plain)
    @@ (<<"secrets", "list">> :> Leaf({}, {"--kind"}, {}, 0, 0, {}))
    @@ (<<"secrets", "add">> :>
           Leaf({"--open"}, {"--kind", "--label", "--description"}, {"--kind"}, 1, 1, {}))
    @@ (<<"secrets", "edit">> :> Leaf({"--open"}, {"--label", "--description"}, {}, 1, 1, {}))
    @@ (<<"secrets", "remove">> :> Leaf({}, {}, {}, 1, 1, {}))

HostCommands == {"ai", "mcp", "plugins", "secrets", "upgrade"}

build_cli_command ==
    (<<>> :> Group(HostCommands \cup CliDomains))
    @@ build_ai_command @@ build_mcp_command @@ build_plugins_command
    @@ build_secrets_command @@ build_help_command

build_early_command ==
    (<<>> :> Group({"mcp"})) @@ (<<"mcp">> :> Group({"serve", "service"})) @@ service_command
    @@ (<<"mcp", "serve">> :> Leaf({}, {"--transport", "--managed-config"}, {}, 0, 0, {}))

build_upgrade_command == (<<>> :> Group({"upgrade"})) @@ build_help_command

(***************************************************************************)
(* The clap library, word by word.  Global flags count at every level and  *)
(* the deepest one wins; twice at one level is an error.  A plugin domain  *)
(* takes everything from its first own argument on as it stands.           *)
(***************************************************************************)
Unset == [json |-> FALSE, quiet |-> FALSE, limit |-> None, cwd |-> None]

NothingParsed == [path |-> <<>>, opts |-> Unset, given |-> {}, vals |-> {}, rest |-> <<>>,
          want |-> None, only |-> FALSE, outside |-> FALSE, fault |-> None]

IsDomain(c) == Len(c.path) = 1 /\ c.path[1] \in CliDomains

Take(c, name, value) ==
    LET d == [c EXCEPT !.given = @ \cup {name}, !.want = None]
    IN  CASE name \in c.given -> [c EXCEPT !.fault = "error"]
          [] name \notin c.given /\ name = "--json" -> [d EXCEPT !.opts.json = TRUE]
          [] name \notin c.given /\ name = "--quiet" -> [d EXCEPT !.opts.quiet = TRUE]
          [] name \notin c.given /\ name = "--limit" ->
                 IF Number(value) THEN [d EXCEPT !.opts.limit = value]
                 ELSE [d EXCEPT !.fault = "error"]
          [] name \notin c.given /\ name = "--cwd" -> [d EXCEPT !.opts.cwd = value]
          [] OTHER -> [d EXCEPT !.vals = @ \cup {<<name, value>>}]

Option(c, w, takesValue) ==
    CASE takesValue /\ Len(w) = 2 -> Take(c, w[1], w[2])
      [] takesValue /\ Len(w) = 1 ->
             IF w[1] \in c.given THEN [c EXCEPT !.fault = "error"] ELSE [c EXCEPT !.want = w[1]]
      [] ~takesValue /\ Len(w) = 1 -> Take(c, w[1], None)
      [] OTHER -> [c EXCEPT !.fault = "error"]

ClapStep(grammar, early, c, w) ==
    LET node == grammar[c.path]
    IN  IF c.fault # None THEN c
        ELSE IF c.want # None
             THEN IF Dashed(w) THEN [c EXCEPT !.fault = "error"] ELSE Take(c, c.want, w[1])
        ELSE IF c.outside \/ (IsDomain(c) /\ (c.rest # <<>> \/ c.only))
             THEN [c EXCEPT !.rest = Append(@, w)]
        ELSE IF w = <<"--">> /\ ~c.only THEN [c EXCEPT !.only = TRUE]
        ELSE IF ~c.only /\ w[1] \in Globals
             THEN Option(c, w, w[1] \notin Switches)
        ELSE IF IsDomain(c) THEN [c EXCEPT !.rest = Append(@, w)]
        ELSE IF ~c.only /\ w[1] \in Help THEN [c EXCEPT !.fault = "help"]
        ELSE IF ~c.only /\ c.path = <<>> /\ ~early /\ w[1] \in Version
             THEN [c EXCEPT !.fault = "help"]
        ELSE IF ~c.only /\ Dashed(w)
             THEN IF w[1] \in node.switches \cup node.options
                  THEN Option(c, w, w[1] \in node.options)
                  ELSE [c EXCEPT !.fault = "error"]
        ELSE IF ~c.only /\ w[1] \in node.subs
             THEN [c EXCEPT !.path = Append(@, w[1]), !.given = {}]
        ELSE IF ~c.only /\ node.subs # {} /\ w[1] = "help" THEN [c EXCEPT !.fault = "help"]
        ELSE IF c.path = <<>> /\ ~early
             THEN [c EXCEPT !.path = <<w[1]>>, !.outside = TRUE]
        ELSE IF node.subs = {} /\ Len(c.rest) < node.most
             THEN [c EXCEPT !.rest = Append(@, w)]
        ELSE [c EXCEPT !.fault = "error"]

Clap(grammar, early, argv) ==
    LET c == FoldLeft(LAMBDA acc, w : ClapStep(grammar, early, acc, w), NothingParsed, argv)
        node == grammar[c.path]
        given == c.given \cup (IF c.rest = <<>> THEN {} ELSE {Positional})
    IN  IF c.fault = None
           /\ \/ c.want # None
              \/ /\ ~c.outside /\ ~IsDomain(c)
                 /\ \/ ~(node.required \subseteq given)
                    \/ Len(c.rest) < node.least
                    \/ Cardinality(node.single \cap given) > 1
                    \/ node.oneOf # {} /\ node.oneOf \cap given = {}
        THEN [c EXCEPT !.fault = "error"] ELSE c

(***************************************************************************)
(* What redaction leaves of a `secrets add|edit` line: the id, the known   *)
(* options and their values.  Everything else may be a secret.             *)
(***************************************************************************)
secret_action_index(argv) ==
    LET s == PastHostOptions(argv, 1)
        a == PastHostOptions(argv, s + 1)
    IN  IF Word(argv, s) = "secrets" /\ Word(argv, a) \in {"add", "edit"} THEN a ELSE 0

RedactStep(add, acc, w) ==
    LET known == w[1] \in {"--label", "--description", "--cwd", "--limit"}
                     \/ (add /\ w[1] = "--kind")
        keep(d) == [d EXCEPT !.out = Append(@, w)]
    IN  IF acc.preserve THEN keep([acc EXCEPT !.preserve = FALSE])
        ELSE IF acc.redact
             THEN [acc EXCEPT !.redact = FALSE, !.out = Append(@, <<Redacted>>)]
        ELSE IF ~acc.only /\ w = <<"--">> THEN keep([acc EXCEPT !.only = TRUE])
        ELSE IF ~acc.only /\ Dashed(w)
             THEN CASE known -> keep([acc EXCEPT !.preserve = Len(w) = 1])
                    [] ~known /\ Len(w) = 2 ->
                           [acc EXCEPT !.out = Append(@, <<w[1], Redacted>>)]
                    [] OTHER ->
                           keep([acc EXCEPT !.redact =
                                     w[1] \notin {"--open", "--json", "--quiet", "--help", "-h"}])
        ELSE IF acc.id THEN [acc EXCEPT !.out = Append(@, <<Redacted>>)]
        ELSE keep([acc EXCEPT !.id = TRUE])

redact_secret_command_argv(argv) ==
    LET a == secret_action_index(argv)
        start == [out |-> SubSeq(argv, 1, a), preserve |-> FALSE, redact |-> FALSE,
                  only |-> FALSE, id |-> FALSE]
    IN  IF a = 0 THEN argv
        ELSE FoldLeft(LAMBDA acc, w : RedactStep(argv[a] = <<"add">>, acc, w), start,
                      SubSeq(argv, a + 1, Len(argv))).out

(***************************************************************************)
(* The words of a domain, with the global flags that stand before `--`     *)
(* taken out of them (all but --cwd).                                      *)
(***************************************************************************)
normalize_invocation_argv(argv, globals) ==
    LET step(acc, w) ==
            CASE acc.fault \/ acc.only -> [acc EXCEPT !.argv = Append(@, w)]
              [] ~acc.fault /\ ~acc.only /\ acc.want ->
                     [acc EXCEPT !.want = FALSE, !.opts.limit = w[1],
                                 !.fault = ~Number(w[1]) \/ w[1] = "0"]
              [] ~acc.fault /\ ~acc.only /\ ~acc.want ->
                     CASE w = <<"--">> -> [acc EXCEPT !.only = TRUE, !.argv = Append(@, w)]
                       [] w = <<"--json">> -> [acc EXCEPT !.opts.json = TRUE]
                       [] w = <<"--quiet">> -> [acc EXCEPT !.opts.quiet = TRUE]
                       [] w = <<"--limit">> -> [acc EXCEPT !.want = TRUE]
                       [] w[1] = "--limit" /\ Len(w) = 2 ->
                              [acc EXCEPT !.opts.limit = w[2],
                                          !.fault = ~Number(w[2]) \/ w[2] = "0"]
                       [] OTHER -> [acc EXCEPT !.argv = Append(@, w)]
        end == FoldLeft(step, [argv |-> <<>>, opts |-> globals, only |-> FALSE,
                               want |-> FALSE, fault |-> FALSE], argv)
    IN  [argv |-> end.argv, opts |-> end.opts, fault |-> end.fault \/ end.want]

(***************************************************************************)
(* `mcp serve` refuses what cannot go together.                            *)
(***************************************************************************)
Val(c, name) ==
    IF \E v \in c.vals : v[1] = name THEN (CHOOSE v \in c.vals : v[1] = name)[2] ELSE None

ServeRefused(c) ==
    \/ Val(c, "--max-queued") # None
    \/ c.opts.json
    \/ Val(c, "--transport") # "http" /\ Val(c, "--port") # None
    \/ Val(c, "--port") = "0" \/ Val(c, "--max-active") = "0"
    \/ Val(c, "--default-timeout-ms") = "0"

(***************************************************************************)
(* The parse against the loaded catalog: exit (help or version), error,    *)
(* or the command with the options it runs under.  The child's words of a  *)
(* `run check` are hidden from the parser and handed to the domain.        *)
(***************************************************************************)
Opaque(argv) ==
    LET layout == run_check_layout(argv)
    IN  IF layout = NoLayout THEN argv
        ELSE [i \in DOMAIN argv |-> IF i >= layout.child THEN <<"opaque">> ELSE argv[i]]

prepare_run_check_passthrough(argv) ==
    LET layout == run_check_layout(argv)
    IN  SubSeq(argv, layout.domain + 1, layout.prefix - 1) \o <<<<"--">>>>
            \o SubSeq(argv, layout.child, Len(argv))

global_options(c) ==
    IF c.opts.limit = "0" \/ resolve_request_dir(c.opts.cwd) = "error" THEN "error" ELSE "ok"

ParsedHost(c) ==
    IF \/ c.outside
       \/ build_cli_command[c.path].subs # {}
       \/ Len(c.path) > 2
       \/ c.path = <<"mcp", "serve">> /\ ServeRefused(c)
    THEN [kind |-> "error"]
    ELSE [kind |-> "host", path |-> c.path, argv |-> c.rest, opts |-> c.opts]

ParsedInvoke(c, argv) ==
    LET own == IF c.path[1] = "run" /\ run_check_layout(argv) # NoLayout
               THEN prepare_run_check_passthrough(argv) ELSE c.rest
        n == normalize_invocation_argv(own, c.opts)
    IN  IF n.fault THEN [kind |-> "error"]
        ELSE [kind |-> "invoke", path |-> c.path, argv |-> n.argv, opts |-> n.opts]

parse_runtime_command(line) ==
    LET argv == redact_secret_command_argv(line)
        c == Clap(build_cli_command, FALSE, Opaque(argv))
    IN  CASE c.fault = "help" -> [kind |-> "exit"]
          [] c.fault = "error" -> [kind |-> "error"]
          [] c.fault = None /\ (global_options(c) = "error" \/ c.path = <<>>) -> [kind |-> "error"]
          [] OTHER -> IF c.path[1] \in HostCommands THEN ParsedHost(c) ELSE ParsedInvoke(c, argv)

(***************************************************************************)
(* What the run domain starts: it takes its own options off the front, and *)
(* from the first other word on everything is the child.                   *)
(***************************************************************************)
CheckArgs(argv) ==
    LET child[i \in 1..Len(argv) + 2] ==
            IF i > Len(argv) THEN <<>>
            ELSE IF run_check_option_end(argv, i) # 0 THEN child[run_check_option_end(argv, i)]
            ELSE SubSeq(argv, IF Word(argv, i) = "--" THEN i + 1 ELSE i, Len(argv))
    IN  child[1]

parse_args(command) ==
    LET n == normalize_invocation_argv(command.argv, command.opts)
    IN  IF command.path = <<"run">> /\ ~n.fault /\ n.argv # <<>> /\ n.argv[1] = <<"check">>
        THEN CheckArgs(Tail(n.argv)) ELSE <<>>

command_log_name(command) ==
    IF command.kind = "invoke" /\ command.argv # <<>>
    THEN Append(command.path, command.argv[1][1]) ELSE command.path

(***************************************************************************)
(* The two early routes.                                                   *)
(***************************************************************************)
service_parse(argv) ==
    LET c == Clap(build_early_command, TRUE, argv)
    IN  CASE c.fault = "help" -> "exit"
          [] c.fault = None /\ c.path = <<"mcp", "serve">> ->
                 IF Val(c, "--transport") = "http" /\ Val(c, "--managed-config") # None
                 THEN "managed" ELSE "error"
          [] c.fault = None /\ Len(c.path) = 3 -> "service"
          [] OTHER -> "error"

upgrade_parse(argv) ==
    LET c == Clap(build_upgrade_command, TRUE, argv)
    IN  CASE c.fault = "help" -> "exit"
          [] c.fault = None /\ c.path = <<"upgrade">> /\ global_options(c) = "ok" -> "upgrade"
          [] OTHER -> "error"

(***************************************************************************)
(* runtime_flow::run, phase by phase.                                      *)
(***************************************************************************)
LineInit ==
    /\ words \in Lines
    /\ leaked \in SUBSET {"installed-smoke", "managed-restore"}
    /\ found \in {"none", "launched", "failed"}
    /\ broken \in BOOLEAN
    /\ phase = "detect"
    /\ base = None
    /\ runner = None
    /\ ran = NoLine
    /\ trail = <<>>

To(p) == phase' = p
Told(kind, name) ==
    trail' = Append(trail, [kind |-> kind, name |-> name, argv |-> redact_secret_command_argv(words)])
Given == <<words, leaked, found, broken>>

Detect ==
    /\ phase = "detect"
    /\ To(IF Unreadable(words, leaked) THEN "ended" ELSE "answer")
    /\ UNCHANGED <<Given, base, runner, ran, trail>>

answer_before_startup ==
    /\ phase = "answer"
    /\ UNCHANGED <<Given, runner, ran>>
    /\ LET kind == handoff(words, leaked)
       IN  \/ kind = "installed-smoke" /\ To("ended") /\ UNCHANGED <<base, trail>>
           \/ kind = None /\ found = "failed" /\ To("ended") /\ UNCHANGED <<base, trail>>
           \/ /\ kind = None /\ found = "launched"
              /\ base' = IF initial_cwd_from_raw_args(words) = "error" THEN None
                         ELSE initial_cwd_from_raw_args(words)
              /\ Told("consumed", <<>>)
              /\ To("ended")
           \/ /\ kind = "managed-restore" \/ (kind = None /\ found = "none")
              /\ To(IF version_only(words) THEN "ended" ELSE "open")
              /\ UNCHANGED <<base, trail>>

SessionOpen ==
    /\ phase = "open"
    /\ UNCHANGED <<Given, runner, ran>>
    /\ LET cwd == initial_cwd_from_raw_args(words)
       IN  IF cwd = "error"
           THEN Told("startup", <<>>) /\ To("ended") /\ UNCHANGED base
           ELSE base' = cwd /\ To("route") /\ UNCHANGED trail

route_without_plugins ==
    /\ phase = "route"
    /\ UNCHANGED <<Given, base, trail>>
    /\ \/ route(words) = "full" /\ To("startup") /\ UNCHANGED <<runner, ran>>
       \/ /\ route(words) = "upgrade"
          /\ To("ended")
          /\ ran' = IF upgrade_parse(words) = "upgrade"
                    THEN [kind |-> "early", path |-> <<"upgrade">>, argv |-> <<>>,
                          opts |-> Clap(build_upgrade_command, TRUE, words).opts]
                    ELSE NoLine
          /\ UNCHANGED runner
       \/ /\ route(words) \in {"service", "managed"}
          /\ service_parse(words) # "managed"
          /\ To("ended")
          /\ ran' = IF service_parse(words) = "service"
                    THEN [kind |-> "early", path |-> <<"mcp", "service">>, argv |-> <<>>,
                          opts |-> Clap(build_early_command, TRUE, words).opts]
                    ELSE NoLine
          /\ UNCHANGED runner
       \/ /\ route(words) \in {"service", "managed"}
          /\ service_parse(words) = "managed"
          /\ \/ runner' = "ready" /\ To("startup")
             \/ To("ended") /\ UNCHANGED runner    \* already running, or the preflight failed
          /\ UNCHANGED ran

mark_managed_failure == runner' = IF runner = "ready" THEN "failed" ELSE runner

Startup ==
    /\ phase = "startup"
    /\ UNCHANGED <<Given, base, ran>>
    /\ IF broken
       THEN Told("config", <<>>) /\ mark_managed_failure /\ To("ended")
       ELSE To("routing") /\ UNCHANGED <<runner, trail>>

\* Mutant: a line that cannot be parsed leaves the managed runner as it was.
RoutingForgetsRunner ==
    /\ phase = "routing"
    /\ UNCHANGED <<Given, base, runner>>
    /\ \E parsed \in {parse_runtime_command(words)} :
           \/ parsed.kind = "exit" /\ Told("completed", <<"help">>) /\ To("ended") /\ UNCHANGED ran
           \/ parsed.kind = "error" /\ Told("cli_parse", <<>>) /\ To("ended") /\ UNCHANGED ran
           \/ parsed.kind \in {"host", "invoke"} /\ To("execute") /\ UNCHANGED <<ran, trail>>

Routing ==
    /\ phase = "routing"
    /\ UNCHANGED <<Given, base>>
    /\ \E parsed \in {parse_runtime_command(words)} :
           \/ parsed.kind = "exit" /\ Told("completed", <<"help">>) /\ To("ended") /\ UNCHANGED <<runner, ran>>
           \/ /\ parsed.kind = "error"
              /\ Told("cli_parse", <<>>)
              /\ mark_managed_failure
              /\ To("ended")
              /\ UNCHANGED ran
           \/ parsed.kind \in {"host", "invoke"} /\ To("execute") /\ UNCHANGED <<runner, ran, trail>>

execution ==
    /\ phase = "execute"
    /\ \E command \in {parse_runtime_command(words)} :
           ran' = [started |-> IF command.kind = "invoke" THEN parse_args(command) ELSE <<>>]
                      @@ command
    /\ runner' = IF runner = "ready" THEN "served" ELSE runner
    /\ To("record")
    /\ UNCHANGED <<Given, base, trail>>

Recorded ==
    /\ phase = "record"
    /\ Told("completed", command_log_name(ran))
    /\ To("ended")
    /\ UNCHANGED <<Given, base, runner, ran>>

LineNext ==
    \/ Detect
    \/ answer_before_startup
    \/ SessionOpen
    \/ route_without_plugins
    \/ Startup
    \/ Routing
    \/ execution
    \/ Recorded

LineSpec == LineInit /\ [][LineNext]_lineVars

-----------------------------------------------------------------------------
(***************************************************************************)
(* For a line whose --cwd stands before the command word, the directory    *)
(* the command runs in is the one the configuration was opened under; and  *)
(* from the first word of a `run check` child on, no word is read as one   *)
(* of the host's options and every word arrives as it was typed.  The      *)
(* directory is found by one scan (extract_last_cwd) and by the parser,    *)
(* the child by a third (run_check_layout), so three readings of one line  *)
(* have to agree.                                                          *)
(***************************************************************************)
CommandWord(argv) == PastHostOptions(argv, 1)
CwdPlaced(argv) ==
    \A i \in DOMAIN argv : argv[i][1] = "--cwd" =>
        \/ i < CommandWord(argv)
        \/ \E j \in 1..i : Word(argv, j) = "child"
ChildFrom(argv) ==
    LET at == {i \in DOMAIN argv : Word(argv, i) = "child"}
    IN  IF at = {} THEN 0 ELSE CHOOSE i \in at : \A j \in at : i <= j
HostPart(argv) == SubSeq(argv, 1, IF ChildFrom(argv) = 0 THEN Len(argv) ELSE ChildFrom(argv) - 1)

HostOptionsEndAtChild ==
    ran.kind = "invoke" /\ CwdPlaced(words) =>
        /\ ran.opts.cwd = base
        /\ ran.path = <<"run">> /\ ChildFrom(words) # 0 =>
              /\ ran.started = SubSeq(words, ChildFrom(words), Len(words))
              /\ ran.opts.json = has_flag(HostPart(words), "--json")
              /\ ran.opts.quiet = has_flag(HostPart(words), "--quiet")

(***************************************************************************)
(* When a run is over: an interrupted update that recovery took up (and    *)
(* that is not the updater's own handoff) is the only thing that happened; *)
(* a run that got past its early routes left exactly one record of how it  *)
(* ended, with none of the words that may be secret in it; and a managed   *)
(* runner that was made ready has either served or been marked failed.     *)
(***************************************************************************)
EveryRunAccounted ==
    phase = "ended" =>
        /\ found # "none" /\ handoff(words, leaked) = None => ran = NoLine /\ runner = None
        /\ found = "launched" /\ handoff(words, leaked) = None /\ ~Unreadable(words, leaked)
               => Len(trail) = 1
        /\ ran.kind \in {"host", "invoke"} => Len(trail) = 1 /\ trail[1].kind = "completed"
        /\ runner # "ready"
        /\ \A i \in DOMAIN trail : \A k \in DOMAIN trail[i].argv :
               "hunter2" \notin {trail[i].argv[k][j] : j \in DOMAIN trail[i].argv[k]}

(***************************************************************************)
(* The line is read as the user wrote it, and every run is accounted for.  *)
(***************************************************************************)
LineSound == HostOptionsEndAtChild /\ EveryRunAccounted

(***************************************************************************)
(* What docs/reference/run.md says of `run check`: host flags, --cwd among *)
(* them, may stand before the child command.  So whatever stands before    *)
(* it, the child that is started is the one that was typed, and it runs in *)
(* the directory the line names.                                           *)
(***************************************************************************)
HostFlagsBeforeChild ==
    ran.kind = "invoke" /\ ran.path = <<"run">> /\ ChildFrom(words) # 0 =>
        /\ ran.started = SubSeq(words, ChildFrom(words), Len(words))
        /\ ran.opts.cwd = base
=============================================================================
