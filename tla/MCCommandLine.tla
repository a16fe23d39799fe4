--------------------------- MODULE MCCommandLine ---------------------------
(* The command lines that are tried, for TLC.                              *)
EXTENDS CommandLine

\* The words of the lines that are tried; <<o, v>> is written o=v on a command line.
Typed(s) == [i \in DOMAIN s |-> <<s[i]>>]
HostFlags == {<<>>, Typed(<<"--json">>), Typed(<<"--cwd", "d1">>), << <<"--cwd", "d1">> >>,
           Typed(<<"--limit", "3", "--quiet">>), Typed(<<"--limit", "0">>), Typed(<<"--cwd", "gone">>)}
\* What the updater types when it drives a run.
HandoffLines == {<< <<"--internal-handoff", k>> >> \o Typed(l) :
    k \in {"installed-smoke", "managed-restore", "other"},
    l \in {<<"--version">>, <<"mcp", "service", "status">>, <<"mcp", "service", "install">>}}
    \cup {Typed(<<"--internal-handoff", "managed-restore", "mcp", "service", "start">>)}
HostLines == {Typed(l) : l \in {
    <<"upgrade", "--check">>, <<"upgrade", "--check", "--rollback">>, <<"upgrade", "--help">>,
    <<"mcp", "service", "status">>, <<"mcp", "service", "status", "--cwd", "d2">>,
    <<"mcp", "service", "none">>,
    <<"mcp", "serve", "--managed-config", "f", "--transport", "http">>,
    <<"mcp", "serve", "--managed-config", "f">>,
    <<"mcp", "serve", "--port", "5">>, <<"mcp", "serve", "--cwd", "d2">>,
    <<"plugins", "list", "--help">>, <<"plugins", "enable", "git", "--cwd", "d2">>, <<"plugins">>,
    <<"plugins", "reset">>, <<"plugins", "reset", "--all">>, <<"plugins", "reset", "git", "--all">>,
    <<"ai", "install", "codex", "--mcp-only", "--rules-only">>, <<"ai", "status">>,
    <<"secrets", "add", "id", "--kind", "k">>, <<"secrets", "add", "id", "hunter2">>,
    <<"secrets", "--json", "edit", "id", "--secret", "hunter2">>,
    <<"secrets", "edit", "--label", "l", "id", "--", "hunter2">>,
    <<"--version">>, <<"-V">>, <<>>, <<"--help">>, <<"--cwd">>}}
DomainLines == {Typed(l) : l \in {
    <<"git", "status">>, <<"git", "--quiet", "status", "--limit", "5", "--json">>,
    <<"git", "status", "--limit">>, <<"git", "--", "--json">>, <<"git", "status", "--cwd", "d2">>,
    <<"nodomain", "x">>}}
CheckLines == {Typed(<<"run">> \o a \o <<"check">> \o b \o <<"child">> \o c) :
    a \in {<<>>, <<"--quiet">>},
    b \in {<<>>, <<"--">>, <<"--timeout-secs", "5">>, <<"--json">>, <<"--cwd", "d2">>, <<"--tail-lines", "3", "--">>},
    c \in {<<>>, <<"--cwd", "d2">>, <<"--json">>, <<"--", "--quiet">>, <<"child", "--limit", "0">>}}
AssignedLines == {<< <<"secrets">>, <<"add">>, <<"id">>, <<"--secret", "hunter2">> >>,
                  << <<"mcp">>, <<"serve">>, <<"--managed-config", "f">>, <<"--transport", "http">> >>}
SomeLines == HandoffLines \cup {b \o l : b \in HostFlags, l \in HostLines \cup DomainLines \cup CheckLines \cup AssignedLines}
SomeDomains == {"run", "git"}
SomeDirectories == {"d1", "d2"}
=============================================================================
