------------------------------ MODULE Redaction ------------------------------
(***************************************************************************)
(* What is taken out of a record before it is written: the passes over an  *)
(* argument list, over a JSON value and over a text, which call each       *)
(* other, the gate of the MCP adapter, which refuses a call for what the   *)
(* passes would hide, and the record of an event, which EventLog writes.   *)
(*                                                                         *)
(* A name is the sequence of its tokens ("apiKey" is <<"api", "key">>).  A *)
(* text has a form: "text", a sequence of spans; "json", a document;       *)
(* "curl", a command line; "flag", "assign" (--name=value) and "joined"    *)
(* (-uvalue), which are arguments; "hidden".  A span is a word, a          *)
(* name=value or name: value, a URL or user:password@host; val is what it  *)
(* says: "plain", "secret", "vault" (never to be written at all),          *)
(* "hidden", or "path" (a password with a slash, which is taken for one);  *)
(* a URL without user says "none".  Lengths of texts are left out.         *)
(***************************************************************************)
EXTENDS Integers, Sequences, FiniteSets, SequencesExt

CONSTANTS MaxEntries,    \* entries kept of a list or an object (100)
          MaxJsonDepth   \* levels kept of a value (8)

Hidden == [form |-> "hidden"]
Cut == [form |-> "cut"]
Span(is, name, val) == [is |-> is, name |-> name, val |-> val, query |-> <<>>]
Text(spans) == [form |-> "text", spans |-> spans]
Flag(name) == [form |-> "flag", name |-> name]
Assign(name, value) == [form |-> "assign", name |-> name, value |-> value]

\* JSON values; fields is a sequence of [key, value].
Str(text) == [t |-> "str", text |-> text]
Arr(items) == [t |-> "arr", items |-> items]
Obj(fields) == [t |-> "obj", fields |-> fields]
Marker == [t |-> "marker"]

RECURSIVE sanitize_string(_, _), sanitize_cli_argv(_, _), sanitize_value(_, _, _)
RECURSIVE redact_mcp_plaintext_auth(_), Shows(_, _), ShowsValue(_, _)

-----------------------------------------------------------------------------
(* Names.                                                                  *)

SensitiveTokens == {"password", "passwd", "token", "secret", "authorization", "cookie", "credential", "bearer"}
COMPOUNDS == {<<"api", "key">>, <<"access", "key">>, <<"private", "key">>, <<"client", "secret">>,
              <<"access", "token">>, <<"refresh", "token">>}
is_sensitive_name(n) ==
    \/ n = <<"basic">>
    \/ Range(n) \cap SensitiveTokens # {}
    \/ \E c \in COMPOUNDS, i \in 1..(Len(n) - 1) : SubSeq(n, i, i + 1) = c
UserOptions == {<<"u">>, <<"user">>}
is_sensitive_cli_flag(n) == is_sensitive_name(n) \/ n \in UserOptions
is_always_redacted_cli_flag(n) == n = <<"credential">>

-----------------------------------------------------------------------------
(* A free text: five passes, one after the other.                          *)

redact_url(s) ==
    [s EXCEPT !.val = IF @ = "none" THEN @ ELSE "hidden",
              !.query = [i \in DOMAIN @ |-> IF is_sensitive_name(@[i].name) THEN [@[i] EXCEPT !.val = "hidden"] ELSE @[i]]]
redact_urls_in_text(spans) ==
    [i \in DOMAIN spans |-> IF spans[i].is = "url" THEN redact_url(spans[i]) ELSE spans[i]]
redact_bare_userinfo(spans) ==
    [i \in DOMAIN spans |-> IF spans[i].is = "userinfo" /\ spans[i].val # "path"
                            THEN [spans[i] EXCEPT !.val = "hidden"] ELSE spans[i]]

\* split_header_like: everything before the first = or : is the name, the rest is the value.
Separates(s) == s.is \in {"pair", "url", "userinfo"}
HeaderAt(spans) == SelectInSeq(spans, Separates)
HeaderName(spans, i) == FlattenSeq([j \in 1..i |-> spans[j].name])
IsSensitiveHeader(spans) ==
    HeaderAt(spans) # 0 /\ is_sensitive_name(HeaderName(spans, HeaderAt(spans)))
HideHeader(spans) ==
    LET i == HeaderAt(spans)
    IN SubSeq(spans, 1, i - 1) \o <<Span("pair", spans[i].name, "hidden")>>

\* "Bearer ..." and "Basic ..." at the start.
BearerOrBasic(spans) ==
    Len(spans) > 1 /\ spans[1].is = "word" /\ spans[1].name \in {<<"bearer">>, <<"basic">>}
HideBearer(spans) == <<spans[1], Span("word", <<>>, "hidden")>>

\* redact_embedded_assignment, until it finds no more: the value up to its end, and for some
\* names the rest of the text.
TakesTheRest(n) == n \in {<<"authorization">>, <<"cookie">>, <<"bearer">>, <<"basic">>}
redact_embedded_assignments(spans) ==
    LET Keys(x) == IF Separates(x) THEN {x.name} \cup {x.query[i].name : i \in DOMAIN x.query} ELSE {}
        step(s, x) ==
          IF s.over THEN s
          ELSE [out |-> Append(s.out, IF Separates(x) /\ is_sensitive_name(x.name)
                                      THEN [x EXCEPT !.val = "hidden"] ELSE x),
                over |-> \E n \in Keys(x) : TakesTheRest(n)]
    IN FoldLeft(step, [out |-> <<>>, over |-> FALSE], spans).out

SanitizedText(raw) ==
    LET spans == redact_bare_userinfo(redact_urls_in_text(raw))
    IN IF IsSensitiveHeader(spans) THEN HideHeader(spans)
       ELSE IF BearerOrBasic(spans) THEN HideBearer(spans)
       ELSE redact_embedded_assignments(spans)

-----------------------------------------------------------------------------
(* A curl command inside a text.                                           *)

\* The value of -u and --user, behind it or joined to it; value says that the word is one.
redact_curl_user_options(ws) ==
    LET step(s, w) ==
          CASE s.value -> [value |-> FALSE, out |-> Append(s.out, Hidden)]
            [] ~s.value /\ w.form \in {"assign", "joined"} /\ w.name \in UserOptions ->
                 [s EXCEPT !.out = Append(@, [w EXCEPT !.value = Hidden])]
            [] OTHER -> [value |-> w.form = "flag" /\ w.name \in UserOptions, out |-> Append(s.out, w)]
    IN FoldLeft(step, [value |-> FALSE, out |-> <<>>], ws).out
\* What the shell's rules cannot split keeps the rest of its text.
redact_embedded_curl(t) ==
    LET ws == redact_curl_user_options(t.words)
    IN [t EXCEPT !.words = IF t.split THEN SelectSeq(sanitize_cli_argv(ws, FALSE), LAMBDA w : w # Cut) ELSE ws]

\* An assignment that is met as a text is a header; -HAuthorization is one with a letter before it.
sanitize_string(t, unredacted) ==
    CASE unredacted \/ t.form \in {"flag", "hidden", "cut"} -> t
      [] ~unredacted /\ t.form = "json" -> [t EXCEPT !.value = sanitize_value(@, FALSE, 0)]
      [] ~unredacted /\ t.form = "curl" -> redact_embedded_curl(t)
      [] ~unredacted /\ t.form = "text" -> [t EXCEPT !.spans = SanitizedText(@)]
      [] ~unredacted /\ t.form \in {"assign", "joined"} ->
           [t EXCEPT !.value = IF t.form = "assign" /\ is_sensitive_name(t.name) THEN Hidden
                               ELSE sanitize_string(@, FALSE)]

-----------------------------------------------------------------------------
(* Arguments.                                                              *)

\* One argument: s = [next, always, out]; next says that a flag waits for its value, always that
\* the value is hidden whatever the switch says.
ScanArgument(s, a, unredacted) ==
    LET waits == s.next /\ (~unredacted \/ s.always)
        sensitive == a.form \in {"flag", "assign"} /\ is_sensitive_cli_flag(a.name)
        strict == a.form \in {"flag", "assign"} /\ (~unredacted \/ is_always_redacted_cli_flag(a.name))
        Keep(t) == [s EXCEPT !.out = Append(@, t)]
    IN CASE waits /\ a.form = "flag" /\ sensitive ->
              [Keep(a) EXCEPT !.always = is_always_redacted_cli_flag(a.name)]
         [] waits /\ ~(a.form = "flag" /\ sensitive) -> [Keep(Hidden) EXCEPT !.next = FALSE, !.always = FALSE]
         [] ~waits /\ a.form = "assign" ->
              Keep([a EXCEPT !.value = IF sensitive /\ strict THEN Hidden ELSE sanitize_string(@, unredacted)])
         [] ~waits /\ a.form = "flag" /\ sensitive /\ strict ->
              [Keep(a) EXCEPT !.next = TRUE, !.always = is_always_redacted_cli_flag(a.name)]
         [] OTHER -> Keep(sanitize_string(a, unredacted))

\* The arguments that are kept: all, or one fewer than the limit and a marker.
Kept(s) == IF Len(s) > MaxEntries THEN SubSeq(s, 1, MaxEntries - 1) ELSE s
sanitize_cli_argv(argv, unredacted) ==
    FoldLeft(LAMBDA s, a : ScanArgument(s, a, unredacted), [next |-> FALSE, always |-> FALSE, out |-> <<>>],
             Kept(argv)).out
    \o IF Len(argv) > MaxEntries THEN <<Cut>> ELSE <<>>

-----------------------------------------------------------------------------
(* Values.                                                                 *)

sanitize_value(v, unredacted, depth) ==
    IF depth >= MaxJsonDepth THEN Marker
    ELSE CASE v.t = "str" -> Str(sanitize_string(v.text, unredacted))
           [] v.t = "arr" ->
                LET kept == Kept(v.items)
                IN Arr([i \in DOMAIN kept |-> sanitize_value(kept[i], unredacted, depth + 1)]
                       \o IF Len(v.items) > MaxEntries THEN <<Marker>> ELSE <<>>)
           [] v.t = "obj" ->
                LET kept == Kept(v.fields)
                IN Obj([i \in DOMAIN kept |->
                          [kept[i] EXCEPT !.value =
                             IF is_sensitive_name(kept[i].key) /\ ~unredacted THEN Str(Hidden)
                             ELSE sanitize_value(@, unredacted, depth + 1)]]
                       \o IF Len(v.fields) > MaxEntries THEN <<[key |-> <<"truncated">>, value |-> Marker]>> ELSE <<>>)
           [] v.t \in {"num", "marker"} -> v
ensure_object(v) == IF v.t = "obj" THEN v ELSE Obj(<<>>)

\* sanitize_system_context: the arguments that a context may have are treated as arguments.
ArgvField(texts) == [key |-> <<"argv">>, value |-> Arr([i \in DOMAIN texts |-> Str(texts[i])])]
sanitize_system_context(context, argv, unredacted) ==
    IF context.t # "obj" THEN Obj(<<>>)
    ELSE Obj(sanitize_value(context, unredacted, 0).fields
             \o IF argv = <<>> THEN <<>> ELSE <<ArgvField(sanitize_cli_argv(argv, unredacted))>>)

-----------------------------------------------------------------------------
(* The gate of the MCP adapter.                                            *)

SpansOf(t) ==
    CASE t.form = "text" -> t.spans
      [] t.form \in {"assign", "joined"} -> IF t.value.form = "text" THEN t.value.spans ELSE <<>>
      [] OTHER -> <<>>
is_authorization_header(t) ==
    t.form = "text" /\ t.spans # <<>> /\ t.spans[1].is = "pair" /\ t.spans[1].name = <<"authorization">>
url_contains_userinfo(t) ==
    LET first == SelectInSeq(SpansOf(t), LAMBDA s : s.is = "url")
    IN first # 0 /\ SpansOf(t)[first].val # "none"

HeaderOptions == {<<"h">>, <<"header">>}
AuthWord(w, split) ==
    \/ w.form = "flag" /\ w.name \in UserOptions
    \/ w.form = "assign" /\ w.name = <<"user">>
    \/ split /\ w.form \in {"assign", "joined"} /\ w.name = <<"u">>
    \/ w.form \in {"assign", "joined"} /\ w.name \in HeaderOptions /\ is_authorization_header(w.value)
    \/ url_contains_userinfo(w)
\* The word behind -H is looked at as a header only; in what cannot be split every word is.
curl_contains_auth(t) ==
    LET step(s, w) ==
          IF s.header THEN [header |-> FALSE, found |-> s.found \/ is_authorization_header(w)]
          ELSE [header |-> w.form = "flag" /\ w.name \in HeaderOptions, found |-> s.found \/ AuthWord(w, TRUE)]
    IN /\ t.form = "curl"
       /\ IF t.split THEN FoldLeft(step, [header |-> FALSE, found |-> FALSE], t.words).found
          ELSE \E i \in DOMAIN t.words : AuthWord(t.words[i], FALSE) \/ is_authorization_header(t.words[i])

\* What of an argument object gives a credential away: [key, value] by [key, value].
Inline(f) ==
    \/ f.key \in {<<"bearer">>, <<"basic">>}
    \/ f.key = <<"headers">> /\ f.value.t = "arr"
         /\ \E i \in DOMAIN f.value.items : /\ f.value.items[i].t = "str"
                                            /\ is_authorization_header(f.value.items[i].text)
    \/ f.key = <<"url">> /\ f.value.t = "str" /\ url_contains_userinfo(f.value.text)
    \/ f.key = <<"curl">> /\ f.value.t = "str" /\ curl_contains_auth(f.value.text)

\* domain is that of the command.
validate_mcp_plaintext_auth(domain, args) ==
    CASE domain \in {"github", "gitlab"} -> \A i \in DOMAIN args.fields : args.fields[i].key # <<"token">>
      [] domain = "http" -> \A i \in DOMAIN args.fields : ~Inline(args.fields[i])
      [] domain \notin {"github", "gitlab", "http"} -> TRUE

HideHeaders(items) ==
    [i \in DOMAIN items |-> IF items[i].t = "str" /\ is_authorization_header(items[i].text)
                            THEN Str(Text(<<Span("pair", <<"authorization">>, "hidden")>>)) ELSE items[i]]
redact_mcp_plaintext_auth(args) ==
    Obj([i \in DOMAIN args.fields |->
           LET f == args.fields[i]
           IN CASE f.key = <<"token">> \/ (Inline(f) /\ f.key # <<"headers">>) -> [f EXCEPT !.value = Str(Hidden)]
                [] f.key = <<"headers">> /\ f.value.t = "arr" -> [f EXCEPT !.value.items = HideHeaders(@)]
                [] f.key = <<"arguments">> /\ f.value.t = "obj" -> [f EXCEPT !.value = redact_mcp_plaintext_auth(@)]
                [] OTHER -> f])

\* event_parameters: without the context of the call.
event_parameters(args) ==
    redact_mcp_plaintext_auth(Obj(SelectSeq(args.fields, LAMBDA f : f.key # <<"context">>)))

-----------------------------------------------------------------------------
(* Whether a text or a value still shows something of a level.             *)

Shows(t, level) ==
    CASE t.form = "text" -> \E i \in DOMAIN t.spans :
                              \/ t.spans[i].val = level
                              \/ \E j \in DOMAIN t.spans[i].query : t.spans[i].query[j].val = level
      [] t.form = "json" -> ShowsValue(t.value, level)
      [] t.form = "curl" -> \E i \in DOMAIN t.words : Shows(t.words[i], level)
      [] t.form \in {"assign", "joined"} -> Shows(t.value, level)
      [] t.form \in {"flag", "hidden", "cut"} -> FALSE
ShowsValue(v, level) ==
    CASE v.t = "str" -> Shows(v.text, level)
      [] v.t = "arr" -> \E i \in DOMAIN v.items : ShowsValue(v.items[i], level)
      [] v.t = "obj" -> \E i \in DOMAIN v.fields : ShowsValue(v.fields[i].value, level)
      [] v.t \in {"num", "marker"} -> FALSE

-----------------------------------------------------------------------------
(* The record: [payload, diag].                                            *)

\* EventDiagnostic::into_value, of what an error says and why.
Diagnostic(message, cause) ==
  Obj(<<[key |-> <<"message">>, value |-> Str(message)], [key |-> <<"cause">>, value |-> Str(cause)]>>)
PlainText(word) == Text(<<Span("word", <<word>>, "plain")>>)
MissingDiagnostic == Diagnostic(PlainText("missing"), PlainText("none"))
NoDiagnostic == Marker

command_record(parameters, failed, diagnostic, unredacted) ==
  [payload |-> ensure_object(sanitize_value(parameters, unredacted, 0)),
   diag |-> IF failed THEN sanitize_value(diagnostic, unredacted, 0) ELSE NoDiagnostic]

\* A call with --credential is redacted whatever the switch says, and its error text is replaced.
Credentialed(argv) ==
  \E i \in DOMAIN argv : argv[i].form \in {"flag", "assign"} /\ argv[i].name = <<"credential">>
CliRecord(e, credentialed) ==
  command_record(Obj(<<ArgvField(sanitize_cli_argv(e.argv, e.unredacted /\ ~credentialed))>>), e.failed,
                 IF credentialed THEN Diagnostic(PlainText("failed"), Hidden) ELSE Diagnostic(e.message, e.cause),
                 e.unredacted)
record_cli_command(e) == CliRecord(e, Credentialed(e.argv))
record_system_event(e) ==
  [payload |-> sanitize_system_context(e.args, e.argv, e.unredacted),
   diag |-> sanitize_value(Diagnostic(e.message, e.cause), e.unredacted, 0)]
record_mcp_command(e) ==
  command_record(event_parameters(e.args), e.failed,
                 IF e.told THEN Diagnostic(e.message, e.cause) ELSE MissingDiagnostic, e.unredacted)
RecordOf(e) ==
  CASE e.kind = "cli" -> record_cli_command(e)
    [] e.kind = "mcp" -> record_mcp_command(e)
    [] e.kind = "system" -> record_system_event(e)

\* compact_record drops the payload and shortens the texts of the diagnostic; minimal_record keeps
\* only the code of it.
compact_record(r) == [r EXCEPT !.payload = Marker]
minimal_record(r) ==
  [compact_record(r) EXCEPT !.diag = IF @ = NoDiagnostic THEN @ ELSE Diagnostic(PlainText("truncated"), PlainText("none"))]
bounded_line(r, s) ==
  CASE s = "fits" -> r [] s = "compact" -> compact_record(r) [] s \in {"minimal", "never"} -> minimal_record(r)
\* write_best_effort up to the line, and a writer that has none.
EventLine(e) == bounded_line(RecordOf(e), e.size)
NoRecord == [payload |-> Marker, diag |-> NoDiagnostic]
==============================================================================
