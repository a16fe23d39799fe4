------------------------------ MODULE HttpDomain ------------------------------
(***************************************************************************)
(* The http domain: one-off requests, replayed curl commands and spec      *)
(* files of cases.  A request is retried on transport failures and 5xx     *)
(* answers until its retries or the caller's deadline run out; the checks  *)
(* look at the last response only; a spec's case passes what it extracted  *)
(* on to later cases.                                                      *)
(*                                                                         *)
(* Time is counted in ticks.  An ask is a record                           *)
(*   op       the command; "assert" stands for its alias "run" too         *)
(*   typed    a typed invocation: only there the call has a deadline       *)
(*   opts     method, url, headers, query, bearer, basic, vault, payload,  *)
(*            cap: the request options, each by the form it has            *)
(*   curl     what the replayed command line holds (op = "replay")         *)
(*   checks   the expectations of a one-off request                        *)
(*   cases    the spec's cases: request (its options by form), uses and    *)
(*            wants (the variables of request and expectations), checks,   *)
(*            extract                                                      *)
(*   given    the variables the spec or --var define                       *)
(*   spec     the spec file: "good" or what is wrong with it               *)
(*   fail_fast, retry, delay, deadline (0: none)                           *)
(***************************************************************************)
EXTENDS Integers, Sequences, FiniteSets

CONSTANTS HttpAsks,    \* the asks considered
          Responses,   \* the answers a server may give: [code, truncated, header, body]
          Timeout,     \* how many ticks a response, and then each read of its body, may take
          MaxReads     \* how many reads of a body may have to wait

VARIABLES httpAsk, httpPc,
          now,        \* ticks since the command began
          left,       \* retries left for this case
          case,       \* which case is under way
          origin,     \* each variable: the case it was extracted by, 0 when given, -1 unset
          last,       \* the last attempt's outcome
          attempts,   \* every attempt: its case, the origins of the variables it used, its outcome,
                      \* and when it began, was answered (or failed) and ended
          results,    \* whether each finished case passed
          httpAnswer  \* "none", "ok" or the error code

httpVars == <<httpAsk, httpPc, now, left, case, origin, last, attempts, results, httpAnswer>>

(* The forms an ask's parts may have.                                      *)
HttpOps == {"request", "get", "post", "put", "patch", "delete", "replay", "assert"}
\* The commands that declare a slot for a vault credential.
SlotOps == {"request", "get", "post", "replay"}
MethodForms == {"named", "blank", "malformed"}
HeaderForms == {"none", "plain", "authorization", "nocolon", "noname"}
BasicForms == {"none", "pair", "nocolon", "nouser"}
PayloadForms == {"none", "json", "text", "two", "malformed", "unreadable"}
RequestOptionsArgs ==
  [method : MethodForms, url : {"good", "blank"},
   headers : HeaderForms, query : {"none", "pair", "noequals", "nokey"},
   bearer : {"none", "token", "blank"}, basic : BasicForms,
   vault : {"none", "good", "otherslot", "kind", "nouser", "nopassword", "blankuser",
            "unresolved", "otherid"},
   payload : PayloadForms, cap : 0..1]
SpecRequest ==
  [name : {"named", "blank"}, method : MethodForms,
   target : {"url", "path", "both", "neither", "nobase", "blank"}, cap : 0..1,
   bearer : {"none", "token", "blank"}, basic : BasicForms, payload : PayloadForms]
ParsedCurlReplay ==
  [form : {"good", "unparsable", "empty", "unsupported", "novalue", "nourl"},
   header : HeaderForms, basic : BasicForms, payload : PayloadForms]
HttpSpecForms == {"good", "unreadable", "malformed", "version", "empty", "selectors", "report", "var"}
\* The counts and times are unsigned, 0 stands for no deadline; a server's answer has a
\* status; the parts of a spec are lists, and one that passes the checks has cases.  The
\* host resolves a credential of a typed call only for a declared slot.
ASSUME HttpAssumption ==
  /\ Timeout \in Nat \ {0} /\ MaxReads \in Nat
  /\ \A r \in Responses : r.code \in Nat \ {0}
  /\ \A a \in HttpAsks :
       /\ a.op \in HttpOps /\ a.opts \in RequestOptionsArgs /\ a.curl \in ParsedCurlReplay /\ a.spec \in HttpSpecForms
       /\ a.retry \in Nat /\ a.delay \in Nat /\ a.deadline \in Nat
       /\ Len(a.cases) \in Nat /\ DOMAIN a.cases = 1..Len(a.cases) /\ DOMAIN a.checks \subseteq Nat
       /\ \A k \in DOMAIN a.cases :
            a.cases[k].request \in SpecRequest /\ DOMAIN a.cases[k].checks \subseteq Nat
       /\ a.typed /\ a.opts.vault # "none" => a.op \in SlotOps
       /\ ~a.typed => a.deadline = 0 /\ a.opts.vault \notin {"unresolved", "otherid"}
       /\ a.op = "assert" /\ a.spec = "good" => Len(a.cases) > 0

NoOutcome == [code |-> 0, truncated |-> FALSE, header |-> FALSE, body |-> "none"]
Lost(what) == [code |-> 0, truncated |-> FALSE, header |-> FALSE, body |-> what]
Names(a) ==
  a.given \cup UNION {a.cases[i].uses \cup a.cases[i].wants \cup a.cases[i].extract : i \in DOMAIN a.cases}

-----------------------------------------------------------------------------
(* Parsing.  Each parser yields "none" or an error code; the first error   *)
(* is the answer.                                                          *)

Bad(test) == IF test THEN "INVALID_ARGUMENT" ELSE "none"
FirstError(codes) ==
  LET bad == {i \in DOMAIN codes : codes[i] # "none"}
  IN IF bad = {} THEN "none" ELSE codes[CHOOSE i \in bad : \A j \in bad : i <= j]

normalize_method(m) == Bad(m = "blank")
parse_header(h) == Bad(h \in {"nocolon", "noname"})
parse_key_value_pair(q) == Bad(q \in {"noequals", "nokey"})
parse_basic_auth(b) == Bad(b \in {"nocolon", "nouser"})

parse_status_expectation(s) ==
  CASE s.kind = "exact" -> Bad(s.lo \notin 100..599)
    [] s.kind = "class" -> Bad(s.lo \notin 1..5)
    [] s.kind = "range" -> Bad(s.lo > s.hi)
    [] OTHER -> Bad(TRUE)
parse_json_expectation_expression(j) ==
  Bad(j \notin {"eq", "contains", "exists", "absent", "match"})

RequestExpectations(checks) ==
  FirstError([i \in DOMAIN checks |->
     CASE checks[i].on = "status" -> parse_status_expectation(checks[i])
       [] checks[i].on = "header" -> parse_header(checks[i].form)
       [] checks[i].on = "json" -> parse_json_expectation_expression(checks[i].form)
       [] OTHER -> "none"])

\* A payload comes from one source at most; a file may be unreadable, JSON malformed.
parse_payload(p) ==
  CASE p \in {"two", "malformed"} -> "INVALID_ARGUMENT"
    [] p = "unreadable" -> "FILE_READ_FAILED"
    [] OTHER -> "none"

\* The three ways to authenticate exclude each other.
parse_auth(bearer, basic, vault) ==
  FirstError(<<Bad((bearer # "none" /\ (basic # "none" \/ vault # "none")) \/ (basic # "none" /\ vault # "none")),
               Bad(bearer = "blank"), parse_basic_auth(basic)>>)

\* The credential the host resolved: its slot, kind and values.
basic_from_resolved_secrets(v) ==
  CASE v = "otherslot" -> "INVALID_ARGUMENT"
    [] v = "kind"      -> "SECRET_KIND_MISMATCH"
    [] v \in {"nouser", "nopassword"} -> "SECRET_REQUIRED"
    [] v = "blankuser" -> "INVALID_ARGUMENT"
    [] OTHER -> "none"
\* A typed call names the credential: what the host resolved must be that one.
resolved_basic_credential(v) ==
  CASE v = "unresolved" -> "SECRET_REQUIRED"
    [] v = "otherid"    -> "SECRET_KIND_MISMATCH"
    [] OTHER -> basic_from_resolved_secrets(v)
\* On the command line it is the command that decides, whatever the method.
bind_resolved_credentials(a) ==
  FirstError(<<basic_from_resolved_secrets(a.opts.vault),
               Bad(a.opts.vault # "none" /\ a.op \notin SlotOps)>>)
CredentialError(a) ==
  IF a.typed THEN resolved_basic_credential(a.opts.vault) ELSE bind_resolved_credentials(a)

build_request_config(o) ==
  FirstError(<<normalize_method(o.method), Bad(o.url = "blank"), parse_header(o.headers),
               Bad(o.vault # "none" /\ o.headers = "authorization"), parse_key_value_pair(o.query),
               parse_auth(o.bearer, o.basic, o.vault), parse_payload(o.payload), Bad(o.cap = 0)>>)

\* A curl command line: its options, or what cannot be replayed.
parse_curl_replay(c) ==
  FirstError(<<Bad(c.form \in {"unparsable", "empty", "unsupported", "novalue", "nourl"}),
               parse_header(c.header), parse_basic_auth(c.basic)>>)
\* Explicit flags win over the command line's, except that its headers are always sent.
run_replay(a) ==
  LET o == a.opts
      explicit == o.bearer # "none" \/ o.basic # "none"
  IN [o EXCEPT !.headers = IF a.curl.header # "none" THEN a.curl.header ELSE @,
               !.bearer = IF ~explicit /\ a.curl.header = "authorization" THEN "token" ELSE @,
               !.basic = IF ~explicit THEN a.curl.basic ELSE @,
               !.payload = IF @ = "none" THEN a.curl.payload ELSE @]
run_request_shortcut(a) == [a.opts EXCEPT !.method = "named"]
Options(a) ==
  CASE a.op = "replay"  -> run_replay(a)
    [] a.op = "request" -> a.opts
    [] OTHER            -> run_request_shortcut(a)

-----------------------------------------------------------------------------
(* Evaluating a response.                                                  *)

StatusMatches(s, code) ==
  CASE s.kind = "exact" -> code = s.lo
    [] s.kind = "class" -> code \div 100 = s.lo
    [] OTHER -> s.lo <= code /\ code <= s.hi
\* body: "match" is JSON with the expected value, "other" is other JSON, "text" is no JSON.
evaluate_json_expectation(r, op) ==
  CASE op = "absent" -> r.body = "other"
    [] OTHER -> r.body = "match"
CheckHolds(r, c) ==
  CASE c.on = "status" -> StatusMatches(c, r.code)
    [] c.on = "header" -> r.header
    [] c.on = "body"   -> ~r.truncated /\ r.body = "match"
    [] OTHER           -> ~r.truncated /\ evaluate_json_expectation(r, c.form)
evaluate_assertions(r, checks) == {i \in DOMAIN checks : ~CheckHolds(r, checks[i])}

\* The variables, named for their selector, are all extracted or none is.
extract_response_value(r, v) ==
  IF v = "etag" THEN r.header ELSE ~r.truncated /\ r.body = "match"
extract_response_values(r, names) ==
  IF \A v \in names : extract_response_value(r, v) THEN names ELSE {}

-----------------------------------------------------------------------------
HttpDone(code) == httpAnswer' = code /\ httpPc' = "over"

\* The checks before the first request of a spec.
read_spec_file(a) ==
  CASE a.spec = "unreadable" -> "FILE_READ_FAILED"
    [] a.spec = "malformed" -> "INVALID_ARGUMENT"
    [] OTHER -> "none"
\* --json with another report format.
resolve_assert_report_mode(a) == Bad(a.spec = "report")
\* Every case's extractors are parsed up front: exactly one selector each.
parse_extractors(a) == Bad(a.spec = "selectors")
SpecError(a) ==
  FirstError(<<resolve_assert_report_mode(a), read_spec_file(a), Bad(a.spec \in {"version", "empty"}),
               parse_extractors(a), Bad(a.spec = "var")>>)

HttpBegin ==
  LET a == httpAsk
      code == IF a.op = "assert" THEN FirstError(<<CredentialError(a), SpecError(a)>>)
              ELSE FirstError(<<CredentialError(a),
                                IF a.op = "replay" THEN parse_curl_replay(a.curl) ELSE "none",
                                RequestExpectations(a.checks), build_request_config(Options(a))>>)
  IN /\ httpPc = "begin"
     /\ IF code # "none" THEN HttpDone(code) /\ UNCHANGED <<case, left>>
        ELSE /\ httpPc' = IF a.op = "assert" THEN "prepare" ELSE "attempt"
             /\ case' = 1 /\ left' = a.retry
             /\ UNCHANGED httpAnswer
     /\ UNCHANGED <<httpAsk, now, origin, last, attempts, results>>

interpolate_string(uses) == Bad(\E v \in uses : origin[v] = -1)
\* Either a URL or a path below the spec's base URL.
resolve_case_url(target) == Bad(target \in {"both", "neither", "nobase", "blank"})
\* A spec's headers are pairs already.
parse_spec_expectations(c) ==
  FirstError(<<interpolate_string(c.wants),
               FirstError([i \in DOMAIN c.checks |->
                  CASE c.checks[i].on = "status" -> parse_status_expectation(c.checks[i])
                    [] c.checks[i].on = "json" -> parse_json_expectation_expression(c.checks[i].form)
                    [] OTHER -> "none"])>>)

\* What is wrong with a case, an unknown variable too, ends the whole command, not the case.
build_case_request ==
  LET c == httpAsk.cases[case]
      q == c.request
      code == FirstError(<<Bad(q.name = "blank"), normalize_method(q.method), resolve_case_url(q.target),
                           interpolate_string(c.uses), Bad(q.cap = 0), parse_auth(q.bearer, q.basic, "none"),
                           parse_payload(q.payload), parse_spec_expectations(c)>>)
  IN /\ httpPc = "prepare"
     /\ IF code # "none" THEN HttpDone(code) /\ UNCHANGED left
        ELSE httpPc' = "attempt" /\ left' = httpAsk.retry /\ UNCHANGED httpAnswer
     /\ UNCHANGED <<httpAsk, now, case, origin, last, attempts, results>>

Deadline == httpAsk.deadline
remaining_deadline == IF Deadline = 0 THEN Timeout ELSE Deadline - now
\* What an attempt sets as its timeout.
AttemptTimeout == IF Timeout <= remaining_deadline THEN Timeout ELSE remaining_deadline
TheCase ==
  IF httpAsk.op = "assert" THEN httpAsk.cases[case]
  ELSE [request |-> Options(httpAsk), uses |-> {}, wants |-> {}, checks |-> httpAsk.checks, extract |-> {}]

is_retryable_request_error(r) == r.body \in {"HTTP_REQUEST_FAILED", "HTTP_RESPONSE_READ_FAILED"}
Retryable(r) == r.code >= 500 \/ (r.code = 0 /\ is_retryable_request_error(r))
\* An attempt that ends without a response, or while its body is read.
Unanswered == {Lost("INVALID_ARGUMENT"), Lost("HTTP_CLIENT_BUILD_FAILED"), Lost("HTTP_REQUEST_FAILED")}
ReadFailed == Lost("HTTP_RESPONSE_READ_FAILED")
AttemptOutcomes ==
  IF TheCase.request.method = "malformed" THEN {Lost("INVALID_ARGUMENT")}
  ELSE Responses \cup {Lost("HTTP_CLIENT_BUILD_FAILED"), Lost("HTTP_REQUEST_FAILED"), ReadFailed}
Attempt(r, t, b) ==
  [case |-> case, from |-> {origin[v] : v \in TheCase.uses}, outcome |-> r,
   began |-> now, answered |-> now + t, ended |-> now + t + b]

\* One attempt: the response comes within its timeout, which is no longer than what is left
\* of the deadline; the client starts the same timeout anew for each read of the body.
send_request ==
  /\ httpPc = "attempt"
  /\ IF Deadline # 0 /\ now >= Deadline
     THEN HttpDone("HTTP_TIMEOUT") /\ UNCHANGED <<now, last, attempts>>
     ELSE \E r \in AttemptOutcomes, t \in 1..AttemptTimeout, b \in 0..MaxReads * AttemptTimeout :
            /\ r \in Unanswered => b = 0
            /\ now' = now + t + b
            /\ last' = r
            /\ attempts' = Append(attempts, Attempt(r, t, b))
            /\ httpPc' = IF Retryable(r) /\ left > 0 THEN "wait" ELSE "evaluate"
            /\ UNCHANGED httpAnswer
  /\ UNCHANGED <<httpAsk, left, case, origin, results>>

wait_for_retry ==
  /\ httpPc = "wait"
  /\ IF Deadline # 0 /\ (now >= Deadline \/ httpAsk.delay >= Deadline - now)
     THEN HttpDone("HTTP_TIMEOUT") /\ UNCHANGED <<now, left>>
     ELSE /\ left' = left - 1
          /\ now' = now + httpAsk.delay
          /\ httpPc' = "attempt" /\ UNCHANGED httpAnswer
  /\ UNCHANGED <<httpAsk, case, origin, last, attempts, results>>

run_request_command ==
  /\ httpPc = "evaluate" /\ httpAsk.op # "assert"
  /\ HttpDone(CASE last.code = 0 -> last.body
                [] last.code # 0 /\ evaluate_assertions(last, httpAsk.checks) # {} -> "HTTP_ASSERTION_FAILED"
                [] OTHER -> "ok")
  /\ UNCHANGED <<httpAsk, now, left, case, origin, last, attempts, results>>

\* Mutant: what a failed case extracted is kept.
run_assertKeepsExtracted ==
  LET c == TheCase
      got == extract_response_values(last, c.extract)
      passed == evaluate_assertions(last, c.checks) = {} /\ got = c.extract
  IN /\ httpPc = "evaluate" /\ httpAsk.op = "assert"
     /\ IF last.code = 0 THEN HttpDone(last.body) /\ UNCHANGED <<case, origin, results>>
        ELSE /\ results' = Append(results, passed)
             /\ origin' = [v \in DOMAIN origin |-> IF v \in got THEN case ELSE origin[v]]
             /\ IF case = Len(httpAsk.cases) \/ (httpAsk.fail_fast /\ ~passed)
                THEN httpPc' = "report" /\ UNCHANGED case
                ELSE httpPc' = "prepare" /\ case' = case + 1
             /\ UNCHANGED httpAnswer
     /\ UNCHANGED <<httpAsk, now, left, last, attempts>>

\* run_assert's loop: an attempt that ended in an error ends the command.
run_assert ==
  LET c == TheCase
      got == extract_response_values(last, c.extract)
      passed == evaluate_assertions(last, c.checks) = {} /\ got = c.extract
  IN /\ httpPc = "evaluate" /\ httpAsk.op = "assert"
     /\ IF last.code = 0 THEN HttpDone(last.body) /\ UNCHANGED <<case, origin, results>>
        ELSE /\ results' = Append(results, passed)
             /\ origin' = [v \in DOMAIN origin |-> IF passed /\ v \in got THEN case ELSE origin[v]]
             /\ IF case = Len(httpAsk.cases) \/ (httpAsk.fail_fast /\ ~passed)
                THEN httpPc' = "report" /\ UNCHANGED case
                ELSE httpPc' = "prepare" /\ case' = case + 1
             /\ UNCHANGED httpAnswer
     /\ UNCHANGED <<httpAsk, now, left, last, attempts>>

execute_assert ==
  /\ httpPc = "report"
  /\ HttpDone(IF \E i \in DOMAIN results : ~results[i] THEN "HTTP_ASSERTION_FAILED" ELSE "ok")
  /\ UNCHANGED <<httpAsk, now, left, case, origin, last, attempts, results>>

HttpInit ==
  /\ httpAsk \in HttpAsks /\ httpPc = "begin" /\ now = 0 /\ left = 0 /\ case = 0
  /\ origin = [v \in Names(httpAsk) |-> IF v \in httpAsk.given THEN 0 ELSE -1]
  /\ last = NoOutcome /\ attempts = <<>> /\ results = <<>> /\ httpAnswer = "none"
HttpNext ==
  \/ HttpBegin \/ build_case_request \/ send_request \/ wait_for_retry
  \/ run_request_command \/ run_assert \/ execute_assert
HttpSpec == HttpInit /\ [][HttpNext]_httpVars

-----------------------------------------------------------------------------
(* Properties.                                                             *)

\* Every attempt begins before the caller's deadline and is answered within it, and no wait
\* goes past it, whatever the retries (send_with_retry): past the deadline the command only
\* ends, and only the body of its last attempt can have taken it there.  A case is attempted
\* again only while it has retries left and after an outcome that may be retried: a 4xx
\* answer or a failed check never is.
RetriesInBounds ==
  /\ Deadline # 0 =>
       /\ \A i \in DOMAIN attempts : attempts[i].began < Deadline /\ attempts[i].answered <= Deadline
       /\ now > Deadline => /\ attempts # <<>> /\ now = attempts[Len(attempts)].ended
                            /\ attempts[Len(attempts)].outcome \notin Unanswered
  /\ \A i, j \in DOMAIN attempts :
       i < j /\ attempts[i].case = attempts[j].case => Retryable(attempts[i].outcome)
  /\ \A k \in 1..case : Cardinality({i \in DOMAIN attempts : attempts[i].case = k}) <= httpAsk.retry + 1

\* "ok" means that every check of every case held of the case's last response, and no
\* request was sent with a value extracted by a case that did not pass (run_assert).
VerdictFromLastResponse ==
  LET lastOf(k) == CHOOSE i \in DOMAIN attempts :
                     attempts[i].case = k /\ \A j \in DOMAIN attempts : attempts[j].case = k => j <= i
      checksOf(k) == IF httpAsk.op = "assert" THEN httpAsk.cases[k].checks ELSE httpAsk.checks
  IN /\ httpAnswer = "ok" =>
          /\ httpAsk.op = "assert" => Len(results) = Len(httpAsk.cases)
          /\ \A k \in 1..case : \A c \in DOMAIN checksOf(k) :
               CheckHolds(attempts[lastOf(k)].outcome, checksOf(k)[c])
     /\ \A i \in DOMAIN attempts : \A k \in attempts[i].from :
          k >= 0 /\ (k > 0 => k < attempts[i].case /\ results[k])

\* However the responses, retries and extracted values fall, the requests stay within
\* what was asked and the verdict is one about the last responses.
AssertSound == RetriesInBounds /\ VerdictFromLastResponse
=============================================================================
