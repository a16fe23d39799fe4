------------------------------- MODULE Forge -------------------------------
(***************************************************************************)
(* The GitHub and GitLab plugins and the SDK they share: one command is    *)
(* decoded, given a credential, turned into the requests its handler sends *)
(* and answered.  The forge is the environment: it applies a write and may *)
(* still fail to say so, answers with a redirect that the client follows,  *)
(* publishes issues between two pages of a listing, finishes the awaited   *)
(* run whenever it likes.  A host stands for a host and its port.          *)
(*                                                                         *)
(* An ask is a record                                                      *)
(*   forge, cmd    the plugin and the command                              *)
(*   api, graphql  the two URLs, [scheme, host]                            *)
(*   where, remote how the repository is named: "given", "badarg", a       *)
(*                 remote of the forge's own host ("home") or of another   *)
(*                 ("elsewhere"), "undetected"; and the remote's host      *)
(*   pinned        GitLab's --host is given                                *)
(*   inline, vault the token the caller typed / the vault slot's state     *)
(*   env, helper   ambient tokens: environment variable, git credential    *)
(*   text          the inline/file pair of the body, comment or notes      *)
(*   target        the result limit of a listing or of a log               *)
(*   log           [declared, size, lines, body, expanded] of a log command*)
(*   timeout, interval, strict of the wait commands                        *)
(***************************************************************************)
EXTENDS Integers, Sequences, SequencesExt

CONSTANTS ForgeAsks,  \* the invocations considered
          Published,  \* the issues there are at the start, newest first
          Redirects,  \* the chains of redirects a request may meet, <<>> for none
          MaxNew,     \* how many issues may be published meanwhile
          MaxDelay    \* how much longer than asked a request or a sleep takes

\* The arguments a command can be given.
Urls == [scheme : {"https", "http"}, host : {"api.github", "github", "gitlab", "mirror", "loopback"}]
ConnectionArgs(a) ==
  /\ a.api \in Urls /\ a.graphql \in Urls
  /\ a.where \in {"given", "badarg", "home", "elsewhere", "undetected"}
  /\ a.remote \in {"github", "gitlab", "mirror"}
  /\ {a.pinned, a.inline, a.env, a.helper} \subseteq BOOLEAN
  /\ a.vault \in {"none", "good", "kind", "blank", "unresolved", "otherid"}
IssueArgs(a) ==
  /\ a.text \in {"absent", "given", "both", "unreadable", "blank", "malformed"}
  /\ {a.fields, a.search, a.full, a.numeric} \subseteq BOOLEAN
  /\ a.cmd = "issues" => a.target \in 1..100
WaitArgs(a) == a.timeout \in Nat \ {0} /\ a.interval \in Nat \ {0} /\ a.strict \in BOOLEAN
LogLimitArgs(a) ==
  /\ a.log.lines \in Seq([size : Nat \ {0}, kind : {"selected", "other", "bytes"}])
  /\ {a.log.declared, a.log.size, a.log.body, a.log.expanded, a.target} \subseteq Nat
ASSUME ForgeAssumption ==
  /\ \A a \in ForgeAsks : /\ a.forge \in {"github", "gitlab"}
                    /\ ConnectionArgs(a) /\ IssueArgs(a) /\ WaitArgs(a) /\ LogLimitArgs(a)
  /\ \A hops \in Redirects : hops \in Seq(Urls)
  /\ MaxNew \in Nat /\ MaxDelay \in Nat

VARIABLES forgeAsk,   \* the invocation in progress
          forgeStage, \* where it is
          forgeToken, \* [token, authority] as resolved
          forgeAt,    \* next request, page or log line
          forgeGot,   \* the issues or lines collected
          forgeLeft,  \* bytes of the log budget not yet spent
          forgeClock, \* seconds since the wait began
          forgeStop,  \* the call was cancelled
          forgeAnswer,\* [code, truncated]; code "none" until answered
          issues,     \* the forge: its issues, newest first
          runState,   \* the forge: the awaited run or pipeline
          applied,    \* the forge: the writes it applied for this call
          sentTo      \* every request sent: [url, token, at, hop, turned]

forgeVars == <<forgeAsk, forgeStage, forgeToken, forgeAt, forgeGot, forgeLeft,
               forgeClock, forgeStop, forgeAnswer, issues, runState, applied, sentTo>>
forgeWorld == <<issues, runState>>

-----------------------------------------------------------------------------
(* Credentials: which token a URL may receive.                             *)

NoTokenHere == [token |-> "none", authority |-> "none"]
TokenFor(kind, authority) == [token |-> kind, authority |-> authority]

is_loopback_authority(host) == host = "loopback"
https_authority(url) == IF url.scheme = "https" THEN url.host ELSE "none"
secure_authority(url) ==
  IF url.scheme = "https" \/ is_loopback_authority(url.host) THEN url.host ELSE "none"

HomeAuthorities(forge) ==
  IF forge = "github" THEN {"api.github", "github"} ELSE {"gitlab"}

\* Which repository: [code, remote].  A repository named outright leaves the remote unread,
\* so its host vouches for nothing; GitLab follows a remote of another host unless the
\* caller pinned one.
Found(remote) == [code |-> "none", remote |-> remote]
NotFound(code) == [code |-> code, remote |-> "none"]
resolve_repo(a) ==
  CASE a.where = "given"  -> Found("none")
    [] a.where = "badarg" -> NotFound("INVALID_ARGUMENT")
    [] a.where = "home"   -> Found(a.remote)
    [] OTHER              -> NotFound("REPO_UNDETECTED")
resolve_host_and_project(a) ==
  IF a.where = "elsewhere" /\ ~a.pinned THEN Found(a.remote) ELSE resolve_repo(a)
Repository(a) == IF a.forge = "github" THEN resolve_repo(a) ELSE resolve_host_and_project(a)

accepts_ambient_credentials(a, host) ==
  \/ host \in HomeAuthorities(a.forge)
  \/ is_loopback_authority(host)
  \/ Repository(a).remote = host

\* The host the git credential helper is asked about; "none" skips the helper.
github_credential_authority(a) ==
  IF https_authority(a.api) = "api.github" THEN "github" ELSE https_authority(a.api)
gitlab_credential_authority(a) ==
  IF https_authority(a.api) = https_authority(a.graphql) THEN https_authority(a.api) ELSE "none"
git_credential_token(a) ==
  LET host == IF a.forge = "github" THEN github_credential_authority(a)
              ELSE gitlab_credential_authority(a)
  IN a.helper /\ host # "none"

\* resolve: [ok, cred]; an explicit token for a target that must not see one is refused.
resolve_token(a, explicit) ==
  LET authority == secure_authority(a.api)
  IN CASE authority = "none" -> [ok |-> ~explicit, cred |-> NoTokenHere]
       [] authority # "none" /\ explicit -> [ok |-> TRUE, cred |-> TokenFor("explicit", authority)]
       [] authority # "none" /\ ~explicit /\ ~accepts_ambient_credentials(a, authority)
            -> [ok |-> TRUE, cred |-> NoTokenHere]
       [] OTHER -> [ok |-> TRUE,
                    cred |-> TokenFor(IF a.env \/ git_credential_token(a) THEN "ambient" ELSE "none",
                                      authority)]

\* The vault slot: what is selected publicly and what was resolved privately must agree.
token_from_resolved_secrets(a) ==
  CASE a.vault \in {"none", "unresolved"} -> "absent"
    [] a.vault = "kind"  -> "SECRET_KIND_MISMATCH"
    [] a.vault = "blank" -> "INVALID_ARGUMENT"
    [] OTHER             -> "present"
resolved_token(a) ==
  LET found == token_from_resolved_secrets(a)
  IN CASE a.vault = "unresolved" -> "SECRET_REQUIRED"
       [] a.vault = "otherid"    -> "SECRET_KIND_MISMATCH"
       [] OTHER                  -> found
connection_token(a) ==
  LET found == resolved_token(a)
  IN CASE found \notin {"absent", "present"} -> [code |-> found, explicit |-> FALSE]
       [] found = "present" /\ a.inline      -> [code |-> "INVALID_ARGUMENT", explicit |-> FALSE]
       [] OTHER -> [code |-> "none", explicit |-> a.inline \/ found = "present"]

\* The token a request carries: GitHub's API derives every URL from api_url, GitLab's
\* REST and GraphQL calls compare the URL with the authority the token is bound to.
\* Mutant: the GraphQL call carries the token wherever it points.
authorized_tokenAnywhere(url) == forgeToken.token
github_api(url) == forgeToken.token
gitlab_api(url) == IF secure_authority(url) = forgeToken.authority THEN forgeToken.token ELSE "none"
authorized_token(url) ==
  IF forgeToken.authority # "none" /\ secure_authority(url) = forgeToken.authority
  THEN forgeToken.token ELSE "none"

-----------------------------------------------------------------------------
(* What each handler sends.  A handler is refused before its first request *)
(* or is a sequence of steps; a step that need not succeed is tolerated,   *)
(* and what would have followed it is left out when it fails.              *)

Get == [to |-> "api", writes |-> "none", must |-> TRUE]
Write(what) == [Get EXCEPT !.writes = what]
Tolerated(step) == [step EXCEPT !.must = FALSE]
Steps(s) == [code |-> "none", steps |-> s, then |-> "answer"]
Refused(code) == [code |-> code, steps |-> <<>>, then |-> "answer"]
GoesOn(stage) == [Steps(<<>>) EXCEPT !.then = stage]

text_optional(a, plan) ==
  CASE a.text = "both"       -> Refused("INVALID_ARGUMENT")
    [] a.text = "unreadable" -> Refused("FILE_READ_FAILED")
    [] OTHER                 -> plan
text_required(a, plan) ==
  IF a.text \in {"absent", "blank"} THEN Refused("INVALID_ARGUMENT") ELSE text_optional(a, plan)
Comments(a) == a.text \in {"given", "blank"}

execute_repo == Steps(<<Tolerated(Get)>>)
github_execute_issues(a) == IF a.search THEN Steps(<<Get>>) ELSE GoesOn("listing")
create_issue(a) == text_optional(a, Steps(<<Write("issue")>>))
update_issue(a) ==
  text_optional(a, IF a.text = "absent" /\ ~a.fields THEN Refused("INVALID_ARGUMENT")
                   ELSE Steps(<<Write("update")>>))
close_issue(a) ==
  text_optional(a, Steps((IF Comments(a) THEN <<Write("comment")>> ELSE <<>>) \o <<Write("close")>>))
comment_issue(a) == text_required(a, Steps(<<Write("comment")>>))
issue_comments == Steps(<<Get>>)
create_release(a) == text_optional(a, Steps(<<Write("release")>>))
execute_release(a) == IF a.cmd = "release.create" THEN create_release(a) ELSE Steps(<<Get>>)
execute_workflows == Steps(<<Get>>)
dispatch_workflow(a) ==
  IF a.text = "malformed" THEN Refused("INVALID_ARGUMENT") ELSE Steps(<<Write("dispatch")>>)
execute_runs == Steps(<<Get>>)
wait_run == GoesOn("probing")
run_jobs == Steps(<<Get>>)
run_artifacts == Steps(<<Get>>)
run_logs(a) ==
  IF a.log.body = 0 \/ a.log.expanded = 0 THEN Refused("INVALID_ARGUMENT") ELSE GoesOn("download")

execute_project == Steps(<<Tolerated(Get)>>)
gitlab_execute_issues == Steps(<<Get>>)
\* The designs are behind GraphQL and only ever add a warning; a numeric project id
\* first costs a REST request for the path, whose failure is the warning and the end.
get_issue_designs_best_effort(a) ==
  (IF a.numeric THEN <<Tolerated(Get)>> ELSE <<>>) \o <<Tolerated([Get EXCEPT !.to = "graphql"])>>
issue_view_full(a) == <<Get, Get>> \o get_issue_designs_best_effort(a)
issue_view(a) ==
  Steps(IF a.full THEN issue_view_full(a) ELSE <<Get>>)
gitlab_create_issue(a) == text_optional(a, Steps(<<Write("issue")>>))
gitlab_update_issue(a) ==
  text_optional(a, IF a.text = "absent" /\ ~a.fields THEN Refused("INVALID_ARGUMENT")
                   ELSE Steps(<<Write("update")>>))
gitlab_close_issue(a) ==
  text_optional(a, Steps((IF Comments(a) THEN <<Write("comment")>> ELSE <<>>) \o <<Write("close")>>))
gitlab_comment_issue(a) == text_required(a, Steps(<<Write("comment")>>))
gitlab_issue_comments == Steps(<<Get>>)
execute_releases == Steps(<<Get>>)
gitlab_create_release(a) == text_optional(a, Steps(<<Write("release")>>))
gitlab_execute_release(a) ==
  IF a.cmd = "release.create" THEN gitlab_create_release(a) ELSE Steps(<<Get>>)
execute_pipelines == Steps(<<Get>>)
wait_pipeline == GoesOn("probing")
pipeline_jobs == Steps(<<Get>>)
job_trace(a) == IF a.log.body = 0 THEN Refused("INVALID_ARGUMENT") ELSE GoesOn("download")

github_execute_issue(a) ==
  CASE a.cmd = "issue.create"  -> create_issue(a)
    [] a.cmd = "issue.update"  -> update_issue(a)
    [] a.cmd = "issue.close"   -> close_issue(a)
    [] a.cmd = "issue.comment" -> comment_issue(a)
    [] a.cmd = "issue.comments"-> issue_comments
    [] OTHER                   -> Steps(<<Get>>)
execute_run(a) ==
  CASE a.cmd = "wait"      -> wait_run
    [] a.cmd = "jobs"      -> run_jobs
    [] a.cmd = "logs"      -> run_logs(a)
    [] a.cmd = "artifacts" -> run_artifacts
    [] OTHER               -> Steps(<<Get>>)
github_execute(a) ==
  CASE a.cmd = "repo"         -> execute_repo
    [] a.cmd = "issues"       -> github_execute_issues(a)
    [] a.cmd \in {"release.get", "release.assets", "release.create"} -> execute_release(a)
    [] a.cmd = "workflows"    -> execute_workflows
    [] a.cmd = "workflow.run" -> dispatch_workflow(a)
    [] a.cmd = "runs"         -> execute_runs
    [] a.cmd \in {"run.get", "wait", "jobs", "logs", "artifacts"} -> execute_run(a)
    [] OTHER                  -> github_execute_issue(a)

gitlab_execute_issue(a) ==
  CASE a.cmd = "issue.create"  -> gitlab_create_issue(a)
    [] a.cmd = "issue.update"  -> gitlab_update_issue(a)
    [] a.cmd = "issue.close"   -> gitlab_close_issue(a)
    [] a.cmd = "issue.comment" -> gitlab_comment_issue(a)
    [] a.cmd = "issue.comments"-> gitlab_issue_comments
    [] OTHER                   -> issue_view(a)
execute_pipeline(a) ==
  CASE a.cmd = "wait" -> wait_pipeline
    [] a.cmd = "jobs" -> pipeline_jobs
    [] OTHER          -> Steps(<<Get>>)
gitlab_execute(a) ==
  CASE a.cmd = "repo"     -> execute_project
    [] a.cmd = "issues"   -> gitlab_execute_issues
    [] a.cmd = "releases" -> execute_releases
    [] a.cmd \in {"release.get", "release.create"} -> gitlab_execute_release(a)
    [] a.cmd = "runs"     -> execute_pipelines
    [] a.cmd \in {"run.get", "wait", "jobs"} -> execute_pipeline(a)
    [] a.cmd = "logs"     -> job_trace(a)
    [] OTHER              -> gitlab_execute_issue(a)

plan(a) == IF a.forge = "github" THEN github_execute(a) ELSE gitlab_execute(a)

\* What the catalogs declare of a command: the ones published with write_effects.
gitlab_catalog == {"issue.create", "issue.update", "issue.close", "issue.comment", "release.create"}
github_catalog == gitlab_catalog \cup {"workflow.run"}
WriteCommands(forge) == IF forge = "github" THEN github_catalog ELSE gitlab_catalog

-----------------------------------------------------------------------------
(* Running an invocation.                                                  *)

NotAnswered == [code |-> "none", truncated |-> FALSE]
\* invocation_response: the answer the host gets, and that the call is over.
invocation_response(code, truncated) ==
  /\ forgeAnswer' = [code |-> code, truncated |-> truncated]
  /\ forgeStage' = "answered"

\* invoke: the cancellation check, the credential, the context, then the handler's own
\* refusals.  Nothing is sent yet (git and the credential helper are asked here).
invoke ==
  LET a == forgeAsk
      secret == connection_token(a)
      resolved == resolve_token(a, secret.explicit)
      todo == plan(a)
      refusal == CASE forgeStop -> "CANCELLED"
                   [] ~forgeStop /\ secret.code # "none" -> secret.code
                   [] OTHER -> IF Repository(a).code # "none" THEN Repository(a).code
                               ELSE IF ~resolved.ok THEN "INSECURE_TOKEN_TARGET" ELSE todo.code
  IN /\ forgeStage = "invoked"
     /\ IF refusal # "none"
        THEN invocation_response(refusal, FALSE) /\ UNCHANGED forgeToken
        ELSE /\ forgeToken' = resolved.cred
             /\ forgeStage' = IF todo.then = "answer" THEN "requests" ELSE todo.then
             /\ UNCHANGED forgeAnswer
     /\ forgeAt' = 1
     /\ forgeLeft' = IF a.forge = "github" THEN a.log.expanded ELSE a.log.body
     /\ UNCHANGED <<forgeAsk, forgeGot, forgeClock, forgeStop, forgeWorld, applied, sentTo>>

\* JsonApi::send and ::json.  What can become of a request: answered, refused with a
\* status, lost before or after the forge acted on it, answered with what cannot be read.
\* A write that meets a 301, 302 or 303 is "turned" into the read of another place.
Fates == {"ok", "status", "unsent", "lost", "garbled"}
Turned == "turned"
Succeeds(fate) == fate \in {"ok", Turned}
FailureCode(fate) ==
  CASE fate = "status" -> "API_FAILED" [] fate = "garbled" -> "RESPONSE_INVALID" [] OTHER -> "HTTP_FAILED"
Acts(fate) == fate \in {"ok", "lost", "garbled"}
apply(url, to) ==
  CASE to = "graphql" -> authorized_token(url)
    [] to # "graphql" /\ forgeAsk.forge = "github" -> github_api(url)
    [] OTHER -> gitlab_api(url)
\* Neither client turns redirects off.  reqwest drops the Authorization header of GitHub on
\* the way to another host, for good; the PRIVATE-TOKEN header of GitLab it does not know.
Carried(url, hops, k) ==
  forgeAsk.forge = "github" => \A j \in 1..k : hops[j].host = url.host
Asked(to) == IF to = "graphql" THEN forgeAsk.graphql ELSE forgeAsk.api
Followed(to, hops, turned) ==
  {[url |-> hops[k],
    token |-> IF Carried(Asked(to), hops, k) THEN apply(Asked(to), to) ELSE "none",
    at |-> forgeClock, hop |-> k, turned |-> turned] : k \in DOMAIN hops}
send(to, hops, turned) ==
  sentTo' = sentTo
    \cup {[url |-> Asked(to), token |-> apply(Asked(to), to), at |-> forgeClock,
           hop |-> 0, turned |-> FALSE]}
    \cup Followed(to, hops, turned)
\* A request that writes nothing.
SendRead == \E hops \in Redirects : send("api", hops, FALSE)

\* Mutant: a failed request before the last one is ignored.
RequestGoesOn ==
  LET todo == plan(forgeAsk).steps
      step == todo[forgeAt]
  IN /\ forgeStage = "requests"
     /\ \E fate \in Fates \cup {Turned}, hops \in Redirects :
          /\ fate = Turned => step.writes # "none" /\ hops # <<>>
          /\ send(step.to, hops, fate = Turned)
          /\ applied' = IF Acts(fate) /\ step.writes # "none" THEN Append(applied, step.writes)
                        ELSE applied
          /\ IF forgeAt = Len(todo)
             THEN /\ invocation_response(IF Succeeds(fate) \/ ~step.must THEN "ok" ELSE FailureCode(fate), FALSE)
                  /\ UNCHANGED forgeAt
             ELSE forgeAt' = forgeAt + 1 /\ UNCHANGED <<forgeAnswer, forgeStage>>
     /\ UNCHANGED <<forgeAsk, forgeToken, forgeGot, forgeLeft, forgeClock, forgeStop, forgeWorld>>

Request ==
  LET todo == plan(forgeAsk).steps
      step == todo[forgeAt]
  IN /\ forgeStage = "requests"
     /\ \E fate \in Fates \cup {Turned}, hops \in Redirects :
          /\ fate = Turned => step.writes # "none" /\ hops # <<>>
          /\ send(step.to, hops, fate = Turned)
          /\ applied' = IF Acts(fate) /\ step.writes # "none" THEN Append(applied, step.writes)
                        ELSE applied
          /\ IF ~Succeeds(fate) /\ step.must
             THEN invocation_response(FailureCode(fate), FALSE) /\ UNCHANGED forgeAt
             ELSE IF ~Succeeds(fate) \/ forgeAt = Len(todo)
             THEN invocation_response("ok", FALSE) /\ UNCHANGED forgeAt
             ELSE forgeAt' = forgeAt + 1 /\ UNCHANGED <<forgeAnswer, forgeStage>>
     /\ UNCHANGED <<forgeAsk, forgeToken, forgeGot, forgeLeft, forgeClock, forgeStop, forgeWorld>>

\* list_github_issues: whole pages of `target` entries, pull requests dropped.
list_github_issues ==
  LET target == forgeAsk.target
      page == SubSeq(issues, (forgeAt - 1) * target + 1,
                     IF forgeAt * target < Len(issues) THEN forgeAt * target ELSE Len(issues))
      real == SelectSeq(page, LAMBDA i : ~i.pr)
      got == forgeGot \o SubSeq(real, 1, IF Len(real) < target - Len(forgeGot) THEN Len(real)
                                        ELSE target - Len(forgeGot))
  IN /\ forgeStage = "listing"
     /\ SendRead
     /\ \/ /\ forgeGot' = got
           /\ IF Len(page) < target \/ Len(got) >= target
              THEN invocation_response("ok", FALSE) /\ UNCHANGED forgeAt
              ELSE forgeAt' = forgeAt + 1 /\ UNCHANGED <<forgeAnswer, forgeStage>>
        \/ /\ \E fate \in Fates \ {"ok"} : invocation_response(FailureCode(fate), FALSE)
           /\ UNCHANGED <<forgeGot, forgeAt>>
     /\ UNCHANGED <<forgeAsk, forgeToken, forgeLeft, forgeClock, forgeStop, forgeWorld, applied>>

\* until_ready: a probe, then a sleep that lands on the deadline at the latest.
Terminal(state) == state # "running"
WaitOver(clock) == clock >= forgeAsk.timeout
Verdict == IF forgeAsk.strict /\ runState # "success" THEN "RUN_FAILED" ELSE "ok"

Probe ==
  /\ forgeStage = "probing"
  /\ SendRead
  /\ \E delay \in 0..MaxDelay : forgeClock' = forgeClock + delay
  /\ \/ Terminal(runState) /\ invocation_response(Verdict, FALSE)
     \/ /\ ~Terminal(runState)
        /\ IF WaitOver(forgeClock') THEN invocation_response("TIMEOUT", FALSE)
           ELSE forgeStage' = "sleeping" /\ UNCHANGED forgeAnswer
     \/ \E fate \in Fates \ {"ok"} : invocation_response(FailureCode(fate), FALSE)
  /\ UNCHANGED <<forgeAsk, forgeToken, forgeAt, forgeGot, forgeLeft, forgeStop, forgeWorld, applied>>

\* Mutant: the deadline is not looked at again after the sleep.
SleepUnchecked ==
  LET left == forgeAsk.timeout - forgeClock
      nap == IF forgeAsk.interval < left THEN forgeAsk.interval ELSE left
  IN /\ forgeStage = "sleeping"
     /\ \/ forgeStop /\ invocation_response("CANCELLED", FALSE) /\ UNCHANGED forgeClock
        \/ /\ ~forgeStop
           /\ \E delay \in 0..MaxDelay : forgeClock' = forgeClock + nap + delay
           /\ forgeStage' = "probing" /\ UNCHANGED forgeAnswer
     /\ UNCHANGED <<forgeAsk, forgeToken, forgeAt, forgeGot, forgeLeft, forgeStop, forgeWorld,
                    applied, sentTo>>

\* Mutant: a sleep that nothing interrupts and no deadline shortens ends nothing.
SleepForever ==
  /\ forgeStage = "sleeping"
  /\ IF forgeStop THEN invocation_response("CANCELLED", FALSE)
     ELSE forgeStage' = "probing" /\ UNCHANGED forgeAnswer
  /\ UNCHANGED <<forgeAsk, forgeToken, forgeAt, forgeGot, forgeLeft, forgeClock, forgeStop,
                 forgeWorld, applied, sentTo>>

Sleep ==
  LET left == forgeAsk.timeout - forgeClock
      nap == IF forgeAsk.interval < left THEN forgeAsk.interval ELSE left
  IN /\ forgeStage = "sleeping"
     /\ \/ forgeStop /\ invocation_response("CANCELLED", FALSE) /\ UNCHANGED forgeClock
        \/ /\ ~forgeStop
           /\ \E delay \in 0..MaxDelay : forgeClock' = forgeClock + nap + delay
           /\ IF WaitOver(forgeClock') THEN invocation_response("TIMEOUT", FALSE)
              ELSE forgeStage' = "probing" /\ UNCHANGED forgeAnswer
     /\ UNCHANGED <<forgeAsk, forgeToken, forgeAt, forgeGot, forgeLeft, forgeStop, forgeWorld,
                    applied, sentTo>>

\* The log is fetched: a declared length over the budget is refused unread; GitHub reads
\* the archive whole, so its size is checked again, and GitLab streams.
download_logs ==
  LET log == forgeAsk.log
      archive == log.size
  IN /\ forgeStage = "download"
     /\ SendRead
     /\ \/ /\ \/ log.declared > log.body
              \/ forgeAsk.forge = "github" /\ archive > log.body
           /\ invocation_response("RESPONSE_TOO_LARGE", FALSE)
        \/ /\ log.declared <= log.body
           /\ forgeAsk.forge = "github" => archive <= log.body
           /\ forgeStage' = "reading" /\ UNCHANGED forgeAnswer
        \/ \E fate \in Fates \ {"ok"} : invocation_response(FailureCode(fate), FALSE)
     /\ UNCHANGED <<forgeAsk, forgeToken, forgeAt, forgeGot, forgeLeft, forgeClock, forgeStop,
                    forgeWorld, applied>>

\* scan_lines: one line, spent from the budget before it is looked at.  The stream may fail
\* under it: a connection that breaks, an archive that does not unpack.
scan_line ==
  LET lines == forgeAsk.log.lines
      line == lines[forgeAt]
      keep == line.kind = "selected"
  IN /\ forgeStage = "reading"
     /\ \/ /\ invocation_response(FailureCode("garbled"), FALSE)
           /\ UNCHANGED <<forgeAt, forgeGot, forgeLeft>>
        \/ /\ forgeAt > Len(lines)
           /\ invocation_response("ok", FALSE) /\ UNCHANGED <<forgeAt, forgeGot, forgeLeft>>
        \/ /\ forgeAt <= Len(lines) /\ line.size > forgeLeft
           /\ invocation_response("RESPONSE_TOO_LARGE", FALSE)
           /\ UNCHANGED <<forgeAt, forgeGot, forgeLeft>>
        \/ /\ forgeAt <= Len(lines) /\ line.size <= forgeLeft
           /\ forgeLeft' = forgeLeft - line.size
           /\ IF keep /\ Len(forgeGot) = forgeAsk.target
              THEN invocation_response("ok", TRUE) /\ UNCHANGED <<forgeAt, forgeGot>>
              ELSE /\ forgeGot' = IF keep THEN Append(forgeGot, line) ELSE forgeGot
                   /\ forgeAt' = forgeAt + 1
                   /\ UNCHANGED <<forgeAnswer, forgeStage>>
     /\ UNCHANGED <<forgeAsk, forgeToken, forgeClock, forgeStop, forgeWorld, applied, sentTo>>

-----------------------------------------------------------------------------
(* The host and the forge.                                                 *)

CancelForge ==
  /\ forgeStage \notin {"answered"} /\ ~forgeStop
  /\ forgeStop' = TRUE
  /\ UNCHANGED <<forgeAsk, forgeStage, forgeToken, forgeAt, forgeGot, forgeLeft, forgeClock,
                 forgeAnswer, forgeWorld, applied, sentTo>>

\* Somebody opens an issue or a pull request: it is listed first.
PublishIssue ==
  /\ forgeStage = "listing" /\ Len(issues) < Len(Published) + MaxNew
  /\ \E pr \in BOOLEAN : issues' = <<[id |-> Len(issues) + 1, pr |-> pr]>> \o issues
  /\ UNCHANGED <<forgeAsk, forgeStage, forgeToken, forgeAt, forgeGot, forgeLeft, forgeClock,
                 forgeStop, forgeAnswer, runState, applied, sentTo>>

RunEnds ==
  /\ forgeStage \in {"probing", "sleeping"} /\ runState = "running"
  /\ runState' \in {"success", "failed"}
  /\ UNCHANGED <<forgeAsk, forgeStage, forgeToken, forgeAt, forgeGot, forgeLeft, forgeClock,
                 forgeStop, forgeAnswer, issues, applied, sentTo>>

ForgeInit ==
  /\ forgeAsk \in ForgeAsks
  /\ forgeStage = "invoked"
  /\ forgeToken = NoTokenHere
  /\ forgeAt = 1 /\ forgeGot = <<>> /\ forgeLeft = 0 /\ forgeClock = 0 /\ forgeStop = FALSE
  /\ forgeAnswer = NotAnswered
  /\ issues = Published /\ runState = "running" /\ applied = <<>> /\ sentTo = {}

ForgeStep ==
  invoke \/ Request \/ list_github_issues \/ Probe \/ Sleep \/ download_logs \/ scan_line
ForgeNext == ForgeStep \/ CancelForge \/ PublishIssue \/ RunEnds

\* Every request carries the client's timeout and every sleep is bounded, so a step that
\* can be taken is; the forge and the host promise nothing.
ForgeSpec == ForgeInit /\ [][ForgeNext]_forgeVars /\ WF_forgeVars(ForgeStep)

-----------------------------------------------------------------------------
(* Properties.                                                             *)

\* No request a plugin makes carries a token in clear off this machine, a token bound to
\* one authority reaches no other (the GraphQL URL included), and a token the caller did not
\* give for this call only reaches the forge itself, this machine or the host of the git
\* remote (resolve, accepts_ambient_credentials, Authorization::apply, authorized_token).
\* Of a redirect the client follows by itself only GitHub's token is kept back, which stays
\* at its host and port; GitLab's goes wherever the answer of that host points, although
\* plugins/ah-plugin-gitlab/src/api.rs:35 and ah-plugin-sdk/src/http.rs:47 say it does not.
TokenWhereAllowed ==
  \A s \in sentTo : s.token # "none" =>
    /\ s.hop = 0 => s.url.scheme = "https" \/ s.url.host = "loopback"
    /\ (s.hop = 0 \/ forgeAsk.forge = "github") =>
         /\ s.url.host = forgeAsk.api.host
         /\ s.token = "ambient" =>
              \/ s.url.host \in HomeAuthorities(forgeAsk.forge) \cup {"loopback"}
              \/ s.url.host = forgeAsk.remote /\ forgeAsk.where # "given"
    /\ s.token = "explicit" => forgeAsk.inline \/ forgeAsk.vault = "good"

Answered == forgeStage = "answered"
PlannedWrites == SelectSeq([i \in DOMAIN plan(forgeAsk).steps |-> plan(forgeAsk).steps[i].writes],
                           LAMBDA w : w # "none")
Position(i) == CHOOSE n \in DOMAIN issues : issues[n] = i

\* A success says every write of the command was made, once and in order (so an issue is
\* never closed without the comment that explains it), unless a redirect turned one into a
\* read, which nothing in the plugins looks at; a failure left at most the writes before the
\* one that failed; no write is made twice; a command published as a read wrote nothing.
TurnedAway == \E s \in sentTo : s.turned
WritesAsAnswered ==
  /\ ~TurnedAway =>
       /\ forgeAnswer.code = "ok" => applied = PlannedWrites
       /\ IsPrefix(applied, PlannedWrites)
  /\ IsInjective(applied) /\ Range(applied) \subseteq Range(PlannedWrites)
  /\ applied # <<>> => forgeAsk.cmd \in WriteCommands(forgeAsk.forge)

\* A listing drops nothing: what was there all along and is newer than the last entry
\* listed is listed, and a short listing is a whole one, however many issues are published
\* between its pages.
ListingWhole ==
  (Answered /\ forgeAsk.cmd = "issues" /\ forgeAsk.forge = "github" /\ ~forgeAsk.search
     /\ forgeAnswer.code = "ok") =>
    \A i \in Range(Published) :
      (/\ ~i.pr
       /\ Len(forgeGot) < forgeAsk.target
            \/ \E n \in DOMAIN forgeGot : Position(forgeGot[n]) > Position(i))
      => i \in Range(forgeGot)

\* A wait says "done" only of a run that is done, "timed out" only once the time is over,
\* "cancelled" only when it was, and asks the forge nothing once its time is over.
WaitAsAnswered ==
  forgeAsk.cmd = "wait" =>
    /\ \A s \in sentTo : s.at = 0 \/ s.at < forgeAsk.timeout
    /\ forgeAnswer.code = "ok" => Terminal(runState) /\ (forgeAsk.strict => runState = "success")
    /\ forgeAnswer.code = "RUN_FAILED" => runState = "failed"
    /\ forgeAnswer.code = "TIMEOUT" => WaitOver(forgeClock)
    /\ forgeAnswer.code = "CANCELLED" => forgeStop

\* A log answer is the first `target` selected lines, and says truncated exactly when
\* there was another one.
LogAsAnswered ==
  (Answered /\ forgeAsk.cmd = "logs" /\ forgeAnswer.code = "ok") =>
    LET selected == SelectSeq(forgeAsk.log.lines, LAMBDA l : l.kind = "selected")
    IN /\ IsPrefix(forgeGot, selected)
       /\ forgeAnswer.truncated <=> Len(selected) > forgeAsk.target
       /\ ~forgeAnswer.truncated => forgeGot = selected

\* The answer of a forge command agrees with what the forge did and holds.
AnswerHonest == WritesAsAnswered /\ ListingWhole /\ WaitAsAnswered /\ LogAsAnswered

\* The token goes where it may, and the answer says what happened there.
ForgeSound == TokenWhereAllowed /\ AnswerHonest

\* Every command is answered, a wait for a run that never ends included.
ForgeEnds == <>(forgeStage = "answered")
=============================================================================
