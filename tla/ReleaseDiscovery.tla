-------------------------- MODULE ReleaseDiscovery --------------------------
(***************************************************************************)
(* How `ah upgrade` finds a release: the paged listing of GitHub releases  *)
(* (ah-updater/src/github.rs), the choice of the release                   *)
(* (ah-updater-core/src/release.rs) and the download of its manifest and   *)
(* signature (ah-updater-core/src/check.rs).  The listing is read page by  *)
(* page while the project may publish, so a page boundary can move.        *)
(*                                                                         *)
(* A version is its precedence (major, minor, patch) as one number; a      *)
(* release is a record [id, ver, kind, assets] with kind "stable",         *)
(* "hidden" (a draft or a prerelease) or "misnamed" (a tag parse_tag       *)
(* refuses), and assets is the set of roles whose asset is acceptable.     *)
(***************************************************************************)
EXTENDS Naturals, Sequences, FiniteSets

CONSTANTS
    Listings,      \* what the project had published, newest first
    NewReleases,   \* what may be published while the client is listing
    Requests,      \* 0: the highest stable release; n: version n
    PageSize, MaxPages, MaxReleases, MaxRedirects,
    MaxPublished   \* bound: releases published during one listing

VARIABLES
    listing,       \* the server's list, newest first
    original,      \* the releases listed when the client began
    request,       \* the version asked for
    page,          \* the page the client asks for next
    got,           \* the releases collected so far
    find,          \* the client's step
    choice,        \* the selected release's version, 0 before
    role,          \* the asset being downloaded
    hops,          \* redirects followed for it
    published      \* releases published so far

discoveryVars ==
    <<listing, original, request, page, got, find, choice, role, hops, published>>

Roles == {"archive", "manifest", "signature"}
AnyRelease ==
    [id : Nat, ver : Nat, kind : {"stable", "hidden", "misnamed"}, assets : SUBSET Roles]

\* A page holds something; ids and the parts of a version are unsigned in the API's JSON.
ASSUME DiscoveryAssumption ==
    PageSize \in Nat \ {0} /\ Listings \subseteq Seq(AnyRelease) /\ NewReleases \subseteq AnyRelease

Members(s) == {s[i] : i \in DOMAIN s}
Least(m, n) == IF m < n THEN m ELSE n

DiscoveryInit ==
    /\ listing \in Listings /\ original = Members(listing)
    /\ request \in Requests
    /\ page = 1 /\ got = <<>> /\ find = "listing" /\ choice = 0
    /\ role = "manifest" /\ hops = 0 /\ published = 0

-----------------------------------------------------------------------------
(* list_releases.                                                          *)

\* The project publishes: the new release comes first and everything else
\* moves one place down.
Publish ==
    /\ find = "listing" /\ published < MaxPublished /\ published' = published + 1
    /\ \E r \in NewReleases :
         /\ r \notin Members(listing) /\ listing' = <<r>> \o listing
    /\ UNCHANGED <<original, request, page, got, find, choice, role, hops>>

PageOf(n) == SubSeq(listing, (n - 1) * PageSize + 1, Least(n * PageSize, Len(listing)))

TooMany(p) == Len(p) > PageSize \/ Len(got) + Len(p) > MaxReleases

\* Mutant: a full page is taken for the last one.
PageOutcomeFullIsLast(p) ==
    IF TooMany(p) THEN "refused" ELSE "select"

\* Only a page that is not full proves the listing complete.
PageOutcome(p) ==
    CASE ~TooMany(p) /\ Len(p) < PageSize -> "select"
      [] ~TooMany(p) /\ Len(p) = PageSize /\ page < MaxPages -> "listing"
      [] OTHER -> "refused"

FetchPage ==
    /\ find = "listing"
    /\ LET p == PageOf(page) IN
         /\ find' = PageOutcome(p)
         /\ got' = got \o p /\ page' = page + 1
    /\ UNCHANGED <<listing, original, request, choice, role, hops, published>>

\* A request that times out, a status other than 200, a body over the byte
\* bound or no release JSON (read_bounded_response, map_request_error).
FetchPageFails ==
    /\ find = "listing" /\ find' = "refused"
    /\ UNCHANGED <<listing, original, request, page, got, choice, role, hops, published>>

-----------------------------------------------------------------------------
(* select_highest_stable_release and select_stable_release_by_version.     *)

Listed(rs) == {i \in DOMAIN rs : rs[i].kind # "hidden"}

\* Ids are positive and unique, every visible tag parses and no two visible
\* releases have the same precedence.
ListingSound(rs) ==
    /\ \A i \in DOMAIN rs : rs[i].id # 0
    /\ \A i, j \in DOMAIN rs : rs[i].id = rs[j].id => i = j
    /\ \A i \in Listed(rs) : rs[i].kind = "stable"
    /\ \A i, j \in Listed(rs) : rs[i].ver = rs[j].ver => i = j

Selected(rs, want) ==
    {rs[i] : i \in {k \in Listed(rs) :
        IF want = 0 THEN \A j \in Listed(rs) : rs[j].ver <= rs[k].ver
                    ELSE rs[k].ver = want}}

\* resolve_release_assets: each of the three assets is there once, uploaded,
\* with an allowed size, the API address of its id and the tag's download URL.
AssetsResolve(r) == r.assets = Roles

SelectRelease ==
    /\ find = "select"
    /\ IF ListingSound(got) /\ \E r \in Selected(got, request) : AssetsResolve(r)
         THEN /\ find' = "download"
              /\ \E r \in Selected(got, request) : choice' = r.ver
         ELSE find' = "refused" /\ UNCHANGED choice
    /\ UNCHANGED <<listing, original, request, page, got, role, hops, published>>

-----------------------------------------------------------------------------
(* download_asset_to: the manifest, then the signature.                    *)

\* Mutant: the count starts over on every second host, so redirects never end.
RedirectUnbounded(approved) ==
    /\ find = "download"
    /\ IF approved THEN hops' = 1 - Least(hops, 1) /\ UNCHANGED find
                   ELSE find' = "refused" /\ UNCHANGED hops
    /\ UNCHANGED <<listing, original, request, page, got, choice, role, published>>

\* A redirect is followed to an approved HTTPS host, at most MaxRedirects times.
Redirect(approved) ==
    /\ find = "download"
    /\ IF approved /\ hops < MaxRedirects
         THEN hops' = hops + 1 /\ UNCHANGED find
         ELSE find' = "refused" /\ UNCHANGED hops
    /\ UNCHANGED <<listing, original, request, page, got, choice, role, published>>

\* write_exact_response: as many bytes as declared, and no more.
Body(exact) ==
    /\ find = "download"
    /\ IF ~exact
         THEN find' = "refused" /\ UNCHANGED <<role, hops>>
         ELSE /\ hops' = 0
              /\ IF role = "manifest" THEN role' = "signature" /\ UNCHANGED find
                                      ELSE find' = "verify" /\ UNCHANGED role
    /\ UNCHANGED <<listing, original, request, page, got, choice, published>>

DiscoverStep == FetchPage \/ FetchPageFails \/ SelectRelease
Download == \E answer \in BOOLEAN : Redirect(answer) \/ Body(answer)

DiscoveryNext == Publish \/ DiscoverStep \/ Download

\* The client's requests have timeouts, so it is never stuck in one.
DiscoverySpec ==
    DiscoveryInit /\ [][DiscoveryNext]_discoveryVars /\ WF_discoveryVars(DiscoverStep \/ Download)

-----------------------------------------------------------------------------
(* Properties.                                                             *)

\* What list_releases and select_highest_stable_release choose together is at
\* least as new as every stable release that was there when the client began,
\* however many were published between two pages.
SelectionComplete ==
    choice # 0 =>
        IF request = 0 THEN \A r \in original : r.kind = "stable" => r.ver <= choice
                       ELSE choice = request

\* Whatever the server answers, page after page and redirect after redirect,
\* `ah upgrade --check` comes to an end.
DiscoveryEnds == <>(find \in {"verify", "refused"})
=============================================================================
