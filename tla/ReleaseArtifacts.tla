-------------------------- MODULE ReleaseArtifacts --------------------------
(***************************************************************************)
(* A release from the build's archives to a candidate ready to install.    *)
(* The release tool (ah-release-tool) checks the archives of one version,  *)
(* copies them, signs a manifest for each and publishes the set; the       *)
(* updater (ah-updater/src/candidate.rs, smoke.rs, ah-release-manifest,    *)
(* ah-updater-core) verifies the manifest, downloads the archive, extracts *)
(* it file by file and smoke-tests the result.                             *)
(*                                                                         *)
(* An archive is a sequence of entries [name, size, read, sha, plain]:     *)
(* declared size, bytes really stored, content, and whether the entry is   *)
(* an unencrypted regular file or directory of a supported compression.    *)
(* A digest is the content it was taken from, a signature the fact that    *)
(* the tool made the manifest: neither is ever forged.                     *)
(***************************************************************************)
EXTENDS Naturals, Sequences, FiniteSets

CONSTANTS
    Builds,        \* the archives a build may leave in the assets directory
    OldBuild,      \* the archive of the previous release
    ToolCalls,      \* what the tool is called with: [tag, minimum, seed, key]
    SmokeRuns,     \* what a candidate's programs may answer
    MaxFileBytes, MaxTotalBytes,
    MaxRebuilds,   \* bound: builds that rewrite an archive while the tool runs
    Requested      \* the operations asked for: upgrade, version, rollback

Profiles == {"windows", "linux"}
Purposes == [exe |-> "executable", helper |-> "update_helper", plugin |-> "plugin"]
Managed(p) == IF p = "windows" THEN {"exe", "helper", "plugin"} ELSE {"exe", "plugin"}

Directories == {"plugins"}
\* Names that differ only in case; "odd" stands for a name neither side accepts,
\* "reserved" for a device name only the updater knows.
Folded(name) == IF name = "EXE" THEN "exe" ELSE name
None == <<"none">>

\* Sizes and the parts of a version are unsigned, in the archives as in the manifests.
AnyEntry == [name : STRING, size : Nat, read : Nat, sha : STRING, plain : BOOLEAN]
ASSUME ArtifactAssumption ==
    Builds \subseteq Seq(AnyEntry) /\ \A m \in ToolCalls : m.minimum \in Nat

VARIABLES
    metadata,      \* the tool's arguments
    assets,        \* profile -> the archive in the assets directory
    sign,          \* the tool's step
    stagedSet,        \* profile -> the private copy
    sheet,         \* profile -> the signed manifest
    rebuilds,
    take,          \* the updater's step
    operation,
    manifest,      \* the verified manifest
    fetched,       \* the downloaded archive
    honest,        \* what was published is what was delivered
    left,          \* entries still to extract
    root           \* the files extracted: a set of <<path, content>>

artifactVars ==
    <<metadata, assets, sign, stagedSet, sheet, rebuilds, take, operation, manifest, fetched, honest, left, root>>
toolVars == <<metadata, assets, sign, stagedSet, sheet, rebuilds>>
takeVars == <<take, operation, manifest, fetched, honest, left, root>>

Files(a) == {i \in DOMAIN a : a[i].name \notin Directories}
TotalBytes(a) ==
    LET sum[n \in 0 .. Len(a)] ==
          IF n = 0 THEN 0
          ELSE sum[n - 1] + IF n \in Files(a) THEN a[n].size ELSE 0
    IN sum[Len(a)]

-----------------------------------------------------------------------------
(* The release tool.                                                       *)

\* validate_entry_name, supported_unix_mode: a relative ASCII path without dot
\* components, neither encrypted nor a link.
ToolEntrySound(e) == e.name # "odd" /\ e.plain

\* hash_reader: what is stored is as long as the entry declares.
HashedWhole(e) == e.read = e.size /\ e.read <= MaxFileBytes

NoCollisions(a) == \A i, j \in DOMAIN a : Folded(a[i].name) = Folded(a[j].name) => i = j

\* validate_archive.
ToolAccepts(p, a) ==
    /\ Len(a) > 0
    /\ \A i \in DOMAIN a : ToolEntrySound(a[i])
    /\ NoCollisions(a)
    /\ {a[i].name : i \in Files(a)} = Managed(p)
    /\ \A i \in Files(a) : HashedWhole(a[i])
    /\ TotalBytes(a) <= MaxTotalBytes

\* validate_archive_set: one archive for each profile, and each is accepted.
ArchiveSetAccepted(set) == \A p \in Profiles : set[p] # None /\ ToolAccepts(p, set[p])

\* SigningMaterial::parse: the seed must give the configured public key.
SigningKeyMatches(m) == m.seed = m.key /\ m.key = "release"

\* validate_release_metadata: the tag is this workspace's version and the
\* compatibility floor is not above it.
MetadataValid(m) == m.tag = 2 /\ m.minimum <= m.tag

\* build_manifest.
BuildManifest(p, v, floor, a) ==
    [target |-> p, version |-> v, minimum |-> floor, archive |-> a, key |-> "release",
     files |-> {[path |-> a[i].name, size |-> a[i].size, sha |-> a[i].sha,
                 purpose |-> Purposes[a[i].name]] : i \in Files(a)}]

\* The manifest of the previous release, which is still to be had.
OldManifest == BuildManifest("windows", 1, 1, OldBuild)

ArtifactInit ==
    /\ metadata \in ToolCalls /\ assets \in [Profiles -> Builds]
    /\ sign = "start" /\ stagedSet = [p \in Profiles |-> None]
    /\ sheet = [p \in Profiles |-> None] /\ rebuilds = 0
    /\ take = "verify" /\ operation \in Requested
    /\ manifest = None /\ fetched = None
    /\ honest = TRUE /\ left = {} /\ root = {}

\* A build writes into the assets directory while the tool works.
Rebuild(p) ==
    /\ sign \in {"checked", "copied"} /\ rebuilds < MaxRebuilds /\ rebuilds' = rebuilds + 1
    /\ \E a \in Builds : a # assets[p] /\ assets' = [assets EXCEPT ![p] = a]
    /\ UNCHANGED <<metadata, sign, stagedSet, sheet, takeVars>>

\* sign_release_set: the metadata and the archive set are checked first.
CheckSet ==
    /\ sign = "start"
    /\ sign' = IF /\ SigningKeyMatches(metadata) /\ MetadataValid(metadata)
                   /\ ArchiveSetAccepted(assets)
                 THEN "checked" ELSE "refused"
    /\ UNCHANGED <<metadata, assets, stagedSet, sheet, rebuilds, takeVars>>

CopyArchive(p) ==
    /\ sign = "checked" /\ stagedSet[p] = None
    /\ stagedSet' = [stagedSet EXCEPT ![p] = assets[p]]
    /\ sign' = IF \A q \in Profiles \ {p} : stagedSet[q] # None THEN "copied" ELSE sign
    /\ UNCHANGED <<metadata, assets, sheet, rebuilds, takeVars>>

\* The copies are checked again and the manifests are made from the copies.
SignSet ==
    /\ sign = "copied"
    /\ IF ArchiveSetAccepted(stagedSet)
         THEN sign' = "signed" /\ sheet' = [p \in Profiles |-> BuildManifest(p, 2, metadata.minimum, stagedSet[p])]
         ELSE sign' = "refused" /\ UNCHANGED sheet
    /\ UNCHANGED <<metadata, assets, stagedSet, rebuilds, takeVars>>

\* verify_staged_set and the rename that publishes the set.
VerifyStagedSet ==
    /\ sign = "signed"
    /\ sign' = IF \A p \in Profiles : sheet[p] = BuildManifest(p, 2, metadata.minimum, stagedSet[p])
                 THEN "published" ELSE "refused"
    /\ UNCHANGED <<metadata, assets, stagedSet, sheet, rebuilds, takeVars>>

-----------------------------------------------------------------------------
(* The updater.                                                            *)

\* What may arrive as a manifest: the ones the tool signed, this release's or
\* another's, and one that nobody signed.
Unsigned == [OldManifest EXCEPT !.version = 2]
Delivered == {sheet["windows"], sheet["linux"], OldManifest, Unsigned,
              [sheet["windows"] EXCEPT !.key = "unknown"]}

\* TrustedKeyRegistry::resolve: the key the manifest names is one of the anchors.
KeyTrusted(m) == m.key = "release"

\* verify_manifest: the bytes are the ones the key signed.
SignatureGenuine(m) == KeyTrusted(m) /\ m \in {sheet["windows"], sheet["linux"], OldManifest}

\* ReleaseManifest::validate, the part the builder does not fix.
ManifestValid(m) ==
    /\ m.files # {} /\ \A f, g \in m.files : Folded(f.path) = Folded(g.path) => f = g
    /\ \E f \in m.files : f.purpose \in {"executable", "update_helper"}

\* validate_manifest_identity: this version, this target, this archive asset.
\* and a compatibility floor the running updater meets.
IdentityMatches(m, v) ==
    m.version = v /\ m.target = "windows" /\ OldManifest.version >= m.minimum

\* Mutant: any signed manifest will do.
VerifyAnySigned ==
    /\ sign = "published" /\ take = "verify"
    /\ \E m \in {sheet["windows"], sheet["linux"], OldManifest} :
         /\ take' = "download" /\ manifest' = m /\ honest' = (m = sheet["windows"])
         /\ UNCHANGED <<operation, fetched, left, root>>
    /\ UNCHANGED toolVars

\* verify_discovered_release: some signed manifest arrives, not always the one
\* of this release.
Verify ==
    /\ sign = "published" /\ take = "verify"
    /\ \E m \in Delivered :
         IF SignatureGenuine(m) /\ ManifestValid(m) /\ IdentityMatches(m, 2)
           THEN /\ take' = "download" /\ manifest' = m /\ honest' = (m = sheet["windows"])
                /\ UNCHANGED <<operation, fetched, left, root>>
           ELSE /\ take' = "refused" /\ honest' = (m = sheet["windows"])
                /\ UNCHANGED <<operation, manifest, fetched, left, root>>
    /\ UNCHANGED toolVars

\* prepare_candidate: the archive must be the one the manifest was made for.
DownloadArchive ==
    /\ take = "download"
    /\ \E a \in {stagedSet["windows"], stagedSet["linux"], OldBuild} :
         /\ take' = IF a = manifest.archive THEN "preflight" ELSE "refused"
         /\ fetched' = a /\ honest' = (honest /\ a = stagedSet["windows"])
    /\ UNCHANGED <<toolVars, operation, manifest, left, root>>

\* validate_entry_name, is_windows_reserved_name, validate_entry_type.
CandidateEntrySound(e) == e.name \notin {"odd", "reserved"} /\ e.plain

\* Mutant: an archive may hold files only.
PreflightAcceptsFilesOnly(a, m) ==
    /\ \A i \in DOMAIN a : CandidateEntrySound(a[i])
    /\ \A i \in Files(a) : \E f \in m.files : f.path = a[i].name /\ f.size = a[i].size
    /\ {a[i].name : i \in Files(a)} = {f.path : f \in m.files}
    /\ Len(a) = Cardinality(m.files)

\* validate_inventory_bounds.
InventoryBounded(a, m) ==
    (\A f \in m.files : f.size <= MaxFileBytes) /\ TotalBytes(a) <= MaxTotalBytes

\* preflight_archive.
PreflightAccepts(a, m) ==
    /\ InventoryBounded(a, m)
    /\ \A i \in DOMAIN a : CandidateEntrySound(a[i])
    /\ NoCollisions(a)
    /\ \A i \in DOMAIN a \ Files(a) :
         a[i].size = 0 /\ \E f \in m.files : f.purpose = "plugin"
    /\ \A i \in Files(a) : \E f \in m.files : f.path = a[i].name /\ f.size = a[i].size
    /\ {a[i].name : i \in Files(a)} = {f.path : f \in m.files}

Preflight ==
    /\ take = "preflight"
    /\ IF PreflightAccepts(fetched, manifest)
         THEN take' = "extract" /\ left' = Files(fetched)
         ELSE take' = "refused" /\ UNCHANGED left
    /\ UNCHANGED <<toolVars, operation, manifest, fetched, honest, root>>

\* copy_and_hash: never more than the signed size, then length and digest.
ExtractedMatches(e, m) == \E f \in m.files : f.path = e.name /\ f.size = e.read /\ f.sha = e.sha

\* extract_verified_archive: one file is written, then its length and digest are compared.
Extract(i) ==
    LET e == fetched[i] IN
    /\ take = "extract" /\ i \in left /\ left' = left \ {i}
    /\ root' = root \cup {<<e.name, e.sha>>}
    /\ take' = IF ExtractedMatches(e, manifest) THEN take ELSE "refused"
    /\ UNCHANGED <<toolVars, operation, manifest, fetched, honest>>

\* main_executable and update_helper: exactly one of each.
OneOf(m, purpose) == Cardinality({f \in m.files : f.purpose = purpose}) = 1

\* validate_catalog: every entry is enabled, exposed and of this ABI, the
\* built-ins are there and there are as many dynamic plugins as signed files.
CatalogMatches(catalog, m) ==
    /\ \A e, f \in catalog : e.domain = f.domain => e = f
    /\ \A e \in catalog : e.good /\ e.source \in {"builtin", "dynamic"}
    /\ \E e \in catalog : e.source = "builtin" /\ e.domain = "file"
    /\ Cardinality({e \in catalog : e.source = "dynamic"})
         = Cardinality({f \in m.files : f.purpose = "plugin"})

\* perform_offline_smoke: three commands, each clean, each agreeing with the manifest.
SmokePasses(run, m) ==
    /\ OneOf(m, "executable") /\ OneOf(m, "update_helper")
    /\ run.clean /\ run.version = m.version /\ run.helper = m.version
    /\ CatalogMatches(run.catalog, m)

SmokeRun ==
    /\ take = "extract" /\ left = {}
    /\ \E run \in SmokeRuns :
         take' = IF SmokePasses(run, manifest) THEN "plan" ELSE "smoke_failed"
    /\ UNCHANGED <<toolVars, operation, manifest, fetched, honest, left, root>>

\* validate_version_direction.
DirectionAllowed(op, old, new) == IF op = "rollback" THEN new < old ELSE new >= old

\* build_for_operation: the plan between the installed release and this one.
PlanOperations ==
    /\ take = "plan"
    /\ take' = IF DirectionAllowed(operation, OldManifest.version, manifest.version)
                    /\ manifest.target = OldManifest.target
                 THEN "ready" ELSE "refused_plan"
    /\ UNCHANGED <<toolVars, operation, manifest, fetched, honest, left, root>>

ToolStep ==
    \/ CheckSet \/ SignSet \/ VerifyStagedSet
    \/ \E p \in Profiles : Rebuild(p) \/ CopyArchive(p)
TakeStep ==
    \/ Verify \/ DownloadArchive \/ Preflight \/ SmokeRun \/ PlanOperations
    \/ \E i \in left : Extract(i)

ArtifactNext == ToolStep \/ TakeStep
ArtifactSpec == ArtifactInit /\ [][ArtifactNext]_artifactVars

-----------------------------------------------------------------------------
(* Properties.                                                             *)

\* A candidate that is ready to be installed holds exactly the files the tool
\* signed for this target and version, even when the release's assets were
\* mixed up.
InstallsWhatWasSigned ==
    take = "ready" => root = {<<f.path, f.sha>> : f \in sheet["windows"].files}

\* The two sides agree: an archive validate_archive lets the tool sign is one
\* the updater takes, unless the signed compatibility floor is above the
\* running version or a directory entry has content (which only
\* preflight_archive looks at).
SignedInstalls ==
    take = "refused" /\ honest =>
        \/ OldManifest.version < sheet["windows"].minimum
        \/ \E i \in DOMAIN fetched : fetched[i].name \in Directories /\ fetched[i].size > 0

\* What the updater makes ready is what the tool signed, and it refuses nothing the
\* tool was right to sign (validate_archive against preflight_archive).
ReleaseSound == InstallsWhatWasSigned /\ SignedInstalls
=============================================================================
