---------------------------- MODULE MCUpdatePath ----------------------------
(***************************************************************************)
(* Small instances of the machines of the update path for TLC: the         *)
(* transaction, the clients and their helpers, the permanent backup, the   *)
(* quiescence of the installation's processes, the discovery of a release  *)
(* and its artifacts.  They share no state here, so one is explored at a   *)
(* time.                                                                   *)
(***************************************************************************)
EXTENDS UpdateTransaction, UpdateClient, BackupRotation, Quiescence,
        ReleaseDiscovery, ReleaseArtifacts

VARIABLE machine

-----------------------------------------------------------------------------
(* One operation of every kind, interrupted anywhere.                      *)

OneOfEach == <<"add", "replace", "remove">>

-----------------------------------------------------------------------------
(* Listings: the highest version not first, one page, two pages, a full     *)
(* last page, and the listings the selection refuses.                       *)

Release(i, v, k) == [id |-> i, ver |-> v, kind |-> k, assets |-> Roles]
SomeListings ==
    {<<Release(1, 3, "stable"), Release(2, 5, "stable"), Release(3, 4, "hidden")>>,
     <<Release(1, 2, "stable"), Release(2, 3, "stable"), Release(3, 4, "stable"), Release(4, 1, "stable")>>,
     <<Release(1, 2, "stable"), Release(2, 2, "stable")>>,
     <<Release(0, 1, "stable")>>, <<Release(1, 6, "misnamed")>>,
     <<[Release(1, 2, "stable") EXCEPT !.assets = {"archive"}]>>, <<>>}
SomeNewReleases == {Release(8, 6, "stable"), Release(9, 1, "hidden")}

-----------------------------------------------------------------------------
(* Builds: a good archive for each target and archives that differ from one *)
(* in a size, a content, an extra entry.                                    *)

Entry(n, s, c) == [name |-> n, size |-> s, read |-> s, sha |-> c, plain |-> TRUE]
Windows == <<Entry("exe", 2, "new"), Entry("helper", 1, "new"), Entry("plugin", 1, "new")>>
Linux == <<Entry("exe", 2, "lin"), Entry("plugin", 1, "lin")>>
PreviousBuild == <<Entry("exe", 2, "old"), Entry("helper", 1, "old"), Entry("plugin", 1, "old")>>
Extras ==
    {Entry("odd", 1, "x"), Entry("reserved", 1, "x"), Entry("EXE", 1, "x"),
     Entry("plugins", 0, "dir"), Entry("plugins", 1, "dir"),
     [Entry("plugins", 0, "x") EXCEPT !.plain = FALSE]}
SomeBuilds ==
    {Windows, Linux, [Windows EXCEPT ![1].size = 3, ![1].read = 3], [Windows EXCEPT ![1].read = 1],
     [Windows EXCEPT ![1].sha = "newer"], [Linux EXCEPT ![1].sha = "newer"],
     [Windows EXCEPT ![2].size = 2, ![2].read = 2, ![3].size = 2, ![3].read = 2]}
    \cup {Append(Windows, e) : e \in Extras}

Called == [tag |-> 2, minimum |-> 1, seed |-> "release", key |-> "release"]
SomeToolCalls ==
    {Called, [Called EXCEPT !.minimum = 2], [Called EXCEPT !.minimum = 3], [Called EXCEPT !.tag = 3],
     [Called EXCEPT !.key = "other"]}

Builtin == [domain |-> "file", source |-> "builtin", good |-> TRUE]
Dynamic == [domain |-> "github", source |-> "dynamic", good |-> TRUE]
Answers == [clean |-> TRUE, version |-> 2, helper |-> 2, catalog |-> {Builtin, Dynamic}]
SomeSmokeRuns ==
    {Answers, [Answers EXCEPT !.version = 1, !.helper = 1], [Answers EXCEPT !.clean = FALSE],
     [Answers EXCEPT !.catalog = {Builtin}]}

-----------------------------------------------------------------------------
(* The machines that do not run stay in one initial state.                  *)

Rests(m, state) == machine = m \/ (machine # m /\ state)

PathInit ==
    /\ machine \in {"transaction", "client", "backup", "quiet", "discovery", "artifacts"}
    /\ Init /\ BackupInit /\ QuietInit
    /\ Rests("client", mcpUp = TRUE) /\ ClientInit
    /\ Rests("discovery", listing = <<>> /\ request = 0) /\ DiscoveryInit
    /\ Rests("artifacts", metadata = Called /\ operation = "upgrade" /\ assets = [p \in Profiles |-> Windows])
    /\ ArtifactInit

Turn(m, moves, others) == machine = m /\ moves /\ UNCHANGED <<machine, others>>

PathNext ==
    \/ Turn("transaction", Next, <<clientVars, backupVars, quietVars, discoveryVars, artifactVars>>)
    \/ Turn("client", ClientNext, <<vars, backupVars, quietVars, discoveryVars, artifactVars>>)
    \/ Turn("backup", BackupNext, <<vars, clientVars, quietVars, discoveryVars, artifactVars>>)
    \/ Turn("quiet", QuietNext, <<vars, clientVars, backupVars, discoveryVars, artifactVars>>)
    \/ Turn("discovery", DiscoveryNext, <<vars, clientVars, backupVars, quietVars, artifactVars>>)
    \/ Turn("artifacts", ArtifactNext, <<vars, clientVars, backupVars, quietVars, discoveryVars>>)

pathVars == <<machine, vars, clientVars, backupVars, quietVars, discoveryVars, artifactVars>>

PathSpec ==
    /\ PathInit /\ [][PathNext]_pathVars
    /\ WF_vars(machine = "transaction" /\ Helper)
    /\ WF_vars(machine = "transaction" /\ Startup)
    /\ WF_backupVars(machine = "backup" /\ Finalization)
    /\ WF_quietVars(machine = "quiet" /\ HelperMoves)
    /\ WF_quietVars(machine = "quiet" /\ GraceOver)
    /\ WF_discoveryVars(machine = "discovery" /\ (DiscoverStep \/ Download))

-----------------------------------------------------------------------------

\* Every wait of the update path ends: the finalization of the permanent backup comes to
\* an end across crashes and failing renames; where the quiescence runs, the helper
\* reaches a verdict (quiesce_with always returns); where the discovery runs,
\* `ah upgrade --check` ends, however many releases are published and however often
\* the download is redirected.
UpdateWaitsEnd ==
    /\ FinalizationCompletes
    /\ machine = "quiet" => QuiescenceEnds
    /\ machine = "discovery" => DiscoveryEnds

\* What an installation is moved to is the right release: the listing misses nothing newer that was
\* there throughout, and what is made ready for installation is what was signed for it.
ReleasePathSound == SelectionComplete /\ ReleaseSound
=============================================================================
