CONSTANTS
    Plan <- OneOfEach
    Operation = "upgrade"
    McpWasRunning = TRUE
    Interruptions <- Points
    MaxAttempts = 2
    MaxCrashes = 2
    MaxFailures = 1
    MaxForeign = 1
    Clients = {1, 2, 3}
    Upgraders = {1, 2}
    Rollbacks = {3}
    Latest = 2
    FinalizeCrash = FALSE
    MaxClientCrashes = 1
    MaxClientFailures = 1
    MaxStarts = 3
    MaxRelease = 3
    MaxDeaths = 2
    MaxRenameFailures = 1
    ConsumeCrash = FALSE
    Pids = {1, 2}
    MaxBirths = 3
    ListAttempts = 3
    MaxBlocking = 2
    SessionAttempts = 2
    Listings <- SomeListings
    NewReleases <- SomeNewReleases
    Requests = {0, 3}
    PageSize = 2
    MaxPages = 3
    MaxReleases = 6
    MaxRedirects = 2
    MaxPublished = 2
    Builds <- SomeBuilds
    OldBuild <- PreviousBuild
    ToolCalls <- SomeToolCalls
    SmokeRuns <- SomeSmokeRuns
    MaxFileBytes = 2
    MaxTotalBytes = 5
    MaxRebuilds = 1
    Requested = {"upgrade", "rollback"}
SPECIFICATION PathSpec
INVARIANT AllOrNothing
PROPERTY ForeignKept
PROPERTY ImplementsAtomicInstall
PROPERTY Recovers
INVARIANT HandoverSound
PROPERTY HelperKeepsTransaction
INVARIANT RollbackTargetKept
INVARIANT KillsOnlyOwn
INVARIANT ReleasePathSound
PROPERTY UpdateWaitsEnd
CHECK_DEADLOCK FALSE
