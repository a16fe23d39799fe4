CONSTANTS
    Hosts <- AllHosts
    MaxOutputBytes = 2
    Outputs <- SomeOutputs
    PipeCapacity = 1
    MaxFaults = 1
    Selected = {"codex", "cursor"}
    InProject = FALSE
    MaxPanics = 1
    ForgeAsks <- SomeForgeAsks
    Published <- SomeIssues
    Redirects <- SomeRedirects
    MaxNew = 2
    MaxDelay = 1
    PgProcs = {1, 2, 3}
    PgStarts <- SomePgStarts
    SystemTool = "old"
    MaxCrashes = 1
    HttpAsks <- SomeHttpAsks
    Responses <- SomeResponses
    Timeout = 2
    MaxReads = 1
    WorkTrees <- SomeTrees
    ToolAsks <- SomeToolAsks
    ToolCwd <- FromHere
    ProcessCwd <- Elsewhere
    MaxTreeEdits = 1
    Repos <- SomeRepos
    GitAsks <- SomeGitAsks
    Commits <- SomeCommits
    Disguised = {5, 9}
    MaxGitEdits = 1
    MaxGitFaults = 1
    Projects <- SomeProjects
    ProjectAsks <- SomeProjectAsks
    MaxProjectEdits = 1
SPECIFICATION ExternalSpec
INVARIANT NoSurvivors
INVARIANT CaptureExact
INVARIANT ForgeSound
INVARIANT ToolSound
INVARIANT AssertSound
INVARIANT ReadersSound
PROPERTY WaitsEnd
CHECK_DEADLOCK FALSE
