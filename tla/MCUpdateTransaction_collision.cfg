SPECIFICATION FairSpec
CONSTANTS
    Plan <- AddReplace
    Operation = "upgrade"
    McpWasRunning = FALSE
    Interruptions <- AroundReplace
    MaxAttempts = 1
    MaxCrashes = 1
    MaxFailures = 0
    MaxForeign = 0
PROPERTY JournalledRecovers
CHECK_DEADLOCK FALSE
