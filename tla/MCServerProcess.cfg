CONSTANTS
    Exec <- TwoJobs
    Ids = {1, 2}
    IdOf <- OwnIdTwo
    MaxActive = 1
    MaxRecords = 1
    Ttl = 1
    MaxNow = 2
    Cancellable = {1, 2}
    t1 = t1
    t2 = t2
    c1 = c1
    c2 = c2
    Transports = {"stdio", "http"}
    Triggers = {t1, t2}
    Calls = {c1, c2}
    Grace = 2
    QueueCapacity = 2
    MaxTime = 2
SPECIFICATION ProcessSpec
INVARIANT RecordsSound
PROPERTY TerminalIsStable
PROPERTY ExitIsClean
PROPERTY ServerEnds
