CONSTANTS
    Settings = {s1, s2}
    Port <- OnePort
    MaxDefs = 2
    MaxLaunches = 2
    Retries = 1
    MaxFaults = 1
    Gens = {"g1", "g2"}
    UnitEdits = {"change"}
    MaxUnitEdits = 1
    MaxCommands = 3
    MaxStarts = 2
    Requests <- SomeRequests
    Configs <- SomeConfigs
    RulesTexts <- SomeTexts
    MaxEdits = 1
    MaxRuns = 2
    Layouts <- SomeLayouts
    Builtins <- SomeBuiltins
    HostPlugins <- SomeHost
    Asks <- SomeCalls
    Kinds = {"postgres", "token"}
    SecretIds = {"s1", "s2"}
    Calls = {1, 2}
    MaxChanges = 1
    Lines <- SomeLines
    CliDomains <- SomeDomains
    Directories <- SomeDirectories
    Writers = {1, 2}
    Events <- SomeEvents
    ProcessOf <- TwoProcesses
    LineOf <- EventLine
    BlankLine <- NoRecord
    MaxEntries = 3
    MaxJsonDepth = 5
    Retain = 1
    MaxDay = 3
SYMMETRY AlikeSettings
SPECIFICATION AllSpec
INVARIANT RemovalSafe
PROPERTY CommandsExact
PROPERTY InstalledIsSo
INVARIANT RegistrationSafe
INVARIANT InstallHonest
PROPERTY UserTextKept
INVARIANT DispatchSound
INVARIANT LineSound
INVARIANT LogSound
