SPECIFICATION LineSpec
CONSTANTS
    Lines <- SomeLines
    CliDomains <- SomeDomains
    Directories <- SomeDirectories
INVARIANT HostFlagsBeforeChild
CHECK_DEADLOCK FALSE
