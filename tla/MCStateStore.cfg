CONSTANTS
    form1 = form1
    form2 = form2
    cli = cli
    server = server
    terminal = terminal
    Actors = {form1, form2, cli}
    Processes = {server, terminal}
    Home <- HomeOf
    Server = server
    Cells = {"value", "label"}
    Tokens = {"t1", "t2"}
    MaxCapabilities = 1
    MaxCrashes = 1
SPECIFICATION StoreSpec
INVARIANT NoLostUpdate
INVARIANT CapabilityOnce
SYMMETRY Interchangeable
