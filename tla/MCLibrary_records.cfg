CONSTANTS
    None = None
    MaxDepth = 2
    MaxHops = 2
    Starts <- MCStarts
    Foreign <- MCForeign
    Addrs = {"a"}
    Config <- MCConfig
    Aliases <- MCAliases
    OnDisk = {"id"}
    ClientSource = "termius"
    ClientFile <- MCClientFile
    Secrets = {TRUE}
    Parts <- MCParts
    MaxCalls = 2
    MaxEdits = 3
SPECIFICATION Spec
CHECK_DEADLOCK FALSE
INVARIANTS
    
    MovesWhole
PROPERTIES
    ImportsAdd
