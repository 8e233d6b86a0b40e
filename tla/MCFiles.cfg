CONSTANTS
    a1 = a1
    a2 = a2
    b1 = b1
    sa = sa
    sb = sb
    u1 = u1
    u2 = u2
    Free = free
    Tasks <- MCTasks
    Sessions <- MCSessions
    Callers <- MCCallers
    SessionOf <- MCSessionOf
    MaxGlobal = 2
    MaxSession = 1
    w1 = w1
    w2 = w2
    w3 = w3
    Uploads <- MCUploads
    Downloads <- MCDownloads
    Previous = previous
    NoFile = noFile
    MaxOps = 4
    MaxHandles = 2
    MaxClients = 2
    sub = sub
    PanelSessions <- MCPanelSessions
    Dirs <- MCDirs
    Home = home
    None = none
    MaxCalls = 3
    Wishes <- MCWishes
    FirstTree <- MCTree
    FirstCwd <- MCCwd
    Names <- MCNames
    MaxLinks = 2
    NoPath = noPath
SPECIFICATION FilesSpec
INVARIANTS
    SlotsUsed
    ViewSettles
    DisposedIsQuiet
    ReplacesSafely
PROPERTIES
    PanelStays
    OnlyBelow
SYMMETRY Symmetry
