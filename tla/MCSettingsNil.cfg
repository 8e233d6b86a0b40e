CONSTANTS
    MaxSaves = 4
    MaxChunks = 2
    MaxPrevious = 2
    Attempts = 2
    Corrupt = corrupt
    None = none
    c1 = c1
    c2 = c2
    s1 = s1
    s2 = s2
    p1 = p1
    Legacy = legacy
    Old = old
    k1 = k1
    P1 = P1
    P2 = P2
    Callers <- MCCallers
    Secrets <- MCSecrets
    Others <- MCOthers
    Keys <- MCKeys
    Processes <- MCProcesses
    RawFiles <- Files
    Patches <- Changes
    AgentProviderMax = 2
    AgentModelsMax = 1
    Texts <- MCTexts
    Bad = bad
    NaN = NaN
    MaxHistory = 9
    KeepMessages = 8
    KeepRounds = 2
    Threshold = 12
    Summary = 1
    NoteSize = 8
    Sizes = {1, 9}
    MaxCalls = 2
    MaxTurns = 2
    MaxPrompts = 4
SPECIFICATION StoresSpec
CHECK_DEADLOCK FALSE
PROPERTY NilFieldsUnchanged
