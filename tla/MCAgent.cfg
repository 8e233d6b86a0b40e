CONSTANTS
    s1 = s1
    Sess <- MCSess
    MaxRuns = 2
    MaxConvs = 2
    Policies = {"ask", "allow", "deny"}
    Tools = {"exec"}
    Patient = TRUE
SPECIFICATION FairSpec
INVARIANTS
    OneLoop
    JoinedHaveReturned
    ConsentSound
PROPERTIES
    WaitsEnd
