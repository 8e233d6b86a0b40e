CONSTANTS
    s1 = s1
    Sess <- MCSess
    MaxRuns = 2
    MaxConvs = 1
    Policies = {"allow"}
    Tools = {"exec"}
    Patient = FALSE
SPECIFICATION Spec
INVARIANT JoinedHaveReturned
