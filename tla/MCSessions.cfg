CONSTANTS
    s1 = s1
    Sess <- MCSess
    MaxOut = 1
SPECIFICATION FairSpec
INVARIANTS
    ClosedIsLast
    CleanEndShowsAll
    LossIsReported
    ShutdownIsFinal
    ConnsClose
PROPERTIES
    EndIsFinal
    EndsAreTold
