CONSTANTS
    a1 = a1
    a2 = a2
    sa = sa
    u1 = u1
    u2 = u2
    Free = free
    Tasks <- MCTasks
    Sessions <- MCSessions
    Callers <- MCCallers
    SessionOf <- MCSessionOf
    MaxGlobal = 1
    MaxSession = 2
SPECIFICATION FairSpec
PROPERTIES
    TasksEnd
    CancelledNeverCommits
