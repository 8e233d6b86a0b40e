CONSTANTS
    p1 = p1
    p2 = p2
    t1 = t1
    t2 = t2
    c1 = c1
    c2 = c2
    Worker = worker
    Free = free
    NoTimer = noTimer
    NoChunk = noChunk
    Pumps <- MCPumps
    Timers <- MCTimers
    Closers <- MCClosers
    Streams <- MCStreams
    MaxRead = 2
    FlushBytes = 2
    MaxFlushBytes = 3
    MaxBatches = 2
    AdaptiveHigh = 1
SPECIFICATION FairSpec
INVARIANTS
    BatchesFit
PROPERTIES
    OutputPromise
    Progress
