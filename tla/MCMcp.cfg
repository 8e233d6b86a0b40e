CONSTANTS
    MaxConnects = 2
    MaxSess = 1
    MaxOps = 1
    MaxLines = 3
SPECIFICATION McpSpec
INVARIANTS
    ReaperSpares
    TableSound
    EachAnsweredOnce
PROPERTIES
    NothingSurvives
    CallsEnd
CHECK_DEADLOCK FALSE
