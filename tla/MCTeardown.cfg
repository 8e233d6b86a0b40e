CONSTANTS
  Users = {u1, u2}
  Sessions = {s1}
  Shutdown = Shutdown
  MaxOps = 2
  Ports = {p1}
  MaxForwards = 2
  MaxConns = 1
  MaxGenerations = 2
  Dirs = {d1}
  Home = Home
  MaxHandles = 2
  MaxClients = 2
  None = None
SPECIFICATION FairSpec
INVARIANTS
    EndsClean
PROPERTIES
    NeverStale
    ShutdownIsFinal
    TeardownEnds
CHECK_DEADLOCK FALSE
