SPECIFICATION PolygraphSpec
CONSTANTS
  Threads = {t1}
  NoRequest = NoRequest
  None = None
  Token <- MCToken
  Requests <- PolygraphRequests
  Batteries <- MCBatteries
  Forks = 3
  NCtx = 6
  NBatch = 2
  BranchLimit = 5
  RequestLimit = 9
  Recurrent = TRUE
  Commands = {"serve", "polygraph"}
INVARIANTS ReadingsAgree
PROPERTIES LockReleased Implements
CHECK_DEADLOCK FALSE
