SPECIFICATION SafeSpec
CONSTANTS
  Threads = {t1, t2}
  NoRequest = NoRequest
  None = None
  Token <- MCToken
  Requests <- ServerRequests
  Forks = 2
  NCtx = 4
  NBatch = 2
  BranchLimit = 6
  RequestLimit = 9
  Recurrent = FALSE
  Commands = {"serve"}
INVARIANTS TypeOK SessionKept RoomForAll CostHonest
PROPERTIES RefusalCostsNothing Implements
