SPECIFICATION SafeSpec
CONSTANTS
  Threads = {t1}
  NoRequest = NoRequest
  None = None
  Token <- MCToken
  Requests <- BushyRequests
  Forks = 4
  NCtx = 4
  NBatch = 4
  BranchLimit = 6
  RequestLimit = 9
  Recurrent = FALSE
  Commands = {"serve"}
INVARIANTS RoomForAll
