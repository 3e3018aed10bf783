SPECIFICATION SafeSpec
CONSTANTS
  Clients = {c1}
  KillDate = 3
  Timeout = 1
  PollGap = 2
  DecisionLog = TRUE
  Torn = Torn
PROPERTIES QuietForKillDate
CHECK_DEADLOCK FALSE
