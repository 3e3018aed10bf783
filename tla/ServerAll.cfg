SPECIFICATION Spec
CONSTANTS
  Clients = {c1, c2}
  KillDate = 2
  Timeout = 1
  PollGap = 2
  DecisionLog = TRUE
  Torn = Torn
INVARIANTS TypeOK BusyCounts LogKept
PROPERTIES StopsOnNobody AllAnswered StopsWhenUnasked
CHECK_DEADLOCK FALSE
