SPECIFICATION Spec
CONSTANTS
  Procs = {p1, p2}
  Cards = {0, 1}
  Commands = {"use", "release"}
  Free = Free
  NoMarker = NoMarker
  Torn = Torn
INVARIANTS RunsAsAsked
CHECK_DEADLOCK FALSE
