SPECIFICATION Spec
CONSTANTS
  Procs = {p1, p2, p3}
  Cards = {0, 1}
  Commands = {"use", "ask", "stop"}
  Free = Free
  NoMarker = NoMarker
  Torn = Torn
INVARIANTS Exclusive NamesHolder RunsUnlessReleased
SYMMETRY Symmetry
CHECK_DEADLOCK FALSE
