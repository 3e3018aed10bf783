SPECIFICATION Spec
CONSTANTS
  Cmds = {c1, c2}
  Pids = {p1, p2, p3}
  Addrs = {a1, a2}
  NoPid = NoPid
  Serial = TRUE
INVARIANTS TypeOK Named
PROPERTIES SignalsServersOnly StopEnds ReportsOwn
