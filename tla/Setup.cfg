SPECIFICATION MCSpec
CONSTANTS
  Cards = {0, 1}
  Starts <- MCStarts
  Doctors = {d1, d2, d3}
  FirstDoctor = d1
  Links <- MCLinks
  Requests = {r1, r2}
  NoRequest = NoRequest
  MaxQueries = 2
INVARIANTS ReadyAnswers MissingIsNeeded RequestHandedOver LinkPlaced
CHECK_DEADLOCK FALSE
