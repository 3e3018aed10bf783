SPECIFICATION Spec
CONSTANTS
  Budget = 2
  yes = yes
  no = no
  Cases <- MCCases
  Labels = {yes, no}
  NoGold = NoGold
  Failed = Failed
  None = None
INVARIANTS NothingLeft AloneInMemory ReportsThisRun FinishedIsWhole
PROPERTIES Ends
CHECK_DEADLOCK FALSE
