SPECIFICATION CallersSpec
CONSTANTS
  Requests <- MCRequests
  Configs <- MCConfigs
  Files <- MCFiles
  OneIn = 3
  Weights = {0, 1}
  Costs = {1}
  Unit = 6
  LETTERS = 2
  MAX_OPTIONS = 3
  MIN_LEVELS = 2
  MAX_LEVELS = 3
  Ids = {i1}
  NoId = NoId
  MaxLines = 2
INVARIANTS TypeOK OptionsKeepTheirReadings Balanced AnsweredWhole OneReplyEach EveryCaseCounted CoverageIsThreshold
CHECK_DEADLOCK FALSE
