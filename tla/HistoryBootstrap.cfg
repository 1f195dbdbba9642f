SPECIFICATION FairSpec
CONSTANTS
  S1 = S1
  S2 = S2
  Symbols = {S1, S2}
  MaxDay = 2
  Required = 2
  Freshness = 0
  Retries = 1
  Providers = 2
  Workers = 1
  MaxRuns = 2
  MaxLoads = 1
  MaxFaults = 1
INVARIANTS
  TypeOK
  ReadyIsDurable
PROPERTIES
  HistoryKept
  RunEnds
CHECK_DEADLOCK FALSE
