SPECIFICATION Spec
CONSTANTS
  A = A
  B = B
  C = C
  D = D
  Steel = Steel
  NoSector = NoSector
  Symbols = {A, B, C, D}
  SectorOf <- MCSectorOf
  Unknown = NoSector
  Capital = 1000
  RiskAmount = 10
  MaxPerTradePct = 25
  MaxSectorPct = 35
  MaxPositions = 2
  MinAvgVolume = 100000
  MinAvgTurnover = 1000000
  MinPrice = 20
  MaxPrice = 10000
  MinVolume = 100000
  FocusLimit = 2
  MinOpportunity = 8
  Markets <- MCMarkets
  Ideas <- MCIdeas
  Scores = {60, 80}
  Watchlist = {}
  Restored <- MCRestored
  MaxScans = 2
  MaxFaults = 1
INVARIANTS
  MemoryAgrees
  FocusKeepsPromises
PROPERTIES
  LimitsKept
  ReducedBuysLess
CHECK_DEADLOCK FALSE
