SPECIFICATION Spec
CONSTANTS
  History   <- MCHistory
  Candles   <- MCCandles
  Days      <- MCDays
  MaxBars = 12
  MaxRevisions = 1
  SwingReach = 1
  AverageWindow = 4
  ZoneFirst = 4
  BlockBars = 6
  BlockFirst = 1
  GapBars = 6
  BreakoutLookback = 3
  FailWindow = 2
  VcpBars = 8
  VcpWindow = 3
  VcpStep = 2
  SqueezeBars = 6
  RegimeBars = 6
  SlopeBack = 3
  YearBars = 12
  SqueezeTradeBars = 6
  StrengthLookback = 4
  ProfileBars = 6
  ProfileBack = 8
  ProfileBins = 4
  FlowLookback = 3
  MinAvgVolume = 5
  DivergenceBars = 4
  MinPrice = 2000
  MaxPrice = 50000
  MinVolume = 100
  FocusLimit = 0
  MinOpportunity = 8
INVARIANTS
  LevelsSound
  BadNewsNeverHelps
  StructureOfCandle
PROPERTIES
  ZonesUsedUp
  RescanSameLevels
