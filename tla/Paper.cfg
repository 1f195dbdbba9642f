SPECIFICATION Spec
CONSTANTS
  A = A
  B = B
  NoPosition = NoPosition
  Symbols = {A, B}
  Signals <- Candidates
  Capital = 20
  Prices = {0, 5}
  Levels = {5}
  Answers = {FALSE}
  Discovery = TRUE
  MaxRuns = 1
  MaxRestarts = 1
  MaxAborts = 1
  MaxFills = 2
INVARIANTS
  TypeOK
  CashConserved
  SharesCovered
  ProfitMatchesTrades
  OneTradePerOrder
  ConfirmedFillsDurable
  BreakEvenProtects
PROPERTIES
  LedgerPromise
  StopRatchet
  SettledIsFinal
CHECK_DEADLOCK FALSE
