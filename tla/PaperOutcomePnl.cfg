SPECIFICATION Spec
CONSTANTS
  A = A
  B = B
  NoPosition = NoPosition
  Symbols = {A, B}
  Signals <- Reviewed
  Capital = 20
  Prices = {1, 4, 5}
  Levels = {3}
  Answers = {TRUE}
  Discovery = FALSE
  MaxRuns = 0
  MaxRestarts = 1
  MaxAborts = 2
  MaxFills = 2
INVARIANTS
  OutcomeIsRealized
CHECK_DEADLOCK FALSE
