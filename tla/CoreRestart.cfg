SPECIFICATION Spec
CONSTANTS
  T1 = T1
  T2 = T2
  Tabs = {T1, T2}
  Controls = {"market"}
  MaxRuns = 0
  MaxFaults = 0
  MaxCrashes = 1
INVARIANTS
  RestartRearms
