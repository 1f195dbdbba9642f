SPECIFICATION FairSpec
CONSTANTS
  T1 = T1
  T2 = T2
  Tabs = {T1, T2}
  Controls = {"market", "product"}
  MaxRuns = 2
  MaxFaults = 2
  MaxCrashes = 2
INVARIANTS
  TypeOK
  SnapshotFaithful
PROPERTIES
  StopSticks
  StartAcknowledged
  RequestTaken
