SPECIFICATION Spec
CONSTANTS
  S1 = S1
  S2 = S2
  K1 = K1
  K2 = K2
  I1 = I1
  I2 = I2
  I3 = I3
  NoInode = NoInode
  NotLoaded = NotLoaded
  Empty = Empty
  Torn = Torn
  NoTrade = NoTrade
  Sessions = {S1, S2}
  Trades = {K1}
  Inodes = {I1, I2, I3}
  MaxCrashes = 2
  MaxFaults = 2
SYMMETRY FileSymmetry
INVARIANTS
  TypeOK
  FileReadable
  ReportedKept
  ReportedOnce
PROPERTIES
  SaveInstalls
  FileNeverGoesBack
