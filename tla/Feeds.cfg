SPECIFICATION LiveSpec
CONSTANTS
  S1 = S1
  S2 = S2
  K1 = K1
  K2 = K2
  I1 = I1
  Sessions = {S1, S2}
  Tokens = {K1, K2}
  NoToken = NoToken
  Intents = {I1}
  Locked = TRUE
INVARIANTS
  LiveTypeOK
PROPERTIES
  OneStream
  OvertakenOnce
