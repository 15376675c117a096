SPECIFICATION TrustFairSpec
CONSTANTS
  CheckInterval = 2
  SecsLimits = {0, 2, 3}
  SizeLimits = {0, 2}
  Sizes = {1, 2}
  MaxAge = 5
  MaxAmount = 3
  NetworkKey = NetworkKey
  KSK = KSK
  DSK = {d1, d2, d3, d4}
  NoKey = NoKey
INVARIANTS TrustTypeOK AmountIsLimited AgeIsLimited OnlyLossRefuses ChainsAreShort
PROPERTIES FullKeyIsReplaced ReceivedIsAccepted
