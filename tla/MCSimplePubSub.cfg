SPECIFICATION FairSpec
CONSTANTS
  a = a
  b = b
  c = c
  Node = {a, b, c}
  Rounds <- MCRounds
INVARIANT TypeOK
PROPERTIES NeverAskedAgain EveryNameArrives
