SPECIFICATION FairSpec
CONSTANTS
  a = a
  b = b
  c = c
  p = p
  q = q
  Node = {a, b, c}
  Prefix = {p}
  Face = {a, b, c}
  LocalFace = LocalFace
  NoRoute = NoRoute
  InfCost = 4
  MaxSeq = 1
  MaxVersion = 4
  Lossy = FALSE
  Link <- MCLine
  FaceTo <- MCFaceTo
  NamePrefixes <- MCAtA
  LatePrefixes <- MCNowhere
INVARIANT QuietMeansSynced
PROPERTY Converges
CHECK_DEADLOCK FALSE
