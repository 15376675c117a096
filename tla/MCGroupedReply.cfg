SPECIFICATION FairSpec
CONSTANTS
  a = a
  b = b
  c = c
  p = p
  q = q
  Node = {a, b, c}
  Prefix = {p, q}
  Face = {a, b, c}
  LocalFace = LocalFace
  NoRoute = NoRoute
  InfCost = 4
  MaxSeq = 1
  MaxVersion = 4
  Lossy = FALSE
  Link <- MCLine
  FaceTo <- MCFaceTo
  NamePrefixes <- MCAtAC
  LatePrefixes <- MCNowhere
PROPERTY Converges
CHECK_DEADLOCK FALSE
