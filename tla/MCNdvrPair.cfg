SPECIFICATION Spec
CONSTANTS
  a = a
  b = b
  c = c
  p = p
  q = q
  Node = {a, b}
  Prefix = {p}
  Face = {a, b, c}
  LocalFace = LocalFace
  NoRoute = NoRoute
  InfCost = 4
  MaxSeq = 3
  MaxVersion = 3
  Lossy = TRUE
  Link <- MCPair
  FaceTo <- MCFaceTo
  NamePrefixes <- MCAtA
  LatePrefixes <- MCAtB
INVARIANTS TypeOK DigestLagsTable VersionsWereReached
PROPERTIES Implements ImplementsForwarding
CHECK_DEADLOCK FALSE
