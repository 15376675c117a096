SPECIFICATION Spec
CONSTANTS
  a = a
  b = b
  c = c
  wifi = wifi
  Node = {a, b, c}
  Prefix = {p}
  Face = {a, b, c, wifi}
  LocalFace = LocalFace
  NoRoute = NoRoute
  InfCost = 4
  MaxSeq = 3
  Link <- MCTriangle
  FaceTo <- MCSharedFace
  NamePrefixes <- MCNamePrefixes
  LatePrefixes <- MCNoLate
PROPERTY OthersKeepTheirRoutes
CHECK_DEADLOCK FALSE
