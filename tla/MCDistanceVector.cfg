SPECIFICATION Spec
CONSTANTS
  a = a
  b = b
  c = c
  wifi = wifi
  Node = {a, b, c}
  Prefix = {p}
  Face = {a, b, c, wifi}
  LocalFace = LocalFace
  NoRoute = NoRoute
  InfCost = 4
  MaxSeq = 3
  Link <- MCLine
  FaceTo <- MCOwnFace
  NamePrefixes <- MCNamePrefixes
  LatePrefixes <- MCLateAtC
INVARIANTS TypeOK NoForwardingLoop RoutesLeadOn FibMatchesTable SeqIssuedByOrigin
PROPERTIES RoutesOnlyGetFresher OthersKeepTheirRoutes
CHECK_DEADLOCK FALSE
