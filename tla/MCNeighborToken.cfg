SPECIFICATION FairSpec
CONSTANTS
  Router = {1, 2, 3}
  DeviceFace = {1, 2}
  EnableUnicastFaces = TRUE
  Silent = {3}
  MaxFace = 5
INVARIANTS TokenTypeOK PivotInMap FacesAreNotShared OneNextHopPerNeighbor
PROPERTY EveryNeighborHasTurns
