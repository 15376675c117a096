SPECIFICATION Spec
CONSTANTS
  w = w
  x = x
  y = y
  z = z
  Node = {w, x, y, z}
  Producer = z
  App = App
  Radio = Radio
  Link <- MCLink
INVARIANTS TypeOK OneHopOnly OnlyProducerServesNeighbors
PROPERTY OverheardSparesRequest
CHECK_DEADLOCK FALSE
