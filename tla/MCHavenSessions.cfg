SPECIFICATION Spec
CONSTANTS
  None = None
  Pubs = {p1, p2}
  Escorts = {e1}
  Viewers = {}
  EgressCap = 1
SYMMETRY Symmetry
INVARIANTS SessionConsistent NoLiveMixing
PROPERTIES NoTakeover
CHECK_DEADLOCK FALSE
