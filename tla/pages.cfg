SPECIFICATION Spec
CONSTANTS
  Docs = {d1, d2, d3}
  limit = 2
  MaxTime = 3
  None = None
SYMMETRY Symmetry
INVARIANTS
  TypeOK
  NothingMissed
  NothingTwice
  PastIsExact
