SPECIFICATION Spec
CONSTANTS
  a = a
  b = b
  Users <- MCDocs
  Properties = {}
  Urls = {}
  Gets = {g1, g2}
  Puts = {w1, w2}
  Asked <- MCAsked
  None = None
SYMMETRY Symmetry
INVARIANTS
  TypeOK
  OldHasReason
