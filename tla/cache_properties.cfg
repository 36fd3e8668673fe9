SPECIFICATION Spec
CONSTANTS
  a = a
  b = b
  Users = {}
  Properties = {a}
  Urls = {plain, query}
  Gets = {g1, g2}
  Puts = {w1, w2}
  Asked <- MCAsked
  None = None
INVARIANT OldHasReason
PROPERTY SettlesCurrent
