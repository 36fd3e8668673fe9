SPECIFICATION Spec
CONSTANTS
  Users = {u1, u2}
  Addresses = {a1, a2}
  Codes = {c1, c2}
  Slots = {s1, s2}
  None = None
SYMMETRY Symmetry
INVARIANTS
  TypeOK
  UnprovenHasLink
  SpentLinkConfirms
  LinkUsesBounded
  AdminFirst
