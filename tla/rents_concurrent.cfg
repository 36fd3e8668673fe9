SPECIFICATION Spec
CONSTANTS
  owner = owner
  occupant = occupant
  home = home
  Users <- MCUsers
  Properties <- MCProperties
  RentIds = {r1, r2, r3}
  OwnerOf <- MCOwnerOf
  PropertyOf <- MCPropertyOf
  OccupantOf <- MCOccupantOf
  Requests = {q1, q2}
  MaxReceipts = 1
  None = None
SYMMETRY Symmetry
INVARIANTS
  TypeOK
  PaidWasGranted
  ReceiptBeforePaid
  PaymentOverlapBounded
  OpenRequestsBounded
PROPERTY WritesFollowReads
