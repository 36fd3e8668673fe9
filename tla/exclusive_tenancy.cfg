SPECIFICATION SerialSpec
CONSTANTS
  ada = ada
  ben = ben
  cleo = cleo
  second = ben
  home = home
  shop = shop
  r1 = r1
  r2 = r2
  r3 = r3
  Users <- MCUsers
  Properties <- MCProperties
  RentIds <- MCRentIds
  OwnerOf <- MCOwnerOf
  PropertyOf <- MCPropertyOf
  OccupantOf <- MCOccupantOf
  Requests = {q1, q2}
  MaxReceipts = 2
  None = None
INVARIANT ExclusiveTenancy
