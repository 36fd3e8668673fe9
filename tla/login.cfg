SPECIFICATION Spec
CONSTANTS
  ann = ann
  Addresses = {ann}
  Urls = {plain, query}
  AddressOf <- MCAddressOf
  Slots = {s1, s2}
  Mails = {m1, m2}
  Limit = 1
  FiveMinutes = 2
  None = None
SYMMETRY Symmetry
INVARIANTS
  TypeOK
  AcceptedBounded
  LimitedHasPassword
  PasswordIsMailed
  TwiceOnlyAfterCrash
PROPERTIES
  RefusalsEnd
