SPECIFICATION Spec
CONSTANTS
  short = short
  long = long
  Rents <- MCRents
  Duration <- MCDuration
  Hour = 2
  Day = 8
  Period = 3
  PromiseOk = TRUE
INVARIANTS
  TypeOK
  NeverExpiresEarly
  RemindedBeforeEnd
PROPERTY TenancyEnds
