SPECIFICATION Spec
CONSTANTS
  short = short
  long = long
  Rents <- MCRents
  Duration <- MCDuration
  Hour = 2
  Day = 8
  Period = 3
  PromiseOk = FALSE
PROPERTY TenancyEnds
