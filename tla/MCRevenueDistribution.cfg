SPECIFICATION Spec
CONSTANTS
  Revenues <- MCRevenues
  FeeRates <- MCFeeRates
  ShareConfigs <- MCShareConfigs
  U16Max = 65535
  U64Max = 10000000
INVARIANTS
  TypeOK
  NothingLeft
  SharesAreFair
  AbortsForCause
