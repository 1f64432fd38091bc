SPECIFICATION Spec
CONSTANTS
  Weightings <- MCWeightings
  Wanted <- MCWanted
  I16Max = 11
INVARIANTS
  OddsAreTickets
  StacksPartition
  PanicsOnlyPastWidth
PROPERTY
  KeepsPromise
CHECK_DEADLOCK FALSE
