SPECIFICATION Spec
CONSTANTS
  ann = ann
  bob = bob
  cat = cat
  Bidders <- MCBidders
  KeysPerPage = 2
  PageSizes <- MCPageSizes
  MaxPrefunded = 1
PROPERTY
  RaisesDoNotRace
