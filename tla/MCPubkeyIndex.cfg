SPECIFICATION RetrySpec
CONSTANTS
  ann = ann
  bob = bob
  cat = cat
  Bidders <- MCBidders
  KeysPerPage = 2
  PageSizes <- MCPageSizes
  MaxPrefunded = 1
INVARIANTS
  TypeOK
  PagesHoldAll
  AlwaysIterable
PROPERTY
  FirstBidsLand
