SPECIFICATION RetrySpec
CONSTANTS
  admin = admin
  alice = alice
  bob = bob
  carol = carol
  dave = dave
  chest = chest
  vault = vault
  usd = usd
  apes = apes
  cats = cats
  punks = punks
  Creators = {alice, bob}
  Curators = {carol, dave}
  Signers = {admin}
  Deployments <- MCDeployments
  Nobody = Nobody
  None = None
  Treasuries = {chest, vault}
  Currencies = {usd}
  Collections = {apes, cats, punks}
  Intentions <- MCIntentions
  DefaultConfig <- MCDefaultConfig
  Updates <- MCUpdates
  MockTimestamps <- MCMockTimestamps
  OverflowKinds = {"raffle"}
  ExtendMinutes = 1
  MaxTime = 3
INVARIANTS
  TypeOK
  AllowlistsIterable
  WithinLimitsFit
PROPERTIES
  EndedStaysEnded
  CreatorsList
  RevenueIsCollected
