SPECIFICATION Spec
CONSTANTS
  creator = creator
  ann = ann
  bob = bob
  cat = cat
  treasury = treasury
  Creator = creator
  Eligible <- MCUsers
  FeeTreasury = treasury
  FeeOwners <- MCFeeOwners
  Users <- MCUsers
  Endowment <- MCEndowment
  CreatorNfts = 3
  Counts <- MCCounts
  Supplies <- MCSupplies
  Prices <- MCPrices
  RewardCounts <- MCRewardCounts
  Durations <- MCDurations
  Gifts <- MCGifts
  MaxDeposits = 1
  SpareNfts = 1
  WinnerLists <- MCWinnerLists
  Configs <- MCConfigs
  InitialConfigs <- Production
  SplitShare = 5000
  MaxTime = 3
  WinnerCapacity = 3
  MaskBits = 64
  I16Max = 32767
  U16Max = 65535
  U64Max = 1000000
INVARIANTS
  FeeReachesTreasury
