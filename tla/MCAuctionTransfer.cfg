SPECIFICATION Spec
CONSTANTS
  creator = creator
  ann = ann
  bob = bob
  nobody = nobody
  lotEscrow = lotEscrow
  Users <- MCUsers
  Creator = creator
  Eligible = {creator, ann, bob}
  Nobody = nobody
  Escrow = lotEscrow
  Endowment <- MCEndowment
  Amounts <- MCAmounts
  StartBids <- MCStartBids
  Durations <- MCDurations
  Gifts <- MCGifts
  MaxDeposits = 1
  SpareLots = 1
  Configs <- MCConfigs
  InitialConfig <- MCInitialConfig
  SplitShare = 5000
  MINUTE = 1
  MaxTime = 7
  I64Max = 500000
  U64Max = 1000001
PROPERTIES
  NetTransferPositive
