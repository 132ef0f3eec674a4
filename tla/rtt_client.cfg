SPECIFICATION FairSpec
CONSTANTS
  W = 4
  CHUNKS = 2
  NR_REP = 2
  Clients <- AllClients
  Servers <- AllServers
  MaxLost = 2
  MaxExtra = 2
INVARIANTS
  TypeOK
  OwnAnswer
  LossIsFatal
  PassesKept
PROPERTY
  FinishesUnlessLost
