SPECIFICATION FairSpec
CONSTANTS
  ann = ann
  bob = bob
  cyd = cyd
  Nodes = {ann, bob}
  StartChains <- MCGenesis
  Elected <- MCElected
  HashBelow <- MCHashBelow
  SegmentLimit = 3
  AncestorWindow = 2
  RollbackStep = 1
  MaxSafety = 2
  MaxReorg = 2
  PeersAsked = 3
  IdleRounds = FALSE
  IdleRequests = FALSE
  MaxSlot = 3
  MaxFaults = 1
INVARIANTS
  TypeOK
  ForksNeedFaults
PROPERTY
  HeightsMeet
