SPECIFICATION Spec
CONSTANTS
  ann = ann
  bob = bob
  cyd = cyd
  vault = vault
  none = none
  noLam = noLam
  Acct <- MCAcct
  NoAcct = none
  NoLam = noLam
  Stake = 2
  LamMin = 0
  LamMax = 8
  DMin = 2
  Vault = vault
  MaxMoney = 100
  V2Activation = 3
  SigActivation = 3
  CoinbaseActivation = 3
  BaseReward <- MCBaseReward
  EpochSlots = 1
  Excluded <- MCExcluded
  HashRank <- MCHashRank
  HashLambda <- MCHashLambda
  ElectionLambda <- MCElectionLambda
  Genesis <- MCGenesis
  Blocks <- MCBlocks
  Offers <- MCOffers
  MaxReorg = 2
  ProofWindow = 9
  SnapEvery = 3
  TTL = 10
  Skew = 1
  FutureSlots = 2
  NoTs <- MCNoTs
  StartClock = 8
  MaxClock = 8
  MaxDeaths = 2
  CrashIn = {"idle", "snapshot", "clear", "restore", "replay", "extend"}
  Menu <- SnapMenu
  Skips = {}
  Height = 4
  Broken = {4}
INVARIANTS
  StoredIsChain
  DiskHoldsChain
  ConfirmedOnce
PROPERTIES
  BoundedReorg
