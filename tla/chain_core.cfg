SPECIFICATION Spec
CONSTANTS
  ann = ann
  bob = bob
  cyd = cyd
  vault = vault
  none = none
  noLam = noLam
  Acct <- MCAcct
  NoAcct = none
  NoLam = noLam
  Stake = 2
  LamMin = 0
  LamMax = 8
  DMin = 2
  Vault = vault
  MaxMoney = 14
  V2Activation = 3
  SigActivation = 3
  CoinbaseActivation = 3
  BaseReward <- MCBaseReward
  EpochSlots = 1
  Excluded <- MCExcluded
  HashRank <- MCHashRank
  HashLambda <- MCHashLambda
  ElectionLambda <- MCElectionLambda
  Genesis <- MCGenesis
  Blocks <- MCBlocks
  Offers <- MCOffers
  MaxReorg = 2
  ProofWindow = 9
  SnapEvery = 9
  TTL = 10
  Skew = 1
  FutureSlots = 2
  NoTs <- MCNoTs
  StartClock = 2
  MaxClock = 6
  MaxDeaths = 1
  CrashIn = {"idle", "extend"}
  Menu <- CoreMenu
  Skips = {3, 4}
  Height = 5
  Broken = {4, 5}
INVARIANTS
  TypeOK
  ConfirmedOnce
  SameLeader
  StakeBacked
  MoneyAccounted
  ExponentsApart
  RewardIsSharedOut
  ValidatedBranchApplies
  AnyNodeAccepts
PROPERTIES
  ImplementsAtomicLedger
