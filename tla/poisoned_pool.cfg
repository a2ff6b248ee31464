SPECIFICATION Spec
CONSTANTS
  ann = ann
  bob = bob
  Acct <- MCAcct
  Funds <- MCFunds
  Txs <- MCTxs
  NoTx = NoTx
  Batches <- MCBatches
  Threads = {t1, t2}
  SenderLimit = 1
  BlockLimit = 2
  PoolTTL = 2
  TTL = 1
  Skew = 0
  OwnSlots = {3, 5}
  MaxReorg = 1
  SubmitUntil = 2
  MaxClock = 5
  MaxFaults = 0
INVARIANTS
  OwnBlockAccepted
CHECK_DEADLOCK FALSE
