SPECIFICATION FairSpec
CONSTANTS
  dep1 = dep1
  dep2 = dep2
  burn1 = burn1
  burn2 = burn2
  Deposits = {dep1, dep2}
  Burns = {burn1, burn2}
  Releasable = {burn1, burn2}
  TxOf <- MCTxOf
  Fee = 1
  VaultStart = 3
  StartSupply = 2
  MaxSupply = 2
  NativeConfirmations = 1
  EvmConfirmations = 1
  Limit = 2
  Lookback = 9
  NativeReorg = 1
  EvmReorg = 1
  MaxHeight = 3
  MaxEvmHeight = 2
  MaxFaults = 1
INVARIANTS
  TypeOK
  MintsAreCounted
  Backed
  PaidForBurn
  NothingSkipped
PROPERTIES
  DepositsAreMinted
  BurnsAreReleased
CHECK_DEADLOCK FALSE
