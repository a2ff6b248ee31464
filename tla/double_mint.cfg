SPECIFICATION Spec
CONSTANTS
  dep1 = dep1
  dep2 = dep2
  burn1 = burn1
  burn2 = burn2
  Deposits = {dep1}
  Burns = {burn1}
  Releasable = {burn1}
  TxOf <- MCTxOf
  Fee = 1
  VaultStart = 3
  StartSupply = 2
  MaxSupply = 4
  NativeConfirmations = 1
  EvmConfirmations = 1
  Limit = 2
  Lookback = 9
  NativeReorg = 0
  EvmReorg = 0
  MaxHeight = 3
  MaxEvmHeight = 2
  MaxFaults = 1
INVARIANTS
  MintedOnce
CHECK_DEADLOCK FALSE
