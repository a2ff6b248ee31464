------------------------- MODULE RelayerProperties -------------------------
(***************************************************************************)
(* What the bridge of Relayer must provide.                                *)
(***************************************************************************)
EXTENDS Relayer

\* Every variable has its type; what is in progress belongs to the step.
TypeOK ==
  /\ native \in Seq(SUBSET (Deposits \cup Burns)) /\ Len(native) <= top
  /\ pool \subseteq Burns \ OnChain
  /\ height \in 0 .. evmTop /\ burntAt \in [Burns -> 0 .. height]
  /\ supply \in 0 .. MaxSupply
  /\ paid \in [Deposits -> Nat] /\ orphans \in [Deposits -> Nat] /\ unrecorded \in [Deposits -> Nat]
  /\ lastBlock \in Nat /\ minted \subseteq Deposits /\ row \in [Deposits -> Receipts]
  /\ lastEvm \in Nat /\ saved \in BOOLEAN /\ done \subseteq {TxOf(b) : b \in Burns}
  /\ tip \in Nat /\ batch \in Seq(SUBSET (Deposits \cup Burns))
  /\ flight \in Receipts /\ (flight # "none" => pc = "record")
  /\ pc \in {"send", "record", "wait", "mark"} => item \in Head(batch) \cap Deposits
  /\ pc \in {"query", "post", "markBurn"} => item \in events
  /\ events \subseteq Burns /\ upto \in Nat
  /\ pc = "idle" => item = Nothing /\ batch = <<>> /\ events = {}

Underway(d) ==
  orphans[d] + (IF row[d] = "pending" THEN 1 ELSE 0)
             + (IF flight = "pending" /\ item = d THEN 1 ELSE 0)

\* A deposit's tokens are minted, or on their way, once and once more for every send
\* whose record was lost (relayer.py:392-400): a timeout, a missing receipt, a failed
\* mint or a death at any other place never mints it again.
MintsAreCounted == \A d \in Deposits : paid[d] + Underway(d) <= 1 + unrecorded[d]

\* Tokens exist only for deposits that the native chain holds, as long as no fork is
\* deeper than the confirmations that monitor_native_chain waits for (relayer.py:284).
Backed == \A d \in Deposits : paid[d] + Underway(d) > 0 => d \in OnChain

\* Coins are released only for tokens that are burnt, as long as no fork of the EVM is
\* deeper than the confirmations of monitor_eth_events (relayer.py:428).
PaidForBurn == \A b \in (OnChain \cap Burns) \cup pool : burntAt[b] > 0

\* Neither monitor goes past a deposit or a burn that it has not finished, wherever a
\* mint fails, a release is refused or the process dies (relayer.py:339-344, 457-462).
NothingSkipped ==
  /\ \A i \in 1 .. Len(native) : i <= lastBlock => native[i] \cap Deposits \subseteq minted
  /\ \A b \in Burns : burntAt[b] \in 1 .. lastEvm => TxOf(b) \in done

Confirmed(d) == \E i \in 1 .. Len(native) - NativeConfirmations : d \in native[i]
Final(b) == burntAt[b] \in 1 .. height - EvmConfirmations

\* A deposit that stays confirmed is minted in the end, if the contract has room for it
\* from some time on: a mint that failed for want of room is sent anew (relayer.py:378).
DepositsAreMinted ==
  \A d \in Deposits : <>[](Confirmed(d) /\ supply < MaxSupply) => <>(d \in minted)

\* The release of a burn that stays final is on the chain in the end and noted as finished,
\* if from some time on the vault has coins for one more (relayer.py:537).
BurnsAreReleased ==
  \A b \in Releasable : <>[](Final(b) /\ Vault >= 1 + Fee) => <>(TxOf(b) \in done)

------------------------------------------------------------------------

\* "DEDUPLICACIÓN DE EVENTOS" (relayer.py:45): a deposit is minted once.
MintedOnce == \A d \in Deposits : paid[d] <= 1

\* "libera MPX desde la Bóveda" (relayer.py:25): a burn that is noted as finished has
\* its release on the chain.
ReleaseStays == \A b \in Burns : TxOf(b) \in done => b \in OnChain \cup pool
=============================================================================
