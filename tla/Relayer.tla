------------------------------ MODULE Relayer ------------------------------
(***************************************************************************)
(* The bridge (relayer.py): it mints tokens on the EVM for deposits in the *)
(* native vault and releases native coins for burnt tokens. Its two        *)
(* monitors share one event loop and wait only between rounds, so that one *)
(* round runs at a time, while both chains go on, fork back and the        *)
(* process may die between any two calls. Every amount is one unit.        *)
(***************************************************************************)
EXTENDS Integers, Sequences, FiniteSets

CONSTANTS Deposits, Burns,
          Releasable,     \* burns with a recipient and an amount the node accepts
          TxOf(_),        \* the EVM transaction of a burn
          Fee,            \* the fee of a release, paid by the vault
          VaultStart, StartSupply, MaxSupply,
          NativeConfirmations, EvmConfirmations,
          Limit,          \* blocks asked for at once
          Lookback,       \* EVM blocks that a first start looks back
          NativeReorg, EvmReorg,  \* deepest forks of the chains
          MaxHeight, MaxEvmHeight, MaxFaults  \* bounds: blocks; deaths, forks, failed calls

ASSUME RelayerConstants ==
  /\ IsFiniteSet(Deposits) /\ IsFiniteSet(Burns) /\ Deposits \cap Burns = {}
  /\ Releasable \subseteq Burns
  /\ {Fee, VaultStart, StartSupply, MaxSupply} \subseteq Nat /\ StartSupply <= MaxSupply
  /\ {NativeConfirmations, EvmConfirmations, Limit} \subseteq Nat \ {0}
  /\ {Lookback, NativeReorg, EvmReorg, MaxHeight, MaxEvmHeight, MaxFaults} \subseteq Nat

VARIABLES
  native,     \* blocks above genesis: their deposits, and burns that are released
  top,        \* the greatest height of the native chain so far
  pool,       \* releases that the node has accepted and not yet confirmed
  height,     \* of the EVM chain
  evmTop,     \* the greatest so far
  burntAt,    \* EVM block of a burn, 0 if there is none
  supply,     \* totalSupply of the token
  paid,       \* per deposit, how often its tokens were minted
  orphans,    \* per deposit, mints on their way that submitted_mints does not name
  lastBlock,  \* last_processed_block
  minted,     \* table processed_mints
  row,        \* table submitted_mints: the receipt of a deposit's recorded mint
  lastEvm,    \* last_processed_eth_block
  saved,      \* whether the database holds it
  done,       \* table processed_burns
  pc,         \* where the running round is; "idle" between rounds
  tip,        \* confirmed_tip
  batch,      \* blocks that were read and not yet finished
  item,       \* the deposit or burn in progress
  flight,     \* the receipt of a mint that was sent and not yet recorded
  events,     \* burns that were read and not yet finished
  upto,       \* the EVM block that the round reads up to
  faults,
  unrecorded  \* history: per deposit, sends whose record was lost

chains == <<native, top, pool, height, evmTop, burntAt>>
token == <<supply, paid, orphans>>
tables == <<lastBlock, minted, row, lastEvm, saved, done>>
round == <<tip, batch, item, flight, events, upto>>
vars == <<chains, token, tables, pc, round, faults, unrecorded>>

Receipts == {"none", "pending", "ok", "failed"}
Nothing == "nothing"

Fault == faults < MaxFaults /\ faults' = faults + 1

OnChain == UNION {native[i] : i \in 1 .. Len(native)}
Vault == VaultStart + Cardinality(OnChain \cap Deposits)
           - (1 + Fee) * Cardinality(OnChain \cap Burns)

Least(i, j) == IF i < j THEN i ELSE j

------------------------------------------------------------------------
(* The native chain and its node                                         *)

\* A block without a release leaves room for those to come
\* Mutant of MineNative: the block's releases stay in the pool
MineKeeping(S) ==
  /\ S \subseteq (Deposits \cup pool) \ OnChain
  /\ Len(native) + (IF S \cap Burns = {} THEN Cardinality(Burns \ OnChain) ELSE 0) < MaxHeight
  /\ Vault + Cardinality(S \cap Deposits) >= (1 + Fee) * Cardinality(S \cap Burns)
  /\ native' = Append(native, S)
  /\ top' = IF Len(native') > top THEN Len(native') ELSE top
  /\ UNCHANGED <<pool, height, evmTop, burntAt, token, tables, pc, round, faults, unrecorded>>
MineNative(S) ==
  /\ S \subseteq (Deposits \cup pool) \ OnChain
  /\ Len(native) + (IF S \cap Burns = {} THEN Cardinality(Burns \ OnChain) ELSE 0) < MaxHeight
  /\ Vault + Cardinality(S \cap Deposits) >= (1 + Fee) * Cardinality(S \cap Burns)
  /\ native' = Append(native, S)
  /\ top' = IF Len(native') > top THEN Len(native') ELSE top
  /\ pool' = pool \ S
  /\ UNCHANGED <<height, evmTop, burntAt, token, tables, pc, round, faults, unrecorded>>

\* The releases of the abandoned blocks do not return to the pool
ForkNative ==
  /\ Fault
  /\ \E l \in 0 .. Len(native) - 1 : l >= top - NativeReorg /\ native' = SubSeq(native, 1, l)
  /\ UNCHANGED <<top, pool, height, evmTop, burntAt, token, tables, pc, round, unrecorded>>

\* A pending release has become too old
Expire ==
  /\ Fault
  /\ \E b \in pool : pool' = pool \ {b}
  /\ UNCHANGED <<native, top, height, evmTop, burntAt, token, tables, pc, round, unrecorded>>

------------------------------------------------------------------------
(* The token contract and its chain                                      *)

\* burnForNative
EvmBlock(B) ==
  /\ height < MaxEvmHeight
  /\ \A b \in B : burntAt[b] = 0
  /\ Cardinality(B) <= supply
  /\ height' = height + 1
  /\ evmTop' = IF height' > evmTop THEN height' ELSE evmTop
  /\ burntAt' = [b \in Burns |-> IF b \in B THEN height' ELSE burntAt[b]]
  /\ supply' = supply - Cardinality(B)
  /\ UNCHANGED <<native, top, pool, paid, orphans, tables, pc, round, faults, unrecorded>>

ForkEvm ==
  /\ Fault
  /\ \E h \in 0 .. height - 1 :
       LET undone == {b \in Burns : burntAt[b] > h} IN
       /\ h >= evmTop - EvmReorg
       /\ supply + Cardinality(undone) <= MaxSupply
       /\ height' = h
       /\ burntAt' = [b \in Burns |-> IF b \in undone THEN 0 ELSE burntAt[b]]
       /\ supply' = supply + Cardinality(undone)
  /\ UNCHANGED <<native, top, pool, evmTop, paid, orphans, tables, pc, round, unrecorded>>

\* mint is executed for d: it reverts when the supply would exceed its maximum
Executed == IF supply < MaxSupply THEN "ok" ELSE "failed"
Execute(d) ==
  IF supply < MaxSupply
  THEN supply' = supply + 1 /\ paid' = [paid EXCEPT ![d] = @ + 1]
  ELSE UNCHANGED <<supply, paid>>

MintRecorded(d) ==
  /\ row[d] = "pending"
  /\ Execute(d) /\ row' = [row EXCEPT ![d] = Executed]
  /\ UNCHANGED <<chains, orphans, lastBlock, minted, lastEvm, saved, done, pc, round, faults, unrecorded>>

MintInFlight(d) ==
  /\ flight = "pending" /\ item = d
  /\ Execute(d) /\ flight' = Executed
  /\ UNCHANGED <<chains, orphans, tables, pc, tip, batch, item, events, upto, faults, unrecorded>>

MintOrphan(d) ==
  /\ orphans[d] > 0
  /\ Execute(d) /\ orphans' = [orphans EXCEPT ![d] = @ - 1]
  /\ UNCHANGED <<chains, tables, pc, round, faults, unrecorded>>

------------------------------------------------------------------------
(* monitor_native_chain and execute_eth_mint                             *)

\* The round ends; the monitors sleep
Rest == /\ pc' = "idle" /\ tip' = 0 /\ batch' = <<>> /\ item' = Nothing
        /\ flight' = "none" /\ events' = {} /\ upto' = 0

\* Mutant of ReadInfo: one confirmation less
ReadInfoEarly ==
  /\ pc = "idle" /\ Len(native) - NativeConfirmations + 1 > lastBlock
  /\ pc' = "blocks" /\ tip' = Len(native) - NativeConfirmations + 1
  /\ UNCHANGED <<chains, token, tables, batch, item, flight, events, upto, faults, unrecorded>>
ReadInfo ==
  /\ pc = "idle" /\ Len(native) - NativeConfirmations > lastBlock
  /\ pc' = "blocks" /\ tip' = Len(native) - NativeConfirmations
  /\ UNCHANGED <<chains, token, tables, batch, item, flight, events, upto, faults, unrecorded>>

ReadBlocks ==
  /\ pc = "blocks" /\ pc' = "scan"
  /\ batch' = SubSeq(native, lastBlock + 1, Least(Len(native), Least(tip, lastBlock + Limit)))
  /\ UNCHANGED <<chains, token, tables, tip, item, flight, events, upto, faults, unrecorded>>

EndBatch ==
  /\ pc = "scan" /\ batch = <<>>
  /\ Rest /\ UNCHANGED <<chains, token, tables, faults, unrecorded>>

\* All deposits of the block are minted
SaveBlock ==
  /\ pc = "scan" /\ batch # <<>> /\ Head(batch) \cap Deposits = {}
  /\ lastBlock' = lastBlock + 1 /\ batch' = Tail(batch)
  /\ UNCHANGED <<chains, token, minted, row, lastEvm, saved, done, pc, tip, item, flight, events, upto,
                 faults, unrecorded>>

Without(d) == <<Head(batch) \ {d}>> \o Tail(batch)

SkipMinted ==
  /\ pc = "scan" /\ batch # <<>>
  /\ \E d \in Head(batch) \cap Deposits \cap minted : batch' = Without(d)
  /\ UNCHANGED <<chains, token, tables, pc, tip, item, flight, events, upto, faults, unrecorded>>

\* Mutants of NextOfReceipt: a mint without a receipt, one that failed, is sent, is left
NextOfMissing(receipt) == CASE receipt = "ok" -> "mark" [] OTHER -> "send"
NextOfFailed(receipt) == CASE receipt = "ok" -> "mark" [] receipt = "none" -> "send" [] OTHER -> "stop"
NextOfReceipt(receipt) ==
  CASE receipt = "ok" -> "mark" [] receipt = "pending" -> "stop" [] OTHER -> "send"

\* The row of d is deleted: a mint that it named and that is on its way has no record
Forget(d) ==
  /\ row' = [row EXCEPT ![d] = "none"]
  /\ orphans' = [orphans EXCEPT ![d] = IF row[d] = "pending" THEN @ + 1 ELSE @]

TakeDeposit ==
  /\ pc = "scan" /\ batch # <<>>
  /\ \E d \in (Head(batch) \cap Deposits) \ minted :
       LET step == NextOfReceipt(row[d]) IN
       /\ IF step = "stop" THEN Rest
          ELSE pc' = step /\ item' = d /\ UNCHANGED <<tip, batch, flight, events, upto>>
       /\ IF step = "send" THEN Forget(d) ELSE UNCHANGED <<row, orphans>>
  /\ UNCHANGED <<chains, supply, paid, lastBlock, minted, lastEvm, saved, done, faults, unrecorded>>

Send ==
  /\ pc = "send" /\ pc' = "record" /\ flight' = "pending"
  /\ UNCHANGED <<chains, token, tables, tip, batch, item, events, upto, faults, unrecorded>>

\* The transaction was taken and the answer is lost
Unrecorded(d) ==
  /\ unrecorded' = [unrecorded EXCEPT ![d] = @ + 1]
  /\ orphans' = IF flight \in {"none", "pending"} THEN [orphans EXCEPT ![d] = @ + 1] ELSE orphans
SendUnanswered ==
  /\ pc = "send" /\ Fault /\ Unrecorded(item)
  /\ Rest /\ UNCHANGED <<chains, supply, paid, tables>>

Record ==
  /\ pc = "record" /\ pc' = "wait"
  /\ row' = [row EXCEPT ![item] = flight] /\ flight' = "none"
  /\ UNCHANGED <<chains, token, lastBlock, minted, lastEvm, saved, done, tip, batch, item, events, upto,
                 faults, unrecorded>>

\* The receipt has come, or not within the timeout
Wait ==
  /\ pc = "wait"
  /\ IF row[item] = "ok" THEN pc' = "mark" /\ UNCHANGED round ELSE Rest
  /\ UNCHANGED <<chains, token, tables, faults, unrecorded>>

MarkMint ==
  /\ pc = "mark" /\ pc' = "scan"
  /\ minted' = minted \cup {item} /\ batch' = Without(item) /\ item' = Nothing
  /\ UNCHANGED <<chains, token, lastBlock, row, lastEvm, saved, done, tip, flight, events, upto,
                 faults, unrecorded>>

------------------------------------------------------------------------
(* monitor_eth_events and execute_native_release                         *)

\* Mutant of ReadEvents: no confirmations
ReadUnconfirmed ==
  /\ pc = "idle" /\ height > lastEvm
  /\ pc' = "events" /\ upto' = height
  /\ events' = {b \in Burns : burntAt[b] \in lastEvm + 1 .. upto'}
  /\ UNCHANGED <<chains, token, tables, tip, batch, item, flight, faults, unrecorded>>
ReadEvents ==
  /\ pc = "idle" /\ height - EvmConfirmations > lastEvm
  /\ pc' = "events" /\ upto' = height - EvmConfirmations
  /\ events' = {b \in Burns : burntAt[b] \in lastEvm + 1 .. upto'}
  /\ UNCHANGED <<chains, token, tables, tip, batch, item, flight, faults, unrecorded>>

SaveEvents ==
  /\ pc = "events" /\ events = {}
  /\ lastEvm' = upto /\ saved' = TRUE
  /\ Rest /\ UNCHANGED <<chains, token, lastBlock, minted, row, done, faults, unrecorded>>

\* The earliest event that is left
IsNext(b) == b \in events /\ \A c \in events : burntAt[b] <= burntAt[c]

SkipDone ==
  /\ pc = "events"
  /\ \E b \in events : IsNext(b) /\ TxOf(b) \in done /\ events' = events \ {b}
  /\ UNCHANGED <<chains, token, tables, pc, tip, batch, item, flight, upto, faults, unrecorded>>

\* Mutant of TakeBurn: one that cannot be released does not hold up the others
TakeBurnSkipping ==
  /\ pc = "events"
  /\ \E b \in events :
       /\ IsNext(b) /\ TxOf(b) \notin done
       /\ IF b \in Releasable /\ Vault >= 1 + Fee
          THEN pc' = "query" /\ item' = b /\ UNCHANGED events
          ELSE events' = events \ {b} /\ UNCHANGED <<pc, item>>
  /\ UNCHANGED <<chains, token, tables, tip, batch, flight, upto, faults, unrecorded>>
\* The recipient, then the balance of the vault, then what the node knows of the release
TakeBurn ==
  /\ pc = "events"
  /\ \E b \in events :
       /\ IsNext(b) /\ TxOf(b) \notin done
       /\ IF b \in Releasable /\ Vault >= 1 + Fee
          THEN pc' = "query" /\ item' = b /\ UNCHANGED <<tip, batch, flight, events, upto>>
          ELSE Rest
  /\ UNCHANGED <<chains, token, tables, faults, unrecorded>>

\* The balance cannot be read: the release goes on without the check
BalanceUnread ==
  /\ pc = "events" /\ Fault
  /\ \E b \in events : IsNext(b) /\ TxOf(b) \notin done /\ b \in Releasable /\ item' = b
  /\ pc' = "query"
  /\ UNCHANGED <<chains, token, tables, tip, batch, flight, events, upto, unrecorded>>

\* Mutant of Query: a confirmed release counts as pending
QueryBlind ==
  /\ pc = "query"
  /\ IF item \in OnChain \cup pool THEN Rest ELSE pc' = "post" /\ UNCHANGED round
  /\ UNCHANGED <<chains, token, tables, faults, unrecorded>>
Query ==
  /\ pc = "query"
  /\ IF item \in OnChain THEN pc' = "markBurn" /\ UNCHANGED round
     ELSE IF item \in pool THEN Rest
     ELSE pc' = "post" /\ UNCHANGED round
  /\ UNCHANGED <<chains, token, tables, faults, unrecorded>>

\* Accepted or not, the burn is looked at again in the next round
Post ==
  /\ pc = "post"
  /\ pool' = IF item \notin OnChain /\ Vault >= 1 + Fee THEN pool \cup {item} ELSE pool
  /\ Rest
  /\ UNCHANGED <<native, top, height, evmTop, burntAt, token, tables, faults, unrecorded>>

MarkBurn ==
  /\ pc = "markBurn" /\ pc' = "events"
  /\ done' = done \cup {TxOf(item)} /\ events' = events \ {item} /\ item' = Nothing
  /\ UNCHANGED <<chains, token, lastBlock, minted, row, lastEvm, saved, tip, batch, flight, upto,
                 faults, unrecorded>>

------------------------------------------------------------------------

\* A call of the node or of the provider fails: the round ends
CallFails ==
  /\ pc \in {"blocks", "send", "query", "post"} /\ Fault
  /\ Rest /\ UNCHANGED <<chains, token, tables, unrecorded>>

\* The process dies and is started again
Restart ==
  /\ Fault
  /\ IF pc = "record" THEN Unrecorded(item) ELSE UNCHANGED <<orphans, unrecorded>>
  /\ lastEvm' = IF saved THEN lastEvm ELSE IF height > Lookback THEN height - Lookback ELSE 0
  /\ Rest
  /\ UNCHANGED <<chains, supply, paid, lastBlock, minted, row, saved, done>>

Init ==
  /\ native = <<>> /\ top = 0 /\ pool = {}
  /\ height = 0 /\ evmTop = 0 /\ burntAt = [b \in Burns |-> 0]
  /\ supply = StartSupply
  /\ paid = [d \in Deposits |-> 0] /\ orphans = [d \in Deposits |-> 0]
  /\ lastBlock = 0 /\ minted = {} /\ row = [d \in Deposits |-> "none"]
  /\ lastEvm = 0 /\ saved = FALSE /\ done = {}
  /\ pc = "idle" /\ tip = 0 /\ batch = <<>> /\ item = Nothing
  /\ flight = "none" /\ events = {} /\ upto = 0
  /\ faults = 0 /\ unrecorded = [d \in Deposits |-> 0]

MintRound == \/ ReadBlocks \/ EndBatch \/ SaveBlock \/ SkipMinted \/ TakeDeposit
             \/ Send \/ Record \/ Wait \/ MarkMint
ReleaseRound == SaveEvents \/ SkipDone \/ TakeBurn \/ Query \/ Post \/ MarkBurn
MintExecuted == \E d \in Deposits : MintRecorded(d) \/ MintInFlight(d) \/ MintOrphan(d)
MineRelease == \E S \in SUBSET (Deposits \cup pool) : S \cap Burns # {} /\ MineNative(S)

Next ==
  \/ \E S \in SUBSET (Deposits \cup pool) : MineNative(S)
  \/ ForkNative \/ Expire
  \/ \E B \in SUBSET Burns : EvmBlock(B)
  \/ ForkEvm \/ MintExecuted
  \/ ReadInfo \/ ReadEvents \/ MintRound \/ ReleaseRound
  \/ SendUnanswered \/ BalanceUnread \/ CallFails \/ Restart

Spec == Init /\ [][Next]_vars

\* A round goes on, each monitor wakes up again and again however the other's rounds
\* end, and the chains execute what they have accepted.
Fairness ==
  /\ WF_vars(MintRound \/ ReleaseRound)
  /\ SF_vars(ReadInfo) /\ SF_vars(ReadEvents)
  /\ WF_vars(MintExecuted) /\ WF_vars(MineRelease)

FairSpec == Spec /\ Fairness
=============================================================================
