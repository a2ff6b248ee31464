---------------------------- MODULE BridgeProofs ----------------------------
(***************************************************************************)
(* A deposit's tokens are minted once, and once more for every send whose  *)
(* record was lost; nothing is paid for nothing and nothing is passed over:*)
(* no token without a deposit, no coin without a burn, no deposit or burn  *)
(* left behind, for any numbers of them, any limits, deaths, failed calls  *)
(* and forks no deeper than the confirmations.                             *)
(***************************************************************************)
EXTENDS RelayerProperties, SequenceTheorems, FiniteSetTheorems, TLAPS

------------------------------------------------------------------------
(* Mints and records: the inductive invariant                            *)

\* What the argument needs of the types
Types ==
  /\ paid \in [Deposits -> Nat]
  /\ orphans \in [Deposits -> Nat]
  /\ unrecorded \in [Deposits -> Nat]
  /\ row \in [Deposits -> Receipts]
  /\ flight \in Receipts

\* Only a mint that was just sent is in flight, and its deposit's row is free
FlightIsFresh ==
  /\ pc \in {"send", "record"} => item \in Deposits /\ row[item] = "none"
  /\ pc = "wait" => item \in Deposits
  /\ flight # "none" => pc = "record"

\* Whether the recorded mint of d, or the one in flight, has been executed
Known(d) == (IF row[d] = "ok" THEN 1 ELSE 0)
Flown(d) == (IF flight = "ok" /\ item = d THEN 1 ELSE 0)

\* Every mint beyond the one that is recorded is due to a lost record
Counted == \A d \in Deposits : paid[d] + orphans[d] <= unrecorded[d] + Known(d) + Flown(d)

IInv == Types /\ FlightIsFresh /\ Counted

counters == <<paid, orphans, unrecorded, row, flight>>

------------------------------------------------------------------------

\* A step that leaves the counters, the step and the deposit in progress alone
LEMMA NothingCounted ==
  ASSUME IInv, UNCHANGED counters, UNCHANGED <<pc, item>>
  PROVE  IInv'
BY DEF IInv, Types, FlightIsFresh, Counted, Known, Flown, counters

\* The end of a round in which no mint is in flight
LEMMA RestKeeps ==
  ASSUME IInv, Rest, flight = "none", UNCHANGED <<paid, orphans, unrecorded, row>>
  PROVE  IInv'
BY DEF IInv, Types, FlightIsFresh, Counted, Known, Flown, Rest, Receipts

\* A step of the relayer that neither sends nor records
LEMMA MovesOn ==
  ASSUME IInv, UNCHANGED counters, pc' \notin {"send", "record", "wait"}, flight = "none"
  PROVE  IInv'
BY DEF IInv, Types, FlightIsFresh, Counted, Known, Flown, counters

\* The execution of one mint of d
LEMMA ExecuteCounts ==
  ASSUME Types, NEW d \in Deposits, Execute(d)
  PROVE  /\ paid' \in [Deposits -> Nat]
         /\ paid'[d] = paid[d] + (IF Executed = "ok" THEN 1 ELSE 0)
         /\ \A e \in Deposits \ {d} : paid'[e] = paid[e]
BY DEF Types, Execute, Executed

LEMMA MintStep ==
  ASSUME IInv, NEW d \in Deposits, MintRecorded(d) \/ MintInFlight(d) \/ MintOrphan(d)
  PROVE  IInv'
<1>1. CASE MintRecorded(d)
  <2>1. /\ row' \in [Deposits -> Receipts] /\ row[d] = "pending" /\ row'[d] = Executed
        /\ \A e \in Deposits \ {d} : row'[e] = row[e]
        /\ Executed \in {"ok", "failed"}
    BY <1>1 DEF IInv, Types, MintRecorded, Executed, Receipts
  <2>2. UNCHANGED <<orphans, unrecorded, flight, pc, item>>
    BY <1>1 DEF MintRecorded, round
  <2>3. Execute(d)
    BY <1>1 DEF MintRecorded
  <2> QED
    BY <2>1, <2>2, <2>3, ExecuteCounts DEF IInv, Types, FlightIsFresh, Counted, Known, Flown
<1>2. CASE MintInFlight(d)
  <2>1. flight = "pending" /\ item = d /\ flight' = Executed /\ Executed \in {"ok", "failed"}
    BY <1>2 DEF MintInFlight, Executed
  <2>2. UNCHANGED <<orphans, unrecorded, row, pc, item>>
    BY <1>2 DEF MintInFlight, tables
  <2>3. Execute(d)
    BY <1>2 DEF MintInFlight
  <2> QED
    BY <2>1, <2>2, <2>3, ExecuteCounts
    DEF IInv, Types, FlightIsFresh, Counted, Known, Flown, Receipts
<1>3. CASE MintOrphan(d)
  <2>1. /\ orphans' \in [Deposits -> Nat] /\ orphans'[d] = orphans[d] - 1
        /\ \A e \in Deposits \ {d} : orphans'[e] = orphans[e]
    BY <1>3 DEF IInv, Types, MintOrphan
  <2>2. UNCHANGED <<unrecorded, row, flight, pc, item>>
    BY <1>3 DEF MintOrphan, tables, round
  <2>3. Execute(d)
    BY <1>3 DEF MintOrphan
  <2> QED
    BY <2>1, <2>2, <2>3, ExecuteCounts DEF IInv, Types, FlightIsFresh, Counted, Known, Flown
<1> QED
  BY <1>1, <1>2, <1>3

\* The chains go on without the relayer
LEMMA WorldStep ==
  ASSUME IInv,
         \/ \E S \in SUBSET (Deposits \cup pool) : MineNative(S)
         \/ ForkNative \/ Expire
         \/ \E B \in SUBSET Burns : EvmBlock(B)
         \/ ForkEvm
  PROVE  IInv'
<1>1. UNCHANGED counters /\ UNCHANGED <<pc, item>>
  BY DEF MineNative, ForkNative, Expire, EvmBlock, ForkEvm, counters, tables, round, token
<1> QED
  BY <1>1, NothingCounted

\* A step of a round that neither sends, records nor gives up
LEMMA PlainStep ==
  ASSUME IInv,
         \/ ReadInfo \/ ReadBlocks \/ SaveBlock \/ SkipMinted \/ MarkMint
         \/ ReadEvents \/ SkipDone \/ BalanceUnread \/ MarkBurn
  PROVE  IInv'
<1>1. UNCHANGED counters
  BY DEF ReadInfo, ReadBlocks, SaveBlock, SkipMinted, MarkMint, ReadEvents, SkipDone,
         BalanceUnread, MarkBurn, counters, tables, round, token
<1>2. pc # "record" /\ pc' \notin {"send", "record", "wait"}
  BY DEF ReadInfo, ReadBlocks, SaveBlock, SkipMinted, MarkMint, ReadEvents, SkipDone,
         BalanceUnread, MarkBurn
<1> QED
  BY <1>1, <1>2, MovesOn DEF IInv, FlightIsFresh

\* A round that ends without a mint in flight
LEMMA EndOfRound ==
  ASSUME IInv, EndBatch \/ SaveEvents \/ Post \/ CallFails
  PROVE  IInv'
<1>1. Rest /\ UNCHANGED <<paid, orphans, unrecorded, row>>
  BY DEF EndBatch, SaveEvents, Post, CallFails, tables, token
<1>2. pc # "record"
  BY DEF EndBatch, SaveEvents, Post, CallFails
<1> QED
  BY <1>1, <1>2, RestKeeps DEF IInv, FlightIsFresh

\* A step that goes on or gives up
LEMMA EitherWay ==
  ASSUME IInv, Wait \/ TakeBurn \/ Query
  PROVE  IInv'
<1>1. UNCHANGED <<paid, orphans, unrecorded, row>>
  BY DEF Wait, TakeBurn, Query, tables, token
<1>2. flight = "none"
  BY DEF IInv, FlightIsFresh, Wait, TakeBurn, Query
<1>3. \/ Rest
      \/ UNCHANGED flight /\ pc' \notin {"send", "record", "wait"}
  BY DEF Wait, TakeBurn, Query, round
<1> QED
  BY <1>1, <1>2, <1>3, RestKeeps, MovesOn DEF counters

\* A deposit is taken up only when its last mint is executed, has failed or is missing
LEMMA TakeDepositStep ==
  ASSUME IInv, TakeDeposit
  PROVE  IInv'
<1>1. PICK d \in Deposits :
        LET step == NextOfReceipt(row[d]) IN
        /\ IF step = "stop" THEN Rest
           ELSE pc' = step /\ item' = d /\ UNCHANGED <<tip, batch, flight, events, upto>>
        /\ IF step = "send" THEN Forget(d) ELSE UNCHANGED <<row, orphans>>
  BY DEF TakeDeposit
<1>2. UNCHANGED <<paid, unrecorded>> /\ flight = "none"
  BY DEF TakeDeposit, IInv, FlightIsFresh
<1>3. CASE NextOfReceipt(row[d]) = "stop"
  BY <1>1, <1>2, <1>3, RestKeeps
<1>4. CASE NextOfReceipt(row[d]) = "send"
  <2>1. row[d] \in {"none", "failed"}
    BY <1>4 DEF NextOfReceipt, IInv, Types, Receipts
  <2>2. /\ row' = [row EXCEPT ![d] = "none"]
        /\ orphans' = orphans
    BY <1>1, <1>4, <2>1 DEF Forget, IInv, Types
  <2>3. pc' = "send" /\ item' = d /\ flight' = "none"
    BY <1>1, <1>2, <1>4
  <2>4. Types' /\ FlightIsFresh'
    BY <1>2, <2>2, <2>3 DEF IInv, Types, FlightIsFresh, Receipts
  <2>5. ASSUME NEW e \in Deposits PROVE Known(e)' = Known(e) /\ Flown(e)' = Flown(e)
    BY <1>2, <2>1, <2>2, <2>3 DEF Known, Flown, IInv, Types
  <2> QED
    BY <1>2, <2>2, <2>4, <2>5 DEF IInv, Counted
<1>5. CASE NextOfReceipt(row[d]) = "mark"
  BY <1>1, <1>2, <1>5, MovesOn DEF counters
<1> QED
  BY <1>3, <1>4, <1>5 DEF NextOfReceipt

LEMMA SendStep ==
  ASSUME IInv, Send
  PROVE  IInv'
BY DEF Send, IInv, Types, FlightIsFresh, Counted, Known, Flown, Receipts, tables, token

\* The mint is on its way and has no record, and one more record is lost
LEMMA SendUnansweredStep ==
  ASSUME IInv, SendUnanswered
  PROVE  IInv'
<1>1. item \in Deposits /\ flight = "none"
  BY DEF SendUnanswered, IInv, FlightIsFresh
<1>2. /\ unrecorded' \in [Deposits -> Nat] /\ orphans' \in [Deposits -> Nat]
      /\ unrecorded'[item] = unrecorded[item] + 1 /\ orphans'[item] = orphans[item] + 1
      /\ \A e \in Deposits \ {item} : unrecorded'[e] = unrecorded[e] /\ orphans'[e] = orphans[e]
  BY <1>1 DEF SendUnanswered, Unrecorded, IInv, Types
<1>3. /\ pc' = "idle" /\ flight' = "none"
      /\ UNCHANGED <<paid, row>>
  BY DEF SendUnanswered, tables, Rest
<1>4. Types' /\ FlightIsFresh'
  BY <1>2, <1>3 DEF IInv, Types, FlightIsFresh, Receipts
<1>5. ASSUME NEW e \in Deposits
      PROVE  paid'[e] + orphans'[e] <= unrecorded'[e] + Known(e)' + Flown(e)'
  <2>1. paid[e] + orphans[e] <= unrecorded[e] + Known(e) + Flown(e)
    BY DEF IInv, Counted
  <2>2. {paid[e], orphans[e], unrecorded[e]} \subseteq Nat
    BY DEF IInv, Types
  <2>3. Known(e)' = Known(e) /\ Flown(e)' = 0 /\ Flown(e) = 0 /\ Known(e) \in {0, 1}
    BY <1>1, <1>3 DEF Known, Flown
  <2>4. CASE e = item
    BY <1>2, <1>3, <2>1, <2>2, <2>3, <2>4
  <2>5. CASE e # item
    BY <1>2, <1>3, <2>1, <2>2, <2>3, <2>5
  <2> QED
    BY <2>4, <2>5
<1> QED
  BY <1>4, <1>5 DEF IInv, Counted

\* The record takes over what was in flight
LEMMA RecordStep ==
  ASSUME IInv, Record
  PROVE  IInv'
<1>1. item \in Deposits /\ row[item] = "none"
  BY DEF Record, IInv, FlightIsFresh
<1>2. /\ row' \in [Deposits -> Receipts] /\ row'[item] = flight /\ flight' = "none"
      /\ \A e \in Deposits \ {item} : row'[e] = row[e]
  BY <1>1 DEF Record, IInv, Types
<1>3. pc' = "wait" /\ UNCHANGED <<paid, orphans, unrecorded, item>>
  BY DEF Record, token
<1> QED
  BY <1>1, <1>2, <1>3 DEF IInv, Types, FlightIsFresh, Counted, Known, Flown, Receipts

LEMMA RestartStep ==
  ASSUME IInv, Restart
  PROVE  IInv'
<1>1. Rest /\ UNCHANGED <<paid, row>>
  BY DEF Restart
<1>2. CASE pc # "record"
  BY <1>1, <1>2, RestKeeps DEF Restart, IInv, FlightIsFresh
<1>3. CASE pc = "record"
  <2>1. item \in Deposits
    BY <1>3 DEF IInv, FlightIsFresh
  <2>2. /\ unrecorded' \in [Deposits -> Nat] /\ unrecorded'[item] = unrecorded[item] + 1
        /\ \A e \in Deposits \ {item} : unrecorded'[e] = unrecorded[e]
    BY <1>3, <2>1 DEF Restart, Unrecorded, IInv, Types
  <2>3. /\ orphans' \in [Deposits -> Nat]
        /\ orphans'[item] <= orphans[item] + 1
        /\ flight = "ok" => orphans'[item] = orphans[item]
        /\ \A e \in Deposits \ {item} : orphans'[e] = orphans[e]
    BY <1>3, <2>1 DEF Restart, Unrecorded, IInv, Types, Receipts
  <2>4. pc' = "idle" /\ flight' = "none"
    BY <1>1 DEF Rest
  <2>5. Types' /\ FlightIsFresh'
    BY <1>1, <2>2, <2>3, <2>4 DEF IInv, Types, FlightIsFresh, Receipts
  <2>6. ASSUME NEW e \in Deposits
        PROVE  paid'[e] + orphans'[e] <= unrecorded'[e] + Known(e)' + Flown(e)'
    <3>1. paid[e] + orphans[e] <= unrecorded[e] + Known(e) + Flown(e)
      BY DEF IInv, Counted
    <3>2. {paid[e], orphans[e], unrecorded[e], orphans'[e], unrecorded'[e]} \subseteq Nat
      BY <2>2, <2>3 DEF IInv, Types
    <3>3. Known(e)' = Known(e) /\ Known(e) \in {0, 1} /\ Flown(e)' = 0
      BY <1>1, <2>4 DEF Known, Flown
    <3>4. CASE e = item
      <4>1. CASE flight = "ok"
        BY <1>1, <2>2, <2>3, <3>1, <3>2, <3>3, <3>4, <4>1 DEF Flown
      <4>2. CASE flight # "ok"
        BY <1>1, <2>2, <2>3, <3>1, <3>2, <3>3, <3>4, <4>2 DEF Flown
      <4> QED
        BY <4>1, <4>2
    <3>5. CASE e # item
      BY <1>1, <2>2, <2>3, <3>1, <3>2, <3>3, <3>5 DEF Flown
    <3> QED
      BY <3>4, <3>5
  <2> QED
    BY <2>5, <2>6 DEF IInv, Counted
<1> QED
  BY <1>2, <1>3

------------------------------------------------------------------------
(* Mints and records: the result                                         *)

\* The invariant holds initially and every step of the bridge keeps it
THEOREM Inductive == Spec => []IInv
<1>1. Init => IInv
  BY DEF Init, IInv, Types, FlightIsFresh, Counted, Known, Flown, Receipts
<1>2. IInv /\ [Next]_vars => IInv'
  <2> SUFFICES ASSUME IInv, [Next]_vars PROVE IInv'
    OBVIOUS
  <2>1. CASE UNCHANGED vars
    BY <2>1, NothingCounted DEF vars, counters, token, tables, round
  <2>2. CASE \/ \E S \in SUBSET (Deposits \cup pool) : MineNative(S)
             \/ ForkNative \/ Expire
             \/ \E B \in SUBSET Burns : EvmBlock(B)
             \/ ForkEvm
    BY <2>2, WorldStep
  <2>3. CASE MintExecuted
    BY <2>3, MintStep DEF MintExecuted
  <2>4. CASE \/ ReadInfo \/ ReadBlocks \/ SaveBlock \/ SkipMinted \/ MarkMint
             \/ ReadEvents \/ SkipDone \/ BalanceUnread \/ MarkBurn
    BY <2>4, PlainStep
  <2>5. CASE EndBatch \/ SaveEvents \/ Post \/ CallFails
    BY <2>5, EndOfRound
  <2>6. CASE Wait \/ TakeBurn \/ Query
    BY <2>6, EitherWay
  <2>7. CASE TakeDeposit \/ Send \/ SendUnanswered \/ Record \/ Restart
    BY <2>7, TakeDepositStep, SendStep, SendUnansweredStep, RecordStep, RestartStep
  <2> QED
    BY <2>1, <2>2, <2>3, <2>4, <2>5, <2>6, <2>7 DEF Next, MintRound, ReleaseRound
<1> QED
  BY <1>1, <1>2, PTL DEF Spec

\* A deposit is minted, or its mint is on the way, once and once more for every send
\* whose record was lost (relayer.py:392-400): no timeout, missing receipt, failed mint,
\* fork or death at any other place mints it again.
THEOREM MintsCounted == Spec => []MintsAreCounted
<1>1. IInv => MintsAreCounted
  <2> SUFFICES ASSUME IInv, NEW d \in Deposits
               PROVE  paid[d] + Underway(d) <= 1 + unrecorded[d]
    BY DEF MintsAreCounted
  <2>1. paid[d] + orphans[d] <= unrecorded[d] + Known(d) + Flown(d)
    BY DEF IInv, Counted
  <2>2. row[d] # "none" => ~(item = d /\ flight # "none")
    BY DEF IInv, FlightIsFresh
  <2>3. {paid[d], orphans[d], unrecorded[d]} \subseteq Nat
    BY DEF IInv, Types
  <2> QED
    BY <2>1, <2>2, <2>3 DEF Known, Flown, Underway
<1> QED
  BY <1>1, Inductive, PTL

\* No chain abandons a block that has its confirmations
NativeFinal == NativeReorg <= NativeConfirmations
EvmFinal == EvmReorg <= EvmConfirmations

\* The first range of Ethereum blocks is finished before the chain has outgrown
\* the blocks that a first start looks back
EarlyStart == MaxEvmHeight <= Lookback

\* What stands in the chain, waits for it and is being released
Names ==
  /\ native \in Seq(SUBSET (Deposits \cup Burns))
  /\ pool \subseteq Burns /\ events \subseteq Burns
  /\ pc \in {"query", "post", "markBurn"} => item \in Burns

------------------------------------------------------------------------
(* The native side                                                       *)

\* The blocks that no fork reaches: those up to this height
Firm == top - NativeReorg

\* The deposit or release x is in a block that no fork reaches
Settled(x) == \E i \in 1 .. Len(native) : i <= Firm /\ x \in native[i]

NativeShape ==
  /\ native \in Seq(SUBSET (Deposits \cup Burns))
  /\ top \in Nat /\ Len(native) <= top /\ Firm <= Len(native)

\* What is read and what is finished is firm
Position ==
  /\ lastBlock \in Nat /\ batch \in Seq(SUBSET (Deposits \cup Burns))
  /\ lastBlock = 0 \/ lastBlock <= Firm
  /\ batch # <<>> => lastBlock + Len(batch) <= Firm
  /\ pc = "blocks" => tip \in Nat /\ tip <= Firm /\ tip > lastBlock

\* The blocks at hand are those of the chain but for the deposits already minted
BatchIsRead ==
  \A i \in 1 .. Len(batch) :
    /\ batch[i] \subseteq native[lastBlock + i]
    /\ native[lastBlock + i] \cap Deposits \subseteq batch[i] \cup minted

ItemIsRead ==
  /\ pc \in {"send", "record", "wait", "mark"} =>
       batch # <<>> /\ item \in Head(batch) \cap Deposits
  /\ flight # "none" => pc = "record"

\* Something was spent on deposit d
Committed(d) == paid[d] # 0 \/ orphans[d] # 0 \/ row[d] # "none"

SpentIsSettled == \A d \in Deposits : Committed(d) => Settled(d)

NothingPassed == \A i \in 1 .. Len(native) : i <= lastBlock => native[i] \cap Deposits \subseteq minted

NativeInv ==
  NativeShape /\ Position /\ BatchIsRead /\ ItemIsRead /\ SpentIsSettled /\ NothingPassed

------------------------------------------------------------------------
(* The EVM side                                                          *)

\* Burns up to this height are not taken back
FirmEvm == evmTop - EvmReorg
Burnt(b) == burntAt[b] \in 1 .. FirmEvm

EvmShape ==
  /\ height \in Nat /\ evmTop \in Nat /\ FirmEvm <= height /\ height <= evmTop
  /\ height <= MaxEvmHeight
  /\ burntAt \in [Burns -> 0 .. height]

Releasing == {"events", "query", "post", "markBurn"}

EvmPosition ==
  /\ lastEvm \in Nat
  /\ lastEvm = 0 \/ lastEvm <= FirmEvm
  /\ ~saved => lastEvm = 0
  /\ events \subseteq Burns /\ \A b \in events : Burnt(b)
  /\ pc \in Releasing =>
       /\ upto \in Nat /\ upto <= FirmEvm
       /\ \A b \in Burns : burntAt[b] \in lastEvm + 1 .. upto => b \in events \/ TxOf(b) \in done
  /\ pc \in {"query", "post", "markBurn"} => item \in events

PaidIsBurnt == \A b \in Burns : b \in OnChain \cup pool => Burnt(b)

NothingLeft == \A b \in Burns : burntAt[b] \in 1 .. lastEvm => TxOf(b) \in done

EvmInv == pool \subseteq Burns /\ EvmShape /\ EvmPosition /\ PaidIsBurnt /\ NothingLeft

------------------------------------------------------------------------
(* Lemmas of the native side                                             *)

LEMMA Numbers ==
  /\ {NativeConfirmations, EvmConfirmations, Limit} \subseteq Nat \ {0}
  /\ {NativeReorg, EvmReorg, Lookback, MaxEvmHeight} \subseteq Nat
  /\ Deposits \cap Burns = {}
BY RelayerConstants DEF RelayerConstants

\* Nothing is spent on a deposit that is neither firm nor known
LEMMA Spends ==
  ASSUME NativeInv, UNCHANGED <<native, top>>,
         \A d \in Deposits : Committed(d)' => Committed(d) \/ Settled(d)
  PROVE  SpentIsSettled'
BY DEF NativeInv, SpentIsSettled, Settled, Firm

\* The deposit in progress is firm
LEMMA InProgress ==
  ASSUME NativeInv, pc \in {"send", "record", "wait", "mark"}
  PROVE  item \in Deposits /\ Settled(item)
<1>1. batch # <<>> /\ item \in Head(batch) \cap Deposits
  BY DEF NativeInv, ItemIsRead
<1>2. /\ batch \in Seq(SUBSET (Deposits \cup Burns)) /\ Len(batch) \in Nat /\ Len(batch) >= 1
      /\ Head(batch) = batch[1]
      /\ lastBlock \in Nat /\ lastBlock + Len(batch) <= Firm /\ Firm <= Len(native)
      /\ Firm \in Int /\ Len(native) \in Nat
  BY <1>1, Numbers DEF NativeInv, NativeShape, Position, Firm
<1>3. item \in native[lastBlock + 1] /\ lastBlock + 1 \in 1 .. Len(native) /\ lastBlock + 1 <= Firm
  BY <1>1, <1>2 DEF NativeInv, BatchIsRead
<1> QED
  BY <1>1, <1>3 DEF Settled

\* A step that leaves the chain and the finished blocks alone
LEMMA NativeKeeps ==
  ASSUME NativeInv, SpentIsSettled', UNCHANGED <<native, top, lastBlock, minted>>,
         \/ UNCHANGED <<pc, tip, batch, item, flight>>
         \/ Rest
         \/ /\ UNCHANGED batch /\ flight' = "none"
            /\ pc' \notin {"blocks", "send", "record", "wait", "mark"}
         \/ /\ UNCHANGED batch /\ batch # <<>> /\ item' \in Head(batch) \cap Deposits
            /\ pc' # "blocks" /\ (flight' # "none" => pc' = "record")
  PROVE  NativeInv'
<1>1. NativeShape' /\ NothingPassed'
  BY DEF NativeInv, NativeShape, NothingPassed, Firm
<1>2. CASE UNCHANGED <<pc, tip, batch, item, flight>>
  BY <1>1, <1>2
  DEF NativeInv, Position, BatchIsRead, ItemIsRead, Firm
<1>3. CASE Rest
  <2>1. pc' = "idle" /\ batch' = <<>> /\ flight' = "none" /\ Len(batch') = 0
    BY <1>3 DEF Rest
  <2> QED
    BY <1>1, <2>1
    DEF NativeInv, Position, BatchIsRead, ItemIsRead, Firm
<1>4. CASE /\ UNCHANGED batch /\ flight' = "none"
           /\ pc' \notin {"blocks", "send", "record", "wait", "mark"}
  BY <1>1, <1>4
  DEF NativeInv, Position, BatchIsRead, ItemIsRead, Firm
<1>5. CASE /\ UNCHANGED batch /\ batch # <<>> /\ item' \in Head(batch) \cap Deposits
           /\ pc' # "blocks" /\ (flight' # "none" => pc' = "record")
  BY <1>1, <1>5
  DEF NativeInv, Position, BatchIsRead, ItemIsRead, Firm
<1> QED
  BY <1>2, <1>3, <1>4, <1>5

\* The chain keeps its firm blocks
LEMMA ChainMoves ==
  ASSUME NativeInv, NativeShape', Firm <= Firm',
         \A i \in 1 .. Len(native) : i <= Firm => i <= Len(native') /\ native'[i] = native[i],
         \A i \in 1 .. Len(native') : i <= Firm => i <= Len(native) /\ native'[i] = native[i],
         UNCHANGED <<paid, orphans, row, lastBlock, minted, pc, tip, batch, item, flight>>
  PROVE  NativeInv'
<1>1. Firm \in Int /\ Firm' \in Int /\ Len(native) \in Nat /\ Len(native') \in Nat
      /\ Firm <= Len(native) /\ Firm' <= Len(native')
      /\ lastBlock \in Nat /\ batch \in Seq(SUBSET (Deposits \cup Burns))
  BY Numbers DEF NativeInv, NativeShape, Position, Firm
<1>2. Position' /\ ItemIsRead'
  BY <1>1 DEF NativeInv, Position, ItemIsRead
<1>3. SpentIsSettled'
  <2> SUFFICES ASSUME NEW d \in Deposits, Committed(d) PROVE Settled(d)'
    BY DEF SpentIsSettled, Committed
  <2>1. PICK i \in 1 .. Len(native) : i <= Firm /\ d \in native[i]
    BY DEF NativeInv, SpentIsSettled, Settled
  <2> QED
    BY <1>1, <2>1 DEF Settled
<1>4. BatchIsRead'
  <2> SUFFICES ASSUME NEW i \in 1 .. Len(batch)
               PROVE  native'[lastBlock + i] = native[lastBlock + i]
    BY DEF NativeInv, BatchIsRead
  <2>1. lastBlock + i \in 1 .. Len(native) /\ lastBlock + i <= Firm
    BY <1>1 DEF NativeInv, Position
  <2> QED
    BY <2>1
<1>5. NothingPassed'
  <2> SUFFICES ASSUME NEW i \in 1 .. Len(native'), i <= lastBlock
               PROVE  native'[i] \cap Deposits \subseteq minted
    BY DEF NothingPassed
  <2>1. i <= Firm
    BY <1>1 DEF NativeInv, Position
  <2> QED
    BY <2>1, <1>1 DEF NativeInv, NothingPassed
<1> QED
  BY <1>2, <1>3, <1>4, <1>5 DEF NativeInv

LEMMA MineStep ==
  ASSUME NativeInv, pool \subseteq Burns, NEW S \in SUBSET (Deposits \cup pool), MineNative(S)
  PROVE  NativeInv'
<1>1. /\ native \in Seq(SUBSET (Deposits \cup Burns)) /\ S \in SUBSET (Deposits \cup Burns)
      /\ top \in Nat /\ Len(native) <= top /\ Firm <= Len(native) /\ Len(native) \in Nat
  BY DEF NativeInv, NativeShape
<1>2. /\ native' = Append(native, S) /\ Len(native') = Len(native) + 1
      /\ native' \in Seq(SUBSET (Deposits \cup Burns))
      /\ \A i \in 1 .. Len(native) : native'[i] = native[i]
  BY <1>1 DEF MineNative
<1>3. top' = IF Len(native') > top THEN Len(native') ELSE top
  BY DEF MineNative
<1>4. NativeShape' /\ Firm <= Firm' /\ Firm \in Int
  BY <1>1, <1>2, <1>3, Numbers DEF NativeShape, Firm
<1>5. UNCHANGED <<paid, orphans, row, lastBlock, minted, pc, tip, batch, item, flight>>
  BY DEF MineNative, token, tables, round
<1> QED
  BY <1>1, <1>2, <1>4, <1>5, ChainMoves

LEMMA ForkStep ==
  ASSUME NativeInv, ForkNative
  PROVE  NativeInv'
<1>1. PICK l \in 0 .. Len(native) - 1 : l >= top - NativeReorg /\ native' = SubSeq(native, 1, l)
  BY DEF ForkNative
<1>2. /\ native \in Seq(SUBSET (Deposits \cup Burns))
      /\ top \in Nat /\ Len(native) <= top /\ Firm <= Len(native) /\ Len(native) \in Nat
  BY DEF NativeInv, NativeShape
<1>3. /\ Len(native') = l /\ native' \in Seq(SUBSET (Deposits \cup Burns))
      /\ \A i \in 1 .. l : native'[i] = native[i]
  BY <1>1, <1>2
<1>4. NativeShape' /\ Firm <= Firm' /\ Firm \in Int /\ Firm <= l
  BY <1>1, <1>2, <1>3, Numbers DEF NativeShape, Firm, ForkNative
<1>5. UNCHANGED <<paid, orphans, row, lastBlock, minted, pc, tip, batch, item, flight>>
  BY DEF ForkNative, token, tables, round
<1> QED
  BY <1>1, <1>2, <1>3, <1>4, <1>5, ChainMoves

\* A step that leaves the native chain, its blocks at hand and the deposits alone
LEMMA ReleaseNative ==
  ASSUME NativeInv, UNCHANGED <<native, top, paid, orphans, row, lastBlock, minted>>,
         \/ UNCHANGED <<pc, tip, batch, item, flight>>
         \/ Rest
         \/ /\ UNCHANGED batch /\ flight' = "none"
            /\ pc' \notin {"blocks", "send", "record", "wait", "mark"}
  PROVE  NativeInv'
<1>1. SpentIsSettled'
  BY Spends DEF Committed
<1> QED
  BY <1>1, NativeKeeps

LEMMA ReleaseRoundNative ==
  ASSUME NativeInv, IInv,
         \/ EndBatch \/ ReadEvents \/ ReleaseRound \/ BalanceUnread \/ CallFails
         \/ Expire \/ ForkEvm \/ \E B \in SUBSET Burns : EvmBlock(B)
  PROVE  NativeInv'
<1>1. UNCHANGED <<native, top, paid, orphans, row, lastBlock, minted>>
  BY DEF EndBatch, ReadEvents, ReleaseRound, SaveEvents, SkipDone, TakeBurn, Query, Post, MarkBurn,
         BalanceUnread, CallFails, Expire, ForkEvm, EvmBlock, chains, token, tables
<1>2. flight # "none" => pc = "record"
  BY DEF NativeInv, ItemIsRead
<1>3. CASE Expire \/ ForkEvm \/ SkipDone \/ \E B \in SUBSET Burns : EvmBlock(B)
  <2>1. UNCHANGED <<pc, tip, batch, item, flight>>
    BY <1>3 DEF Expire, ForkEvm, SkipDone, EvmBlock, round
  <2> QED
    BY <1>1, <2>1, ReleaseNative
<1>4. CASE EndBatch \/ SaveEvents \/ Post \/ CallFails
  <2>1. Rest
    BY <1>4 DEF EndBatch, SaveEvents, Post, CallFails
  <2> QED
    BY <1>1, <2>1, ReleaseNative
<1>5. CASE ReadEvents \/ TakeBurn \/ Query \/ MarkBurn \/ BalanceUnread
  <2>1. \/ Rest
        \/ /\ UNCHANGED batch /\ flight' = "none"
           /\ pc' \notin {"blocks", "send", "record", "wait", "mark"}
    BY <1>2, <1>5 DEF ReadEvents, TakeBurn, Query, MarkBurn, BalanceUnread, round
  <2> QED
    BY <1>1, <2>1, ReleaseNative
<1> QED
  BY <1>3, <1>4, <1>5 DEF ReleaseRound

\* What is confirmed is firm
LEMMA ReadInfoNative ==
  ASSUME NativeInv, NativeFinal, ReadInfo
  PROVE  NativeInv'
<1>1. UNCHANGED <<native, top, paid, orphans, row, lastBlock, minted, batch, item, flight>>
      /\ pc' = "blocks" /\ tip' = Len(native) - NativeConfirmations /\ tip' > lastBlock
      /\ flight = "none"
  BY DEF ReadInfo, chains, token, tables, NativeInv, ItemIsRead
<1>2. SpentIsSettled'
  BY <1>1, Spends DEF Committed
<1>3. Position'
  BY <1>1, Numbers DEF NativeFinal, NativeInv, NativeShape, Position, Firm
<1>4. NativeShape' /\ NothingPassed' /\ BatchIsRead' /\ ItemIsRead'
  BY <1>1 DEF NativeInv, NativeShape, NothingPassed, BatchIsRead, ItemIsRead, Firm
<1> QED
  BY <1>2, <1>3, <1>4 DEF NativeInv

\* The blocks at hand are those after the last one that is finished
LEMMA ReadBlocksNative ==
  ASSUME NativeInv, ReadBlocks
  PROVE  NativeInv'
<1> DEFINE m == lastBlock + 1
           n == Least(Len(native), Least(tip, lastBlock + Limit))
<1>1. UNCHANGED <<native, top, paid, orphans, row, lastBlock, minted, flight>>
      /\ pc' = "scan" /\ batch' = SubSeq(native, m, n) /\ flight = "none"
  BY DEF ReadBlocks, chains, token, tables, NativeInv, ItemIsRead
<1>2. /\ native \in Seq(SUBSET (Deposits \cup Burns)) /\ Len(native) \in Nat
      /\ lastBlock \in Nat /\ tip \in Nat /\ tip > lastBlock /\ tip <= Firm /\ Firm \in Int
      /\ m \in Nat /\ m >= 1 /\ n \in Nat /\ n <= Len(native) /\ n <= tip
  <2>1. /\ native \in Seq(SUBSET (Deposits \cup Burns)) /\ Len(native) \in Nat
        /\ lastBlock \in Nat /\ tip \in Nat /\ tip > lastBlock /\ tip <= Firm /\ Firm \in Int
    BY Numbers DEF NativeInv, NativeShape, Position, ReadBlocks, Firm
  <2>2. lastBlock + Limit \in Nat
    BY <2>1, Numbers
  <2>3. n \in Nat /\ n <= Len(native) /\ n <= tip
    BY <2>1, <2>2 DEF Least
  <2> QED
    BY <2>1, <2>3
<1> HIDE DEF n
<1>3. /\ SubSeq(native, m, n) \in Seq(SUBSET (Deposits \cup Burns))
      /\ Len(SubSeq(native, m, n)) = IF m <= n THEN n - m + 1 ELSE 0
      /\ \A i \in 1 .. n - m + 1 : SubSeq(native, m, n)[i] = native[m + i - 1]
  BY <1>2, SubSeqProperties
<1>4. Position'
  <2>1. batch' # <<>> => m <= n
    BY <1>1, <1>3
  <2> QED
    BY <1>1, <1>2, <1>3, <2>1 DEF Position, NativeInv, Firm
<1>5. BatchIsRead'
  <2> SUFFICES ASSUME NEW i \in 1 .. Len(batch') PROVE batch'[i] = native[lastBlock + i]
    BY <1>1 DEF BatchIsRead
  <2>1. i \in 1 .. n - m + 1 /\ m + i - 1 = lastBlock + i
    BY <1>1, <1>2, <1>3
  <2> QED
    BY <1>1, <1>3, <2>1
<1>6. SpentIsSettled'
  BY <1>1, Spends DEF Committed
<1>7. NativeShape' /\ NothingPassed' /\ ItemIsRead'
  BY <1>1 DEF NativeInv, NativeShape, NothingPassed, ItemIsRead, Firm
<1> QED
  BY <1>4, <1>5, <1>6, <1>7 DEF NativeInv

\* A block is finished when its deposits are minted
LEMMA SaveBlockNative ==
  ASSUME NativeInv, SaveBlock
  PROVE  NativeInv'
<1>1. UNCHANGED <<native, top, paid, orphans, row, minted, pc, flight>>
      /\ pc = "scan" /\ batch # <<>> /\ Head(batch) \cap Deposits = {}
      /\ lastBlock' = lastBlock + 1 /\ batch' = Tail(batch)
  BY DEF SaveBlock, chains, token
<1>2. /\ batch \in Seq(SUBSET (Deposits \cup Burns)) /\ Len(batch) \in Nat /\ Len(batch) >= 1
      /\ Head(batch) = batch[1] /\ Len(batch') = Len(batch) - 1
      /\ batch' \in Seq(SUBSET (Deposits \cup Burns))
      /\ \A i \in 1 .. Len(batch') : batch'[i] = batch[i + 1]
      /\ lastBlock \in Nat /\ lastBlock + Len(batch) <= Firm /\ Firm <= Len(native)
      /\ Firm \in Int /\ Len(native) \in Nat
  BY <1>1, Numbers, HeadTailProperties DEF NativeInv, NativeShape, Position, Firm
<1>3. Position'
  BY <1>1, <1>2 DEF Position, Firm
<1>4. BatchIsRead'
  <2> SUFFICES ASSUME NEW i \in 1 .. Len(batch')
               PROVE  /\ batch[i + 1] \subseteq native[lastBlock + 1 + i]
                      /\ native[lastBlock + 1 + i] \cap Deposits \subseteq batch[i + 1] \cup minted
    BY <1>1, <1>2 DEF BatchIsRead
  <2>1. i + 1 \in 1 .. Len(batch) /\ lastBlock + (i + 1) = lastBlock + 1 + i
    BY <1>2
  <2> QED
    BY <2>1 DEF NativeInv, BatchIsRead
<1>5. NothingPassed'
  <2>1. native[lastBlock + 1] \cap Deposits \subseteq minted
    BY <1>1, <1>2 DEF NativeInv, BatchIsRead
  <2> QED
    BY <1>1, <1>2, <2>1 DEF NativeInv, NothingPassed
<1>6. SpentIsSettled'
  BY <1>1, Spends DEF Committed
<1>7. NativeShape' /\ ItemIsRead'
  BY <1>1 DEF NativeInv, NativeShape, ItemIsRead, Firm
<1> QED
  BY <1>3, <1>4, <1>5, <1>6, <1>7 DEF NativeInv

\* A minted deposit leaves the blocks at hand
LEMMA WithoutNative ==
  ASSUME NativeInv, NEW d \in Deposits, batch # <<>>, batch' = Without(d),
         d \in minted', minted \subseteq minted',
         UNCHANGED <<native, top, paid, orphans, row, lastBlock>>,
         pc' = "scan", flight' = "none"
  PROVE  NativeInv'
<1>1. /\ batch \in Seq(SUBSET (Deposits \cup Burns)) /\ Len(batch) \in Nat /\ Len(batch) >= 1
      /\ Head(batch) = batch[1] /\ batch[1] \in SUBSET (Deposits \cup Burns)
      /\ Tail(batch) \in Seq(SUBSET (Deposits \cup Burns))
      /\ Len(Tail(batch)) = Len(batch) - 1
      /\ \A i \in 1 .. Len(Tail(batch)) : Tail(batch)[i] = batch[i + 1]
  BY HeadTailProperties DEF NativeInv, Position
<1>2. /\ batch' \in Seq(SUBSET (Deposits \cup Burns)) /\ Len(batch') = Len(batch)
      /\ batch'[1] = batch[1] \ {d}
      /\ \A i \in 2 .. Len(batch) : batch'[i] = batch[i]
  <2> DEFINE h == <<Head(batch) \ {d}>>
  <2>1. h \in Seq(SUBSET (Deposits \cup Burns)) /\ Len(h) = 1 /\ h[1] = batch[1] \ {d}
    BY <1>1
  <2> HIDE DEF h
  <2>2. batch' = h \o Tail(batch)
    BY DEF Without, h
  <2>3. /\ batch' \in Seq(SUBSET (Deposits \cup Burns))
        /\ Len(batch') = Len(h) + Len(Tail(batch))
        /\ \A i \in 1 .. Len(h) + Len(Tail(batch)) :
             batch'[i] = IF i <= Len(h) THEN h[i] ELSE Tail(batch)[i - Len(h)]
    <3>1. h \in Seq(SUBSET (Deposits \cup Burns)) /\ Tail(batch) \in Seq(SUBSET (Deposits \cup Burns))
      BY <1>1, <2>1
    <3> QED
      BY <2>2, <3>1, ConcatProperties, Zenon
  <2>4. ASSUME NEW i \in 2 .. Len(batch) PROVE batch'[i] = batch[i]
    <3>1. i \in 1 .. 1 + Len(Tail(batch)) /\ ~(i <= 1)
          /\ i - 1 \in 1 .. Len(Tail(batch)) /\ (i - 1) + 1 = i
      BY <1>1
    <3>2. batch'[i] = Tail(batch)[i - 1]
      BY <2>1, <2>3, <3>1
    <3> QED
      BY <1>1, <3>1, <3>2
  <2> QED
    BY <1>1, <2>1, <2>3, <2>4
<1>3. Position' /\ ItemIsRead'
  BY <1>1, <1>2 DEF NativeInv, Position, ItemIsRead, Firm
<1>4. BatchIsRead'
  <2> SUFFICES ASSUME NEW i \in 1 .. Len(batch)
               PROVE  /\ batch'[i] \subseteq native[lastBlock + i]
                      /\ native[lastBlock + i] \cap Deposits \subseteq batch'[i] \cup minted'
    BY <1>2 DEF BatchIsRead
  <2>1. /\ batch[i] \subseteq native[lastBlock + i]
        /\ native[lastBlock + i] \cap Deposits \subseteq batch[i] \cup minted
    BY DEF NativeInv, BatchIsRead
  <2>2. batch'[i] = batch[i] \/ batch'[i] = batch[i] \ {d}
    BY <1>1, <1>2
  <2> QED
    BY <2>1, <2>2
<1>5. NothingPassed' /\ NativeShape'
  BY DEF NativeInv, NothingPassed, NativeShape, Firm
<1>6. SpentIsSettled'
  BY Spends DEF Committed
<1> QED
  BY <1>3, <1>4, <1>5, <1>6 DEF NativeInv

LEMMA MarkNative ==
  ASSUME NativeInv, SkipMinted \/ MarkMint
  PROVE  NativeInv'
<1>1. UNCHANGED <<native, top, paid, orphans, row, lastBlock>> /\ pc' = "scan" /\ flight' = "none"
  BY DEF SkipMinted, MarkMint, chains, token, tables, NativeInv, ItemIsRead
<1>2. PICK d \in Deposits : batch # <<>> /\ batch' = Without(d) /\ d \in minted' /\ minted \subseteq minted'
  <2>1. CASE SkipMinted
    BY <2>1 DEF SkipMinted, tables
  <2>2. CASE MarkMint
    BY <2>2, InProgress DEF MarkMint, NativeInv, ItemIsRead
  <2> QED
    BY <2>1, <2>2
<1> QED
  BY <1>1, <1>2, WithoutNative

\* Only a deposit of a block at hand is taken up, and only one in progress is sent or recorded
LEMMA DepositNative ==
  ASSUME NativeInv, IInv, TakeDeposit \/ Send \/ SendUnanswered \/ Record \/ Wait
  PROVE  NativeInv'
<1>1. UNCHANGED <<native, top, lastBlock, minted, paid>>
  BY DEF TakeDeposit, Send, SendUnanswered, Record, Wait, chains, token, tables
<1>2. CASE TakeDeposit
  <2>1. PICK d \in (Head(batch) \cap Deposits) \ minted :
          LET step == NextOfReceipt(row[d]) IN
          /\ IF step = "stop" THEN Rest
             ELSE pc' = step /\ item' = d /\ UNCHANGED <<tip, batch, flight, events, upto>>
          /\ IF step = "send" THEN Forget(d) ELSE UNCHANGED <<row, orphans>>
    BY <1>2 DEF TakeDeposit
  <2>2. batch # <<>> /\ flight = "none"
    BY <1>2 DEF TakeDeposit, NativeInv, ItemIsRead
  <2>3. ASSUME NEW e \in Deposits, Committed(e)' PROVE Committed(e)
    BY <1>1, <2>1, <2>3 DEF Forget, Committed, IInv, Types
  <2>4. SpentIsSettled'
    BY <1>1, <2>3, Spends
  <2>5. NextOfReceipt(row[d]) \in {"stop", "send", "mark"}
    BY DEF NextOfReceipt
  <2> QED
    BY <1>1, <2>1, <2>2, <2>4, <2>5, NativeKeeps
<1>3. CASE Send \/ SendUnanswered \/ Record \/ Wait
  <2>1. pc \in {"send", "record", "wait", "mark"} /\ batch # <<>> /\ item \in Head(batch) \cap Deposits
    BY <1>3 DEF Send, SendUnanswered, Record, Wait, NativeInv, ItemIsRead
  <2>2. item \in Deposits /\ Settled(item)
    BY <2>1, InProgress
  <2>3. ASSUME NEW e \in Deposits, Committed(e)', e # item PROVE Committed(e)
    BY <1>1, <1>3, <2>3
    DEF Committed, IInv, Types, Send, SendUnanswered, Unrecorded, Record, Wait, tables, token
  <2>4. SpentIsSettled'
    BY <1>1, <2>2, <2>3, Spends
  <2>5. \/ Rest
        \/ UNCHANGED <<batch, item>> /\ pc' # "blocks" /\ (flight' # "none" => pc' = "record")
    BY <1>3 DEF Send, SendUnanswered, Record, Wait, round, NativeInv, ItemIsRead
  <2> QED
    BY <1>1, <2>1, <2>4, <2>5, NativeKeeps
<1> QED
  BY <1>2, <1>3

LEMMA ExecuteNative ==
  ASSUME NativeInv, IInv, NEW d \in Deposits, MintRecorded(d) \/ MintInFlight(d) \/ MintOrphan(d)
  PROVE  NativeInv'
<1>1. UNCHANGED <<native, top, lastBlock, minted, pc, tip, batch, item>> /\ Execute(d)
  BY DEF MintRecorded, MintInFlight, MintOrphan, chains, tables, round
<1>2. \A e \in Deposits \ {d} : paid'[e] = paid[e]
  BY <1>1, ExecuteCounts DEF IInv
<1>3. \A e \in Deposits \ {d} : orphans'[e] = orphans[e] /\ row'[e] = row[e]
  BY DEF IInv, Types, MintRecorded, MintInFlight, MintOrphan, tables
<1>4. Committed(d) \/ Settled(d)
  <2>1. CASE MintRecorded(d)
    BY <2>1 DEF MintRecorded, Committed
  <2>2. CASE MintInFlight(d)
    BY <2>2, InProgress DEF MintInFlight, NativeInv, ItemIsRead
  <2>3. CASE MintOrphan(d)
    BY <2>3 DEF MintOrphan, Committed, IInv, Types
  <2> QED
    BY <2>1, <2>2, <2>3
<1>5. SpentIsSettled'
  BY <1>1, <1>2, <1>3, <1>4, Spends DEF Committed
<1>6. flight' # "none" => pc' = "record"
  BY <1>1 DEF NativeInv, ItemIsRead, MintRecorded, MintInFlight, MintOrphan, round
<1>7. NativeShape' /\ NothingPassed' /\ Position' /\ BatchIsRead' /\ ItemIsRead'
  BY <1>1, <1>6
  DEF NativeInv, NativeShape, NothingPassed, Position, BatchIsRead, ItemIsRead, Firm
<1> QED
  BY <1>5, <1>7 DEF NativeInv

LEMMA RestartNative ==
  ASSUME NativeInv, IInv, Restart
  PROVE  NativeInv'
<1>1. UNCHANGED <<native, top, lastBlock, minted, paid, row>> /\ Rest
  BY DEF Restart, chains
<1>2. \A e \in Deposits : Committed(e)' => Committed(e) \/ Settled(e)
  <2>1. CASE pc = "record"
    <3>1. item \in Deposits /\ Settled(item)
      BY <2>1, InProgress
    <3>2. \A e \in Deposits \ {item} : orphans'[e] = orphans[e]
      BY <2>1 DEF IInv, Types, Restart, Unrecorded
    <3> QED
      BY <1>1, <3>1, <3>2 DEF Committed
  <2>2. CASE pc # "record"
    BY <1>1, <2>2 DEF Restart, Committed
  <2> QED
    BY <2>1, <2>2
<1>3. SpentIsSettled'
  BY <1>1, <1>2, Spends
<1> QED
  BY <1>1, <1>3, NativeKeeps

\* Every step keeps the native side
LEMMA NativeStep ==
  ASSUME NativeInv, IInv, NativeFinal, Names, [Next]_vars
  PROVE  NativeInv'
<1>1. CASE UNCHANGED vars
  BY <1>1, ReleaseNative DEF vars, chains, token, tables, round
<1>2. CASE \E S \in SUBSET (Deposits \cup pool) : MineNative(S)
  BY <1>2, MineStep DEF Names
<1>3. CASE ForkNative
  BY <1>3, ForkStep
<1>4. CASE \/ EndBatch \/ ReadEvents \/ ReleaseRound \/ BalanceUnread \/ CallFails
           \/ Expire \/ ForkEvm \/ \E B \in SUBSET Burns : EvmBlock(B)
  BY <1>4, ReleaseRoundNative
<1>5. CASE ReadInfo \/ ReadBlocks \/ SaveBlock
  BY <1>5, ReadInfoNative, ReadBlocksNative, SaveBlockNative
<1>6. CASE SkipMinted \/ MarkMint
  BY <1>6, MarkNative
<1>7. CASE TakeDeposit \/ Send \/ SendUnanswered \/ Record \/ Wait
  BY <1>7, DepositNative
<1>8. CASE MintExecuted \/ Restart
  BY <1>8, ExecuteNative, RestartNative DEF MintExecuted
<1> QED
  BY <1>1, <1>2, <1>3, <1>4, <1>5, <1>6, <1>7, <1>8 DEF Next, MintRound

------------------------------------------------------------------------
(* Lemmas of the EVM side                                                *)

LEMMA OnChainGrows ==
  ASSUME native \in Seq(SUBSET (Deposits \cup Burns)), NEW S \in SUBSET (Deposits \cup Burns),
         native' = Append(native, S)
  PROVE  OnChain' = OnChain \cup S
<1>1. /\ Len(native) \in Nat /\ Len(native') = Len(native) + 1
      /\ \A i \in 1 .. Len(native) : native'[i] = native[i]
      /\ native'[Len(native) + 1] = S
  OBVIOUS
<1>2. 1 .. Len(native') = (1 .. Len(native)) \cup {Len(native) + 1}
  BY <1>1
<1> QED
  BY <1>1, <1>2 DEF OnChain

LEMMA OnChainShrinks ==
  ASSUME native \in Seq(SUBSET (Deposits \cup Burns)), NEW l \in 0 .. Len(native) - 1,
         native' = SubSeq(native, 1, l)
  PROVE  OnChain' \subseteq OnChain
<1>1. Len(native) \in Nat /\ Len(native') = l /\ \A i \in 1 .. l : native'[i] = native[i]
  OBVIOUS
<1>2. 1 .. Len(native') \subseteq 1 .. Len(native)
  BY <1>1
<1> QED
  BY <1>1, <1>2 DEF OnChain

\* A step that leaves the EVM and the place that was read up to alone
LEMMA EvmKeeps ==
  ASSUME EvmInv, UNCHANGED <<height, evmTop, burntAt, lastEvm, saved>>,
         done \subseteq done', pool' \subseteq Burns, PaidIsBurnt',
         \/ UNCHANGED <<pc, item, events, upto>>
         \/ Rest
         \/ UNCHANGED events /\ pc' \notin Releasing
         \/ /\ pc \in Releasing /\ UNCHANGED upto
            /\ events' \subseteq events /\ \A b \in events \ events' : TxOf(b) \in done'
            /\ pc' \in {"query", "post", "markBurn"} => item' \in events'
  PROVE  EvmInv'
<1>1. EvmShape' /\ NothingLeft'
  BY DEF EvmInv, EvmShape, NothingLeft, FirmEvm
<1>2. \A b \in Burns : Burnt(b)' <=> Burnt(b)
  BY DEF Burnt, FirmEvm
<1>3. EvmPosition'
  <2>1. CASE UNCHANGED <<pc, item, events, upto>>
    BY <1>2, <2>1 DEF EvmInv, EvmPosition, FirmEvm
  <2>2. CASE Rest
    BY <1>2, <2>2 DEF EvmInv, EvmPosition, FirmEvm, Rest, Releasing
  <2>3. CASE UNCHANGED events /\ pc' \notin Releasing
    BY <1>2, <2>3 DEF EvmInv, EvmPosition, FirmEvm, Releasing
  <2>4. CASE /\ pc \in Releasing /\ UNCHANGED upto
             /\ events' \subseteq events /\ \A b \in events \ events' : TxOf(b) \in done'
             /\ pc' \in {"query", "post", "markBurn"} => item' \in events'
    BY <1>2, <2>4 DEF EvmInv, EvmPosition, FirmEvm, Releasing
  <2> QED
    BY <2>1, <2>2, <2>3, <2>4
<1> QED
  BY <1>1, <1>3 DEF EvmInv

\* The EVM keeps its firm burns, and no other becomes firm
LEMMA EvmMoves ==
  ASSUME EvmInv, EvmShape', FirmEvm <= FirmEvm',
         \A b \in Burns : burntAt[b] \in 1 .. FirmEvm => burntAt'[b] = burntAt[b],
         \A b \in Burns : burntAt'[b] \in 1 .. FirmEvm => burntAt'[b] = burntAt[b],
         UNCHANGED <<OnChain, pool, lastEvm, saved, done, pc, item, events, upto>>
  PROVE  EvmInv'
<1>1. FirmEvm \in Int /\ FirmEvm' \in Int
  BY Numbers DEF EvmInv, EvmShape, FirmEvm
<1>2. \A b \in Burns : Burnt(b) => Burnt(b)'
  BY <1>1 DEF Burnt
<1>3. PaidIsBurnt'
  BY <1>2 DEF EvmInv, PaidIsBurnt
<1>4. NothingLeft'
  <2> SUFFICES ASSUME NEW b \in Burns, burntAt'[b] \in 1 .. lastEvm PROVE TxOf(b) \in done
    BY DEF NothingLeft
  <2>1. burntAt'[b] \in 1 .. FirmEvm
    BY <1>1 DEF EvmInv, EvmPosition
  <2> QED
    BY <2>1 DEF EvmInv, NothingLeft
<1>5. EvmPosition'
  <2>1. /\ lastEvm \in Nat
        /\ lastEvm = 0 \/ lastEvm <= FirmEvm'
        /\ ~saved => lastEvm = 0
        /\ events \subseteq Burns /\ \A b \in events : Burnt(b)'
        /\ pc \in {"query", "post", "markBurn"} => item \in events
    BY <1>1, <1>2 DEF EvmInv, EvmPosition
  <2>2. ASSUME pc \in Releasing
        PROVE  /\ upto \in Nat /\ upto <= FirmEvm'
               /\ \A b \in Burns : burntAt'[b] \in lastEvm + 1 .. upto => b \in events \/ TxOf(b) \in done
    <3>1. upto \in Nat /\ upto <= FirmEvm
      BY <2>2 DEF EvmInv, EvmPosition
    <3>2. ASSUME NEW b \in Burns, burntAt'[b] \in lastEvm + 1 .. upto
          PROVE  b \in events \/ TxOf(b) \in done
      <4>1. burntAt'[b] \in 1 .. FirmEvm
        BY <1>1, <2>1, <3>1, <3>2
      <4> QED
        BY <2>2, <3>2, <4>1 DEF EvmInv, EvmPosition
    <3> QED
      BY <1>1, <3>1, <3>2
  <2> QED
    BY <2>1, <2>2 DEF EvmPosition
<1> QED
  BY <1>3, <1>4, <1>5 DEF EvmInv

LEMMA EvmBlockStep ==
  ASSUME EvmInv, NEW B \in SUBSET Burns, EvmBlock(B)
  PROVE  EvmInv'
<1>1. /\ height \in Nat /\ evmTop \in Nat /\ FirmEvm <= height /\ height <= evmTop
      /\ burntAt \in [Burns -> 0 .. height] /\ FirmEvm \in Int
      /\ height < MaxEvmHeight /\ height' = height + 1
      /\ evmTop' = IF height' > evmTop THEN height' ELSE evmTop
      /\ burntAt' = [b \in Burns |-> IF b \in B THEN height' ELSE burntAt[b]]
      /\ \A b \in B : burntAt[b] = 0
  BY Numbers DEF EvmInv, EvmShape, EvmBlock, FirmEvm
<1>2. EvmShape'
  BY <1>1, Numbers DEF EvmShape, FirmEvm
<1>3. FirmEvm <= FirmEvm'
  BY <1>1, Numbers DEF FirmEvm
<1>4. ASSUME NEW b \in Burns
      PROVE  /\ burntAt[b] \in 1 .. FirmEvm => burntAt'[b] = burntAt[b]
             /\ burntAt'[b] \in 1 .. FirmEvm => burntAt'[b] = burntAt[b]
  BY <1>1
<1>5. UNCHANGED <<OnChain, pool, lastEvm, saved, done, pc, item, events, upto>>
  BY DEF EvmBlock, tables, round, OnChain
<1> QED
  BY <1>2, <1>3, <1>4, <1>5, EvmMoves

LEMMA ForkEvmStep ==
  ASSUME EvmInv, ForkEvm
  PROVE  EvmInv'
<1>1. PICK h \in 0 .. height - 1 :
        /\ h >= evmTop - EvmReorg /\ height' = h
        /\ burntAt' = [b \in Burns |-> IF b \in {c \in Burns : burntAt[c] > h} THEN 0 ELSE burntAt[b]]
  BY DEF ForkEvm
<1>2. /\ height \in Nat /\ evmTop \in Nat /\ FirmEvm <= height /\ height <= evmTop
      /\ burntAt \in [Burns -> 0 .. height] /\ FirmEvm \in Int /\ height <= MaxEvmHeight
      /\ evmTop' = evmTop
  BY Numbers DEF EvmInv, EvmShape, ForkEvm, FirmEvm
<1>3. EvmShape'
  BY <1>1, <1>2, Numbers DEF EvmShape, FirmEvm
<1>4. FirmEvm <= FirmEvm' /\ FirmEvm <= h
  BY <1>1, <1>2 DEF FirmEvm
<1>5. ASSUME NEW b \in Burns
      PROVE  /\ burntAt[b] \in 1 .. FirmEvm => burntAt'[b] = burntAt[b]
             /\ burntAt'[b] \in 1 .. FirmEvm => burntAt'[b] = burntAt[b]
  BY <1>1, <1>2, <1>4
<1>6. UNCHANGED <<OnChain, pool, lastEvm, saved, done, pc, item, events, upto>>
  BY DEF ForkEvm, tables, round, OnChain
<1> QED
  BY <1>3, <1>4, <1>5, <1>6, EvmMoves

\* A release reaches the chain from the pool only
LEMMA NodeStep ==
  ASSUME EvmInv, native \in Seq(SUBSET (Deposits \cup Burns)),
         \/ \E S \in SUBSET (Deposits \cup pool) : MineNative(S)
         \/ ForkNative \/ Expire
  PROVE  EvmInv'
<1>1. UNCHANGED <<height, evmTop, burntAt, lastEvm, saved, done, pc, item, events, upto>>
  BY DEF MineNative, ForkNative, Expire, tables, round
<1>2. pool' \subseteq pool /\ pool \subseteq Burns
  BY DEF MineNative, ForkNative, Expire, EvmInv
<1>3. OnChain' \subseteq OnChain \cup Deposits \cup pool
  <2>1. CASE \E S \in SUBSET (Deposits \cup pool) : MineNative(S)
    <3>1. PICK S \in SUBSET (Deposits \cup pool) : native' = Append(native, S)
      BY <2>1 DEF MineNative
    <3> QED
      BY <1>2, <3>1, OnChainGrows
  <2>2. CASE ForkNative
    BY <2>2, OnChainShrinks DEF ForkNative
  <2>3. CASE Expire
    BY <2>3 DEF Expire, OnChain
  <2> QED
    BY <2>1, <2>2, <2>3
<1>4. PaidIsBurnt'
  BY <1>1, <1>2, <1>3, Numbers DEF EvmInv, PaidIsBurnt, Burnt, FirmEvm
<1> QED
  BY <1>1, <1>2, <1>4, EvmKeeps

\* A step that leaves both chains and the pool alone
LEMMA RelayerEvm ==
  ASSUME EvmInv, UNCHANGED <<native, pool, height, evmTop, burntAt, lastEvm, saved>>,
         done \subseteq done',
         \/ UNCHANGED <<pc, item, events, upto>>
         \/ Rest
         \/ UNCHANGED events /\ pc' \notin Releasing
         \/ /\ pc \in Releasing /\ UNCHANGED upto
            /\ events' \subseteq events /\ \A b \in events \ events' : TxOf(b) \in done'
            /\ pc' \in {"query", "post", "markBurn"} => item' \in events'
  PROVE  EvmInv'
<1>1. PaidIsBurnt' /\ pool' \subseteq Burns
  BY DEF EvmInv, PaidIsBurnt, OnChain, Burnt, FirmEvm
<1> QED
  BY <1>1, EvmKeeps

LEMMA MintRoundEvm ==
  ASSUME EvmInv, ReadInfo \/ MintRound \/ SendUnanswered \/ CallFails \/ MintExecuted
  PROVE  EvmInv'
<1>1. UNCHANGED <<native, pool, height, evmTop, burntAt, lastEvm, saved, done>>
  BY DEF ReadInfo, MintRound, ReadBlocks, EndBatch, SaveBlock, SkipMinted, TakeDeposit, Send, Record,
         Wait, MarkMint, SendUnanswered, CallFails, MintExecuted, MintRecorded, MintInFlight,
         MintOrphan, chains, tables
<1>2. CASE MintExecuted
  <2>1. UNCHANGED <<pc, item, events, upto>>
    BY <1>2 DEF MintExecuted, MintRecorded, MintInFlight, MintOrphan, round
  <2> QED
    BY <1>1, <2>1, RelayerEvm
<1>3. CASE EndBatch \/ SendUnanswered \/ CallFails
  BY <1>1, <1>3, RelayerEvm DEF EndBatch, SendUnanswered, CallFails
<1>4. CASE ReadInfo \/ ReadBlocks \/ SaveBlock \/ SkipMinted \/ Send \/ Record \/ MarkMint
  <2>1. UNCHANGED events /\ pc' \notin Releasing
    BY <1>4 DEF ReadInfo, ReadBlocks, SaveBlock, SkipMinted, Send, Record, MarkMint, Releasing
  <2> QED
    BY <1>1, <2>1, RelayerEvm
<1>5. CASE TakeDeposit \/ Wait
  <2>1. Rest \/ (UNCHANGED events /\ pc' \notin Releasing)
    <3>1. CASE TakeDeposit
      <4>1. PICK d : IF NextOfReceipt(row[d]) = "stop" THEN Rest
                     ELSE pc' = NextOfReceipt(row[d]) /\ UNCHANGED events
        BY <3>1 DEF TakeDeposit
      <4>2. NextOfReceipt(row[d]) \in {"stop", "send", "mark"}
        BY DEF NextOfReceipt
      <4> QED
        BY <4>1, <4>2 DEF Releasing
    <3>2. CASE Wait
      BY <3>2 DEF Wait, Releasing, round
    <3> QED
      BY <1>5, <3>1, <3>2
  <2> QED
    BY <1>1, <2>1, RelayerEvm
<1> QED
  BY <1>2, <1>3, <1>4, <1>5 DEF MintRound

\* The burns that are read are final, and all up to the place that is read up to
LEMMA ReadEventsStep ==
  ASSUME EvmInv, EvmFinal, ReadEvents
  PROVE  EvmInv'
<1>1. UNCHANGED <<native, pool, height, evmTop, burntAt, lastEvm, saved, done>>
      /\ pc' = "events" /\ upto' = height - EvmConfirmations /\ upto' > lastEvm
      /\ events' = {b \in Burns : burntAt[b] \in lastEvm + 1 .. upto'}
  BY DEF ReadEvents, chains, tables
<1>2. /\ height \in Nat /\ evmTop \in Nat /\ height <= evmTop /\ lastEvm \in Nat /\ FirmEvm \in Int
      /\ upto' \in Nat /\ upto' <= FirmEvm
  BY <1>1, Numbers DEF EvmInv, EvmShape, EvmPosition, FirmEvm, EvmFinal
<1>3. \A b \in events' : Burnt(b)
  BY <1>1, <1>2 DEF Burnt
<1>4. EvmPosition'
  BY <1>1, <1>2, <1>3 DEF EvmInv, EvmPosition, Burnt, FirmEvm
<1>5. EvmShape' /\ PaidIsBurnt' /\ NothingLeft' /\ pool' \subseteq Burns
  BY <1>1 DEF EvmInv, EvmShape, PaidIsBurnt, NothingLeft, OnChain, Burnt, FirmEvm
<1> QED
  BY <1>4, <1>5 DEF EvmInv

\* The place is noted when every burn up to it is finished
LEMMA SaveEventsStep ==
  ASSUME EvmInv, SaveEvents
  PROVE  EvmInv'
<1>1. UNCHANGED <<native, pool, height, evmTop, burntAt, done>> /\ Rest
      /\ pc = "events" /\ events = {} /\ lastEvm' = upto /\ saved' = TRUE
  BY DEF SaveEvents, chains
<1>2. /\ upto \in Nat /\ upto <= FirmEvm /\ lastEvm \in Nat
      /\ \A b \in Burns : burntAt[b] \in lastEvm + 1 .. upto => TxOf(b) \in done
      /\ burntAt \in [Burns -> 0 .. height] /\ height \in Nat
  BY <1>1 DEF EvmInv, EvmPosition, EvmShape, Releasing
<1>3. EvmPosition'
  BY <1>1, <1>2 DEF EvmPosition, Rest, Releasing, FirmEvm
<1>4. NothingLeft'
  <2> SUFFICES ASSUME NEW b \in Burns, burntAt[b] \in 1 .. upto PROVE TxOf(b) \in done
    BY <1>1 DEF NothingLeft
  <2>1. burntAt[b] \in 1 .. lastEvm \/ burntAt[b] \in lastEvm + 1 .. upto
    BY <1>2
  <2> QED
    BY <1>2, <2>1 DEF EvmInv, NothingLeft
<1>5. EvmShape' /\ PaidIsBurnt' /\ pool' \subseteq Burns
  BY <1>1 DEF EvmInv, EvmShape, PaidIsBurnt, OnChain, Burnt, FirmEvm
<1> QED
  BY <1>3, <1>4, <1>5 DEF EvmInv

\* A release is posted for a burn that was read
LEMMA PostStep ==
  ASSUME EvmInv, Post
  PROVE  EvmInv'
<1>1. UNCHANGED <<native, height, evmTop, burntAt, lastEvm, saved, done>> /\ Rest
      /\ pool' \subseteq pool \cup {item}
  BY DEF Post, tables
<1>2. item \in Burns /\ Burnt(item)
  BY DEF Post, EvmInv, EvmPosition, Releasing
<1>3. PaidIsBurnt' /\ pool' \subseteq Burns
  BY <1>1, <1>2 DEF EvmInv, PaidIsBurnt, OnChain, Burnt, FirmEvm
<1> QED
  BY <1>1, <1>3, EvmKeeps

LEMMA ReleaseEvm ==
  ASSUME EvmInv, SkipDone \/ TakeBurn \/ BalanceUnread \/ Query \/ MarkBurn
  PROVE  EvmInv'
<1>1. UNCHANGED <<native, pool, height, evmTop, burntAt, lastEvm, saved>> /\ done \subseteq done'
  BY DEF SkipDone, TakeBurn, BalanceUnread, Query, MarkBurn, chains, tables
<1>2. \/ Rest
      \/ /\ pc \in Releasing /\ UNCHANGED upto
         /\ events' \subseteq events /\ \A b \in events \ events' : TxOf(b) \in done'
         /\ pc' \in {"query", "post", "markBurn"} => item' \in events'
  <2>1. CASE SkipDone
    BY <2>1 DEF SkipDone, Releasing, tables
  <2>2. CASE TakeBurn \/ BalanceUnread
    BY <2>2 DEF TakeBurn, BalanceUnread, IsNext, Releasing
  <2>3. CASE Query
    BY <2>3 DEF Query, Releasing, round, EvmInv, EvmPosition
  <2>4. CASE MarkBurn
    BY <2>4 DEF MarkBurn, Releasing
  <2> QED
    BY <2>1, <2>2, <2>3, <2>4
<1> QED
  BY <1>1, <1>2, RelayerEvm

\* Before the first range is finished a restart looks back to the first block
LEMMA RestartEvm ==
  ASSUME EvmInv, EarlyStart, Restart
  PROVE  EvmInv'
<1>1. UNCHANGED <<native, pool, height, evmTop, burntAt, saved, done>> /\ Rest
  BY DEF Restart, chains
<1>2. lastEvm' = lastEvm
  BY Numbers DEF EvmInv, EvmShape, EvmPosition, EarlyStart, Restart
<1> QED
  BY <1>1, <1>2, RelayerEvm

\* Every step keeps the EVM side
LEMMA EvmStep ==
  ASSUME EvmInv, EvmFinal, EarlyStart, Names, [Next]_vars
  PROVE  EvmInv'
<1>1. CASE UNCHANGED vars
  BY <1>1, RelayerEvm DEF vars, chains, tables, round
<1>2. CASE \/ \E S \in SUBSET (Deposits \cup pool) : MineNative(S)
           \/ ForkNative \/ Expire
  BY <1>2, NodeStep DEF Names
<1>3. CASE ForkEvm \/ \E B \in SUBSET Burns : EvmBlock(B)
  BY <1>3, ForkEvmStep, EvmBlockStep
<1>4. CASE ReadInfo \/ MintRound \/ SendUnanswered \/ CallFails \/ MintExecuted
  BY <1>4, MintRoundEvm
<1>5. CASE ReadEvents \/ SaveEvents \/ Post \/ Restart
  BY <1>5, ReadEventsStep, SaveEventsStep, PostStep, RestartEvm
<1>6. CASE SkipDone \/ TakeBurn \/ BalanceUnread \/ Query \/ MarkBurn
  BY <1>6, ReleaseEvm
<1> QED
  BY <1>1, <1>2, <1>3, <1>4, <1>5, <1>6 DEF Next, ReleaseRound

------------------------------------------------------------------------
(* The results                                                           *)

\* What the sequences and sets hold
THEOREM NamesKept == Spec => []Names
<1>1. Init => Names
  BY DEF Init, Names
<1>2. Names /\ [Next]_vars => Names'
  <2> SUFFICES ASSUME Names, [Next]_vars PROVE Names'
    OBVIOUS
  <2>1. native' \in Seq(SUBSET (Deposits \cup Burns))
    <3>1. CASE UNCHANGED native
      BY <3>1 DEF Names
    <3>2. CASE \E S \in SUBSET (Deposits \cup pool) : MineNative(S)
      <4>1. PICK S \in SUBSET (Deposits \cup Burns) : native' = Append(native, S)
        BY <3>2 DEF MineNative, Names
      <4> QED
        BY <4>1 DEF Names
    <3>3. CASE ForkNative
      <4>1. PICK l \in 0 .. Len(native) - 1 : native' = SubSeq(native, 1, l)
        BY <3>3 DEF ForkNative
      <4> QED
        BY <4>1 DEF Names
    <3>4. UNCHANGED native \/ ForkNative \/ \E S \in SUBSET (Deposits \cup pool) : MineNative(S)
      BY DEF Next, vars, MintRound, ReleaseRound, MintExecuted, chains, Expire, EvmBlock, ForkEvm,
             MintRecorded, MintInFlight, MintOrphan, ReadInfo, ReadEvents, ReadBlocks, EndBatch,
             SaveBlock, SkipMinted, TakeDeposit, Send, Record, Wait, MarkMint, SaveEvents, SkipDone,
             TakeBurn, Query, Post, MarkBurn, SendUnanswered, BalanceUnread, CallFails, Restart
    <3> QED
      BY <3>1, <3>2, <3>3, <3>4
  <2>2. pool' \subseteq Burns /\ events' \subseteq Burns
        /\ (pc' \in {"query", "post", "markBurn"} => item' \in Burns)
    BY DEF Names, Next, vars, MintRound, ReleaseRound, MintExecuted, chains, round, MineNative,
           ForkNative, Expire, EvmBlock, ForkEvm, MintRecorded, MintInFlight, MintOrphan, ReadInfo,
           ReadEvents, ReadBlocks, EndBatch, SaveBlock, SkipMinted, TakeDeposit, NextOfReceipt, Send,
           Record, Wait, MarkMint, SaveEvents, SkipDone, TakeBurn, IsNext, Query, Post, MarkBurn,
           SendUnanswered, BalanceUnread, CallFails, Restart, Rest
  <2> QED
    BY <2>1, <2>2 DEF Names
<1> QED
  BY <1>1, <1>2, PTL DEF Spec

\* The native side holds initially and every step of the bridge keeps it
THEOREM NativeSide ==
  ASSUME NativeFinal
  PROVE  Spec => []NativeInv
<1>1. Init => NativeInv
  <2> SUFFICES ASSUME Init PROVE NativeInv
    OBVIOUS
  <2>1. /\ native = <<>> /\ batch = <<>> /\ Len(native) = 0 /\ Len(batch) = 0
        /\ native \in Seq(SUBSET (Deposits \cup Burns)) /\ batch \in Seq(SUBSET (Deposits \cup Burns))
    BY DEF Init
  <2>2. NativeShape /\ Position
    BY <2>1, Numbers DEF Init, NativeShape, Position, Firm
  <2> QED
    BY <2>1, <2>2
    DEF Init, NativeInv, BatchIsRead, ItemIsRead, SpentIsSettled, Committed, NothingPassed
<1>2. NativeInv /\ IInv /\ Names /\ [Next]_vars => NativeInv'
  BY NativeStep
<1> QED
  BY <1>1, <1>2, Inductive, NamesKept, PTL DEF Spec

\* The EVM side holds initially and every step of the bridge keeps it
THEOREM EvmSide ==
  ASSUME EvmFinal, EarlyStart
  PROVE  Spec => []EvmInv
<1>1. Init => EvmInv
  <2> SUFFICES ASSUME Init PROVE EvmInv
    OBVIOUS
  <2>1. OnChain = {}
    BY DEF Init, OnChain
  <2>2. EvmShape /\ EvmPosition
    BY Numbers DEF Init, EvmShape, EvmPosition, Releasing, FirmEvm
  <2> QED
    BY <2>1, <2>2 DEF Init, EvmInv, PaidIsBurnt, NothingLeft
<1>2. EvmInv /\ Names /\ [Next]_vars => EvmInv'
  BY EvmStep
<1> QED
  BY <1>1, <1>2, NamesKept, PTL DEF Spec

\* Tokens exist, or are on their way, only for deposits that the native chain holds, as
\* long as no fork is deeper than the confirmations (relayer.py:284).
THEOREM DepositsBacked ==
  ASSUME NativeFinal
  PROVE  Spec => []Backed
<1>1. NativeInv /\ IInv => Backed
  <2> SUFFICES ASSUME NativeInv, IInv, NEW d \in Deposits, paid[d] + Underway(d) > 0
               PROVE  d \in OnChain
    BY DEF Backed
  <2>1. paid[d] \in Nat /\ orphans[d] \in Nat
    BY DEF IInv, Types
  <2>2. Committed(d) \/ (flight = "pending" /\ item = d)
    BY <2>1 DEF Underway, Committed
  <2>3. Settled(d)
    BY <2>2, InProgress DEF NativeInv, SpentIsSettled, ItemIsRead
  <2> QED
    BY <2>3 DEF Settled, OnChain
<1> QED
  BY <1>1, Inductive, NativeSide, PTL

\* Coins are released only for tokens that are burnt, as long as no fork of the EVM is
\* deeper than the confirmations (relayer.py:428).
THEOREM BurnsPaid ==
  ASSUME EvmFinal, EarlyStart
  PROVE  Spec => []PaidForBurn
<1>1. EvmInv => PaidForBurn
  <2> SUFFICES ASSUME EvmInv, NEW b \in (OnChain \cap Burns) \cup pool PROVE burntAt[b] > 0
    BY DEF PaidForBurn
  <2>1. b \in Burns /\ Burnt(b) /\ FirmEvm \in Int
    BY Numbers DEF EvmInv, PaidIsBurnt, EvmShape, FirmEvm
  <2> QED
    BY <2>1 DEF Burnt
<1> QED
  BY <1>1, EvmSide, PTL

\* Neither monitor goes past a deposit or a burn that it has not finished, wherever a mint
\* fails, a release is refused or the process dies (relayer.py:339-344, 457-462).
THEOREM NothingIsPassed ==
  ASSUME NativeFinal, EvmFinal, EarlyStart
  PROVE  Spec => []NothingSkipped
<1>1. NativeInv /\ EvmInv => NothingSkipped
  BY DEF NativeInv, EvmInv, NothingPassed, NothingLeft, NothingSkipped
<1> QED
  BY <1>1, NativeSide, EvmSide, PTL

------------------------------------------------------------------------
(* The types, whatever forks, deaths and failed calls there are          *)

\* What a block of the native chain can hold
Named == Deposits \cup Burns

NativeTypes ==
  /\ native \in Seq(SUBSET Named) /\ top \in Nat /\ Len(native) <= top
  /\ pool \subseteq Burns /\ pool \cap OnChain = {}

EvmTypes ==
  /\ evmTop \in Nat /\ height \in 0 .. evmTop /\ burntAt \in [Burns -> 0 .. height]
  /\ supply \in 0 .. MaxSupply

\* What is in progress belongs to the step of the round.
RoundTypes ==
  /\ lastBlock \in Nat /\ minted \subseteq Deposits
  /\ lastEvm \in Nat /\ saved \in BOOLEAN /\ done \subseteq {TxOf(b) : b \in Burns}
  /\ tip \in Nat /\ batch \in Seq(SUBSET Named) /\ events \subseteq Burns /\ upto \in Nat
  /\ pc \in {"send", "record", "wait", "mark"} =>
       batch # <<>> /\ item \in Head(batch) \cap Deposits
  /\ pc \in {"query", "post", "markBurn"} => item \in events
  /\ pc = "idle" => item = Nothing /\ batch = <<>> /\ events = {}

Shapes == NativeTypes /\ EvmTypes /\ RoundTypes

\* A release in the pool is not in the chain: it left the pool with its block, and one in
\* the chain is not accepted again.
LEMMA NativeTypesStep ==
  ASSUME Shapes, [Next]_vars
  PROVE  NativeTypes'
<1>1. CASE UNCHANGED <<native, top, pool>>
  BY <1>1 DEF Shapes, NativeTypes, OnChain
<1>2. ASSUME NEW S \in SUBSET (Deposits \cup pool), MineNative(S) PROVE NativeTypes'
  <2>1. /\ native \in Seq(SUBSET Named) /\ S \in SUBSET Named /\ top \in Nat
        /\ native' = Append(native, S) /\ pool' = pool \ S /\ pool \subseteq Burns
        /\ pool \cap OnChain = {} /\ Len(native) <= top
        /\ top' = IF Len(native') > top THEN Len(native') ELSE top
    BY <1>2 DEF Shapes, NativeTypes, MineNative, Named
  <2>2. native' \in Seq(SUBSET Named) /\ Len(native') = Len(native) + 1 /\ Len(native) \in Nat
    BY <2>1
  <2>3. top' \in Nat /\ Len(native') <= top'
    BY <2>1, <2>2
  <2>4. OnChain' = OnChain \cup S
    BY <2>1, OnChainGrows DEF Named
  <2>5. QED
    BY <2>1, <2>2, <2>3, <2>4 DEF NativeTypes
<1>3. CASE ForkNative
  <2>1. PICK l \in 0 .. Len(native) - 1 : native' = SubSeq(native, 1, l)
    BY <1>3 DEF ForkNative
  <2>2. /\ native \in Seq(SUBSET Named) /\ top \in Nat /\ Len(native) <= top
        /\ pool \subseteq Burns /\ pool \cap OnChain = {} /\ UNCHANGED <<top, pool>>
    BY <1>3 DEF Shapes, NativeTypes, ForkNative
  <2>3. native' \in Seq(SUBSET Named) /\ Len(native') = l
    BY <2>1, <2>2
  <2>4. OnChain' \subseteq OnChain
    BY <2>1, <2>2, OnChainShrinks DEF Named
  <2>5. QED
    BY <2>2, <2>3, <2>4 DEF NativeTypes
<1>4. CASE Expire
  <2>1. UNCHANGED <<native, top>> /\ pool' \subseteq pool
    BY <1>4 DEF Expire
  <2>2. QED
    BY <2>1 DEF Shapes, NativeTypes, OnChain
<1>5. CASE Post
  <2>1. /\ UNCHANGED <<native, top>> /\ item \in Burns
        /\ pool' = pool \/ (pool' = pool \cup {item} /\ item \notin OnChain)
    BY <1>5 DEF Post, Shapes, RoundTypes
  <2>2. QED
    BY <2>1 DEF Shapes, NativeTypes, OnChain
<1>6. \/ UNCHANGED <<native, top, pool>> \/ ForkNative \/ Expire \/ Post
      \/ \E S \in SUBSET (Deposits \cup pool) : MineNative(S)
  BY DEF Next, vars, MintRound, ReleaseRound, MintExecuted, chains, EvmBlock, ForkEvm,
         MintRecorded, MintInFlight, MintOrphan, ReadInfo, ReadEvents, ReadBlocks, EndBatch,
         SaveBlock, SkipMinted, TakeDeposit, Send, Record, Wait, MarkMint, SaveEvents, SkipDone,
         TakeBurn, Query, MarkBurn, SendUnanswered, BalanceUnread, CallFails, Restart
<1>7. QED
  BY <1>1, <1>2, <1>3, <1>4, <1>5, <1>6

\* A mint stops at the maximum, and a fork that takes burns back leaves room for them.
LEMMA EvmTypesStep ==
  ASSUME Shapes, [Next]_vars
  PROVE  EvmTypes'
<1>1. MaxSupply \in Nat /\ IsFiniteSet(Burns)
  BY RelayerConstants DEF RelayerConstants
<1>2. \A B \in SUBSET Burns : Cardinality(B) \in Nat
  BY <1>1, FS_Subset, FS_CardinalityType
<1>3. /\ evmTop \in Nat /\ height \in 0 .. evmTop /\ burntAt \in [Burns -> 0 .. height]
      /\ supply \in 0 .. MaxSupply
  BY DEF Shapes, EvmTypes
<1>4. CASE UNCHANGED <<height, evmTop, burntAt, supply>>
  BY <1>3, <1>4 DEF EvmTypes
<1>5. ASSUME NEW B \in SUBSET Burns, EvmBlock(B) PROVE EvmTypes'
  <2>1. /\ Cardinality(B) <= supply /\ Cardinality(B) \in Nat /\ supply' = supply - Cardinality(B)
        /\ height' = height + 1 /\ evmTop' = IF height' > evmTop THEN height' ELSE evmTop
        /\ burntAt' = [b \in Burns |-> IF b \in B THEN height' ELSE burntAt[b]]
    BY <1>2, <1>5 DEF EvmBlock
  <2>2. supply' \in 0 .. MaxSupply
    <3> DEFINE n == Cardinality(B)
    <3>1. n \in Nat /\ n <= supply /\ supply' = supply - n
      BY <2>1
    <3> HIDE DEF n
    <3>2. QED
      BY <1>1, <1>3, <3>1
  <2>3. evmTop' \in Nat /\ height' \in 0 .. evmTop'
    BY <1>3, <2>1
  <2>4. burntAt' \in [Burns -> 0 .. height']
    BY <1>3, <2>1
  <2>5. QED
    BY <2>2, <2>3, <2>4 DEF EvmTypes
<1>6. CASE ForkEvm
  <2>1. PICK h \in 0 .. height - 1 :
          LET undone == {b \in Burns : burntAt[b] > h} IN
          /\ supply + Cardinality(undone) <= MaxSupply
          /\ height' = h
          /\ burntAt' = [b \in Burns |-> IF b \in undone THEN 0 ELSE burntAt[b]]
          /\ supply' = supply + Cardinality(undone)
    BY <1>6 DEF ForkEvm
  <2> DEFINE undone == {b \in Burns : burntAt[b] > h}
             n == Cardinality(undone)
  <2>2. n \in Nat
    BY <1>2
  <2>3. supply + n <= MaxSupply /\ supply' = supply + n /\ height' = h
    BY <2>1
  <2>4. burntAt' = [b \in Burns |-> IF burntAt[b] > h THEN 0 ELSE burntAt[b]]
    BY <2>1
  <2>5. evmTop' = evmTop
    BY <1>6 DEF ForkEvm
  <2> HIDE DEF undone, n
  <2>6. supply' \in 0 .. MaxSupply
    BY <1>1, <1>3, <2>2, <2>3
  <2>7. height' \in 0 .. evmTop'
    BY <1>3, <2>3, <2>5
  <2>8. burntAt' \in [Burns -> 0 .. height']
    BY <1>3, <2>3, <2>4
  <2>9. QED
    BY <1>3, <2>5, <2>6, <2>7, <2>8 DEF EvmTypes
<1>7. CASE MintExecuted
  <2>1. PICK d \in Deposits : Execute(d)
    BY <1>7 DEF MintExecuted, MintRecorded, MintInFlight, MintOrphan
  <2>2. UNCHANGED <<height, evmTop, burntAt>>
    BY <1>7 DEF MintExecuted, MintRecorded, MintInFlight, MintOrphan, chains
  <2>3. supply' = supply \/ (supply < MaxSupply /\ supply' = supply + 1)
    BY <2>1 DEF Execute
  <2>4. supply' \in 0 .. MaxSupply
    BY <1>1, <1>3, <2>3
  <2>5. QED
    BY <1>3, <2>2, <2>4 DEF EvmTypes
<1>8. \/ UNCHANGED <<height, evmTop, burntAt, supply>> \/ ForkEvm \/ MintExecuted
      \/ \E B \in SUBSET Burns : EvmBlock(B)
  BY DEF Next, vars, MintRound, ReleaseRound, chains, token, MineNative, ForkNative, Expire,
         ReadInfo, ReadEvents, ReadBlocks, EndBatch, SaveBlock, SkipMinted, TakeDeposit, Send, Record,
         Wait, MarkMint, SaveEvents, SkipDone, TakeBurn, Query, Post, MarkBurn, SendUnanswered,
         BalanceUnread, CallFails, Restart
<1>9. QED
  BY <1>4, <1>5, <1>6, <1>7, <1>8

\* The end of a round
LEMMA RestTypes ==
  ASSUME Shapes, Rest, UNCHANGED <<minted, done>>, lastBlock' \in Nat, lastEvm' \in Nat,
         saved' \in BOOLEAN
  PROVE  RoundTypes'
<1>1. /\ pc' = "idle" /\ tip' = 0 /\ batch' = <<>> /\ item' = Nothing
      /\ events' = {} /\ upto' = 0
  BY DEF Rest
<1>2. batch' \in Seq(SUBSET Named)
  BY <1>1
<1>3. QED
  BY <1>1, <1>2 DEF Shapes, RoundTypes

\* A step of a round that reads, finishes or goes on
LEMMA ReadTypes ==
  ASSUME Shapes, IInv, ReadInfo \/ ReadBlocks \/ SaveBlock \/ ReadEvents
  PROVE  RoundTypes'
<1>1. /\ lastBlock \in Nat /\ lastEvm \in Nat /\ native \in Seq(SUBSET Named) /\ Len(native) \in Nat
      /\ tip \in Nat /\ height \in Nat /\ Limit \in Nat /\ NativeConfirmations \in Nat
      /\ EvmConfirmations \in Nat /\ batch \in Seq(SUBSET Named)
  BY Numbers DEF Shapes, RoundTypes, NativeTypes, EvmTypes
<1>2. CASE ReadInfo
  <2>1. tip' \in Nat
    BY <1>1, <1>2 DEF ReadInfo
  <2>2. QED
    BY <1>2, <2>1 DEF ReadInfo, Shapes, RoundTypes, tables
<1>3. CASE ReadBlocks
  <2> DEFINE m == lastBlock + 1
             n == Least(Len(native), Least(tip, lastBlock + Limit))
  <2>1. batch' = SubSeq(native, m, n) /\ pc' = "scan"
    BY <1>3 DEF ReadBlocks
  <2>2. m \in Nat /\ m >= 1 /\ n \in Nat /\ n <= Len(native)
    <3>1. lastBlock + Limit \in Nat
      BY <1>1
    <3>2. QED
      BY <1>1, <3>1 DEF Least
  <2> HIDE DEF m, n
  <2>3. batch' \in Seq(SUBSET Named)
    BY <1>1, <2>1, <2>2, SubSeqProperties
  <2>4. QED
    BY <1>3, <2>1, <2>3 DEF ReadBlocks, Shapes, RoundTypes, tables
<1>4. CASE SaveBlock
  <2>1. batch' \in Seq(SUBSET Named) /\ lastBlock' \in Nat /\ pc' = "scan"
    BY <1>1, <1>4 DEF SaveBlock
  <2>2. QED
    BY <1>4, <2>1 DEF SaveBlock, Shapes, RoundTypes
<1>5. CASE ReadEvents
  <2>1. upto' \in Nat /\ events' \subseteq Burns /\ pc' = "events"
    BY <1>1, <1>5 DEF ReadEvents
  <2>2. QED
    BY <1>5, <2>1 DEF ReadEvents, Shapes, RoundTypes, tables
<1>6. QED
  BY <1>2, <1>3, <1>4, <1>5

\* A deposit leaves the block that is scanned.
LEMMA MarkTypes ==
  ASSUME Shapes, SkipMinted \/ MarkMint
  PROVE  RoundTypes'
<1>1. PICK d \in Deposits : batch # <<>> /\ batch' = Without(d) /\ minted' \subseteq minted \cup {d}
  BY DEF SkipMinted, MarkMint, tables, Shapes, RoundTypes
<1>2. /\ batch \in Seq(SUBSET Named) /\ Head(batch) \in SUBSET Named
      /\ Tail(batch) \in Seq(SUBSET Named)
  BY <1>1 DEF Shapes, RoundTypes
<1>3. batch' \in Seq(SUBSET Named)
  <2> DEFINE h == <<Head(batch) \ {d}>>
  <2>1. h \in Seq(SUBSET Named)
    BY <1>2
  <2>2. batch' = h \o Tail(batch)
    BY <1>1 DEF Without
  <2> HIDE DEF h
  <2>3. QED
    BY <1>2, <2>1, <2>2
<1>4. pc' = "scan" /\ UNCHANGED <<lastBlock, lastEvm, saved, done, tip, events, upto>>
  BY DEF SkipMinted, MarkMint, tables
<1>5. QED
  BY <1>1, <1>3, <1>4 DEF Shapes, RoundTypes

LEMMA DepositTypes ==
  ASSUME Shapes, TakeDeposit \/ Send \/ Record \/ Wait
  PROVE  RoundTypes'
<1>1. UNCHANGED <<lastBlock, minted, lastEvm, saved, done>>
  BY DEF TakeDeposit, Send, Record, Wait, tables
<1>2. /\ lastBlock' \in Nat /\ lastEvm' \in Nat /\ saved' \in BOOLEAN
  BY <1>1 DEF Shapes, RoundTypes
<1>3. CASE Rest
  BY <1>1, <1>2, <1>3, RestTypes
<1>4. CASE /\ UNCHANGED <<tip, batch, events, upto>> /\ pc' \in {"send", "record", "wait", "mark"}
           /\ batch # <<>> /\ item' \in Head(batch) \cap Deposits
  BY <1>1, <1>4 DEF Shapes, RoundTypes
<1>5. CASE TakeDeposit
  <2>1. PICK d \in (Head(batch) \cap Deposits) \ minted :
          IF NextOfReceipt(row[d]) = "stop" THEN Rest
          ELSE /\ pc' = NextOfReceipt(row[d]) /\ item' = d
               /\ UNCHANGED <<tip, batch, flight, events, upto>>
    BY <1>5 DEF TakeDeposit
  <2>2. NextOfReceipt(row[d]) \in {"stop", "send", "mark"} /\ batch # <<>>
    BY <1>5 DEF NextOfReceipt, TakeDeposit
  <2>3. QED
    BY <1>3, <1>4, <2>1, <2>2
<1>6. CASE Send \/ Record \/ Wait
  BY <1>3, <1>4, <1>6 DEF Send, Record, Wait, round, Shapes, RoundTypes
<1>7. QED
  BY <1>5, <1>6

LEMMA BurnTypes ==
  ASSUME Shapes, SkipDone \/ TakeBurn \/ BalanceUnread \/ Query \/ MarkBurn
  PROVE  RoundTypes'
<1>1. /\ UNCHANGED <<lastBlock, minted, lastEvm, saved>>
      /\ lastBlock' \in Nat /\ lastEvm' \in Nat /\ saved' \in BOOLEAN
  BY DEF SkipDone, TakeBurn, BalanceUnread, Query, MarkBurn, tables, Shapes, RoundTypes
<1>2. done' \subseteq {TxOf(b) : b \in Burns}
  BY DEF SkipDone, TakeBurn, BalanceUnread, Query, MarkBurn, tables, Shapes, RoundTypes
<1>3. \/ Rest /\ UNCHANGED done
      \/ /\ UNCHANGED <<tip, batch, upto>> /\ events' \subseteq events
         /\ pc' \in {"events", "query", "post", "markBurn"}
         /\ pc' \in {"query", "post", "markBurn"} => item' \in events'
  <2>1. CASE SkipDone
    BY <2>1 DEF SkipDone
  <2>2. CASE TakeBurn \/ BalanceUnread
    BY <2>2 DEF TakeBurn, BalanceUnread, IsNext, tables
  <2>3. CASE Query
    BY <2>3 DEF Query, round, tables, Shapes, RoundTypes
  <2>4. CASE MarkBurn
    BY <2>4 DEF MarkBurn
  <2>5. QED
    BY <2>1, <2>2, <2>3, <2>4
<1>4. CASE Rest /\ UNCHANGED done
  BY <1>1, <1>4, RestTypes
<1>5. CASE /\ UNCHANGED <<tip, batch, upto>> /\ events' \subseteq events
           /\ pc' \in {"events", "query", "post", "markBurn"}
           /\ pc' \in {"query", "post", "markBurn"} => item' \in events'
  BY <1>1, <1>2, <1>5 DEF Shapes, RoundTypes
<1>6. QED
  BY <1>3, <1>4, <1>5

\* A round that ends, or a process that starts anew
LEMMA EndTypes ==
  ASSUME Shapes, EndBatch \/ SaveEvents \/ Post \/ CallFails \/ SendUnanswered \/ Restart
  PROVE  RoundTypes'
<1>1. Rest /\ UNCHANGED <<minted, done, lastBlock>>
  BY DEF EndBatch, SaveEvents, Post, CallFails, SendUnanswered, Restart, tables
<1>2. /\ lastBlock \in Nat /\ lastEvm \in Nat /\ upto \in Nat /\ height \in Nat /\ Lookback \in Nat
      /\ saved \in BOOLEAN
  BY Numbers DEF Shapes, RoundTypes, EvmTypes
<1>3. CASE Restart
  <2>1. lastEvm' = (IF saved THEN lastEvm ELSE IF height > Lookback THEN height - Lookback ELSE 0)
        /\ saved' = saved
    BY <1>3 DEF Restart
  <2>2. lastEvm' \in Nat
    BY <1>2, <2>1
  <2>3. QED
    BY <1>1, <1>2, <2>1, <2>2, RestTypes
<1>4. CASE EndBatch \/ SaveEvents \/ Post \/ CallFails \/ SendUnanswered
  <2>1. lastEvm' \in {lastEvm, upto} /\ saved' \in {saved, TRUE}
    BY <1>4 DEF EndBatch, SaveEvents, Post, CallFails, SendUnanswered, tables
  <2>2. lastEvm' \in Nat /\ saved' \in BOOLEAN
    BY <1>2, <2>1
  <2>3. QED
    BY <1>1, <1>2, <2>2, RestTypes
<1>5. QED
  BY <1>3, <1>4

\* relayer.py:66-112. What the two monitors remember and what they are working on, with any
\* forks, deaths and failed calls.
THEOREM ShapesKept == Spec => []Shapes
<1>1. Init => Shapes
  <2> SUFFICES ASSUME Init PROVE Shapes
    OBVIOUS
  <2>1. /\ native = <<>> /\ batch = <<>> /\ Len(native) = 0
        /\ native \in Seq(SUBSET Named) /\ batch \in Seq(SUBSET Named)
    BY DEF Init
  <2>2. StartSupply \in 0 .. MaxSupply
    BY RelayerConstants DEF RelayerConstants
  <2>3. NativeTypes
    BY <2>1 DEF Init, NativeTypes
  <2>4. EvmTypes
    BY <2>2 DEF Init, EvmTypes
  <2>5. RoundTypes
    BY <2>1 DEF Init, RoundTypes
  <2>6. QED
    BY <2>3, <2>4, <2>5 DEF Shapes
<1>2. Shapes /\ IInv /\ [Next]_vars => Shapes'
  <2> SUFFICES ASSUME Shapes, IInv, [Next]_vars PROVE Shapes'
    OBVIOUS
  <2>1. CASE UNCHANGED <<tables, pc, round>>
    <3>1. UNCHANGED <<lastBlock, minted, lastEvm, saved, done, pc, tip, batch, item, events, upto>>
      BY <2>1 DEF tables, round
    <3>2. RoundTypes'
      BY <3>1 DEF Shapes, RoundTypes
    <3>3. QED
      BY <3>2, NativeTypesStep, EvmTypesStep DEF Shapes
  <2>2. CASE MintExecuted
    <3>1. UNCHANGED <<lastBlock, minted, lastEvm, saved, done, pc, tip, batch, item, events, upto>>
      BY <2>2 DEF MintExecuted, MintRecorded, MintInFlight, MintOrphan, tables, round
    <3>2. RoundTypes'
      BY <3>1 DEF Shapes, RoundTypes
    <3>3. QED
      BY <3>2, NativeTypesStep, EvmTypesStep DEF Shapes
  <2>3. CASE \/ ReadInfo \/ ReadEvents \/ MintRound \/ ReleaseRound
             \/ SendUnanswered \/ BalanceUnread \/ CallFails \/ Restart
    <3>1. RoundTypes'
      BY <2>3, ReadTypes, MarkTypes, DepositTypes, BurnTypes, EndTypes DEF MintRound, ReleaseRound
    <3>2. QED
      BY <3>1, NativeTypesStep, EvmTypesStep DEF Shapes
  <2>4. \/ UNCHANGED <<tables, pc, round>> \/ MintExecuted
        \/ ReadInfo \/ ReadEvents \/ MintRound \/ ReleaseRound
        \/ SendUnanswered \/ BalanceUnread \/ CallFails \/ Restart
    BY DEF Next, vars, MineNative, ForkNative, Expire, EvmBlock, ForkEvm
  <2>5. QED
    BY <2>1, <2>2, <2>3, <2>4
<1>3. QED
  BY <1>1, <1>2, Inductive, PTL DEF Spec

\* Every variable has its type, a deposit or burn in progress is one of those that were
\* read, and the supply stays within its maximum (relayer.py:284-563).
THEOREM BridgeIsTyped == Spec => []TypeOK
<1>1. Shapes /\ IInv => TypeOK
  BY DEF Shapes, NativeTypes, EvmTypes, RoundTypes, IInv, Types, FlightIsFresh, TypeOK, Named
<1>2. QED
  BY <1>1, ShapesKept, Inductive, PTL
=============================================================================
