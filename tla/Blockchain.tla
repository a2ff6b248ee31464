----------------------------- MODULE Blockchain -----------------------------
(***************************************************************************)
(* One node's ledger (blockchain/chain.py): the chain in memory, the       *)
(* SQLite database under it, and the four things that change them: a block *)
(* is added, the chain is rolled back, a competing branch replaces its     *)
(* tail, and the process dies and starts again.                            *)
(*                                                                         *)
(* The code runs these on one thread, so no two interleave; what the model *)
(* separates are the commits of the database, because the process may die  *)
(* between any two of them. Adding a block is one commit. A rollback is a  *)
(* commit for the blocks, one for the state, one for a restored snapshot   *)
(* and one for every transaction executed again.                           *)
(*                                                                         *)
(* A block is a record [hash, idx, prev, slot, txs, intact, signed]: hash  *)
(* is a number and determines the block; intact says that the hash and the *)
(* tx_ids match the content, signed that the producer's proof verifies.    *)
(* A transaction is a record [id, op, from, to, amt, fee, lam, target,     *)
(* votes, data, ts, signed, label]; label is the type its signature        *)
(* claims.                                                                 *)
(* Time is counted in slots.                                               *)
(***************************************************************************)
EXTENDS BlockAuth

CONSTANTS
  Genesis,              \* the genesis block, equal on all nodes
  Blocks,               \* the blocks that peers and the miner may offer
  Offers,               \* competing histories: [base, blocks] as received
  CoinbaseActivation,   \* COINBASE_ACTIVATION
  MaxReorg,             \* MAX_REORG_DEPTH, 200
  ProofWindow,          \* VENTANA_PRUEBAS, 260
  SnapEvery,            \* a snapshot every 1000 blocks
  TTL,                  \* a payment's timestamp may be 10 minutes old
  Skew,                 \* and one minute in the future
  FutureSlots,          \* a block's timestamp may be 2 minutes in the future
  NoTs,                 \* a payload without timestamp
  StartClock, MaxClock, \* bounds of the wall clock
  CrashIn,              \* the phases in which the process may die
  MaxDeaths             \* bound of the number of deaths

Phases == {"idle", "snapshot", "clear", "restore", "replay", "extend", "down"}

ASSUME ChainConstants ==
  /\ MaxReorg \in Nat /\ ProofWindow \in Nat \ {0} /\ SnapEvery \in Nat \ {0}
  /\ StartClock \in Nat /\ MaxClock \in Nat /\ MaxDeaths \in Nat
  /\ CrashIn \subseteq Phases \ {"down"}
  /\ Genesis.idx = 0 /\ Genesis.txs = <<>>
  /\ FutureSlots \in Nat
  /\ \A b \in Blocks : IsBlock(b) /\ b.hash \in Nat /\ b.slot \in Nat
  /\ \A o \in Offers : o.base \in Nat /\ o.blocks \in Seq(Blocks \cup {Genesis})

VARIABLES
  chain,        \* RAM: self.chain
  confirmed,    \* RAM: self.confirmed_tx_ids
  registry,     \* RAM: self.validator_registry
  light,        \* RAM: blocks up to this index lost their proofs
  stored,       \* disk: table blocks, from the index to the block
  balances,     \* disk: table balances
  contracts,    \* disk: table contract_state
  snapshots,    \* disk: table snapshots
  phase,        \* where the running operation is
  kept,         \* rollback_to: keep_blocks
  todo,         \* replace_chain: the blocks still to add
  now,          \* the wall clock, in slots
  deaths        \* how often the process died

ram  == <<chain, confirmed, registry, light>>
disk == <<stored, balances, contracts, snapshots>>
job  == <<phase, kept, todo>>
env  == <<now, deaths>>
vars == <<ram, disk, job, env>>

-----------------------------------------------------------------------------
(* Validation, over a node value [chain, confirmed, bal, con, reg]: the live node *)
(* and the staged copy of replace_chain are checked by the same code.       *)

node == [chain |-> chain, confirmed |-> confirmed,
         bal |-> balances, con |-> contracts, reg |-> registry]

StateIn(n) == [ok |-> TRUE, bal |-> n.bal, con |-> n.con, reg |-> n.reg]

SenderIds(b) ==
  {b.txs[i].id : i \in {j \in DOMAIN b.txs : b.txs[j].from # NoAcct}}

Ids(blocks) == UNION {SenderIds(blocks[i]) : i \in DOMAIN blocks}

ProtocolOps == {"VALIDATOR_REGISTER", "VALIDATOR_EXIT", "VALIDATOR_UPDATE",
                "VALIDATOR_GOVERNANCE_EXIT"}

InMoneyRange(tx) == tx.amt >= 0 /\ tx.fee >= 0 /\ tx.amt + tx.fee <= MaxMoney

\* Mutant of RegisterOK: the stake may be sent to anybody
RegisterAnywhere(n, tx, idx) ==
  /\ n.bal[tx.from] >= Stake
  /\ idx >= V2Activation =>
       tx.amt = Stake /\ tx.from \notin DOMAIN n.reg.validators

\* The stake is there and, from V2, goes to the vault, once
RegisterOK(n, tx, idx) ==
  /\ n.bal[tx.from] >= Stake
  /\ idx >= V2Activation =>
       tx.amt = Stake /\ tx.to = Vault /\ tx.from \notin DOMAIN n.reg.validators

ExitOK(n, tx, idx) ==
  idx >= V2Activation =>
    /\ tx.from \in DOMAIN n.reg.validators
    /\ tx.to = Vault /\ tx.amt = 0 /\ tx.fee = 0

\* Operations on the registry: validate_transaction and _check_protocol_op
ProtocolOpOK(n, tx, idx) ==
  idx >= SigActivation =>
    /\ tx.signed
    /\ tx.op = "VALIDATOR_REGISTER" => RegisterOK(n, tx, idx)
    /\ tx.op = "VALIDATOR_EXIT"     => ExitOK(n, tx, idx)

\* The 10 minute replay guard, against the clock of whoever validates
Fresh(tx, t) == tx.ts # NoTs => tx.ts <= t + Skew /\ t <= tx.ts + TTL

ValidTransaction(n, tx, idx, t) ==
  /\ InMoneyRange(tx)
  /\ \/ tx.from = NoAcct /\ tx.amt > 0 /\ tx.fee = 0
     \/ /\ tx.from # NoAcct
        /\ tx.amt = 0 => tx.op \in ProtocolOps \ {"VALIDATOR_REGISTER"}
        /\ \/ tx.op \in ProtocolOps /\ ProtocolOpOK(n, tx, idx)
           \/ /\ tx.op \notin ProtocolOps
              /\ Fresh(tx, t)
              /\ n.bal[tx.from] >= tx.amt + tx.fee
              /\ tx.signed

\* _check_block_coinbase
CoinbaseOK(n, b, t) ==
  LET coinbases == {i \in DOMAIN b.txs : b.txs[i].from = NoAcct}
      cb        == b.txs[1]
      map       == n.reg.validators
  IN /\ Cardinality(coinbases) <= 1
     /\ b.idx >= V2Activation => coinbases # {}
     /\ b.idx >= CoinbaseActivation /\ coinbases # {} =>
          /\ coinbases = {1}
          /\ cb.to \in DOMAIN map
          /\ cb.amt = ExpectedReward(map, b.idx, cb.to)
          /\ b.idx >= V2Activation =>
               /\ b.slot > Last(n.chain).slot
               /\ b.slot <= t + FutureSlots
               /\ ExpectedLeader(n.chain, n.reg, b.slot) = cb.to
               /\ b.signed

\* Mutant of Follows: the parent's hash is not compared
FollowsByIndex(n, b) == b.idx = Last(n.chain).idx + 1

Follows(n, b) == b.idx = Last(n.chain).idx + 1 /\ b.prev = Last(n.chain).hash

NoTwins(b) ==
  \A i, j \in DOMAIN b.txs :
     i # j /\ b.txs[i].from # NoAcct /\ b.txs[j].from # NoAcct =>
       b.txs[i].id # b.txs[j].id

\* Mutant of AllNew: only repetitions within the block are noticed
NewInBlock(n, b) == NoTwins(b)

AllNew(n, b) == NoTwins(b) /\ SenderIds(b) \cap n.confirmed = {}

\* The checks of add_block; full is the negation of skip_zk
Accepts(n, b, t, full) ==
  /\ Follows(n, b)
  /\ b.intact
  /\ AllNew(n, b)
  /\ full => \A i \in DOMAIN b.txs : ValidTransaction(n, b.txs[i], b.idx, t)
  /\ CoinbaseOK(n, b, t)

\* add_block as a whole: the checks hold and every transaction applies
Adds(n, b, t, full) == Accepts(n, b, t, full) /\ ExecBlock(StateIn(n), b).ok

After(n, b) ==
  LET s == ExecBlock(StateIn(n), b)
  IN [chain |-> Append(n.chain, b), confirmed |-> n.confirmed \cup SenderIds(b),
      bal |-> s.bal, con |-> s.con, reg |-> s.reg]

\* validate_zk_only: a signature that is labelled a coinbase's is not read
SignatureOnly(tx) == tx.label = "COINBASE" \/ tx.signed

\* _validate_block_for_reorg: signatures, and no balance of a payment
ReorgValid(n, b, t) ==
  /\ b.intact
  /\ \A i \in DOMAIN b.txs : LET tx == b.txs[i] IN
        /\ InMoneyRange(tx)
        /\ tx.from # NoAcct =>
             IF tx.op \in ProtocolOps THEN ProtocolOpOK(n, tx, b.idx)
             ELSE SignatureOnly(tx)
  /\ CoinbaseOK(n, b, t)

-----------------------------------------------------------------------------
(* Rebuilding: what a rollback and a restart make of the blocks they keep.  *)

Rows(blocks) == [i \in 0 .. Len(blocks) - 1 |-> blocks[i + 1]]

\* Mutant of StoredChain: the last row is read only when it is the first too
StoredButLast ==
  LET rows == Cardinality(DOMAIN stored)
  IN [i \in 1 .. (IF rows = 1 THEN 1 ELSE rows - 1) |-> stored[i - 1]]

\* iter_all_blocks, in the order of the index
StoredChain == [i \in 1 .. Cardinality(DOMAIN stored) |-> stored[i - 1]]

\* The latest snapshot at or below the last of these blocks
LatestSnapshot(blocks) ==
  LET below == {i \in DOMAIN snapshots : i < Len(blocks)}
  IN {i \in below : \A j \in below : j <= i}

\* Mutant of UsableSnapshot: it may belong to another branch
AnySnapshot(blocks) == LatestSnapshot(blocks)

\* It is used if its block is one of them
UsableSnapshot(blocks) ==
  {i \in LatestSnapshot(blocks) : snapshots[i].hash = blocks[i + 1].hash}

\* Where the replay starts: from the snapshot, or from genesis
Base(blocks) ==
  LET usable == UsableSnapshot(blocks)
  IN IF usable = {}
     THEN [chain |-> <<blocks[1]>>, bal |-> NoBalances,
           con |-> NoContracts, reg |-> EmptyRegistry]
     ELSE LET snap == snapshots[CHOOSE i \in usable : TRUE]
          IN [chain |-> SubSeq(blocks, 1, snap.idx + 1),
              bal   |-> snap.bal,
              con   |-> snap.con,
              reg   |-> SeedHistory(snap)]

\* rollback_to from beginning to end, as the staged copy runs it
Rebuilt(blocks) ==
  LET base == Base(blocks)
      s    == FoldLeft(ReplayBlock,
                       [ok |-> TRUE, bal |-> base.bal, con |-> base.con, reg |-> base.reg],
                       SubSeq(blocks, Len(base.chain) + 1, Len(blocks)))
  IN [chain |-> blocks, confirmed |-> Ids(blocks),
      bal |-> s.bal, con |-> s.con, reg |-> s.reg]

\* Mutant of LoadedRegistry: process_tx is called without the block's index
LoadedUndated(blocks) ==
  FoldLeft(LAMBDA r, b : ProcessAll(r, b.txs, 0), EmptyRegistry, blocks)

\* Mutant of LoadedRegistry: the newest block is left out
LoadedButLast(blocks) ==
  FoldLeft(LAMBDA r, b : ProcessAll(r, b.txs, b.idx), EmptyRegistry, Front(blocks))

\* load_chain_from_disk: the registry from process_tx alone, the balances as
\* they are on disk
LoadedRegistry(blocks) ==
  FoldLeft(LAMBDA r, b : ProcessAll(r, b.txs, b.idx), EmptyRegistry, blocks)

\* Mutant of Loaded: the confirmed transactions are not collected
LoadedForgetful ==
  [chain |-> StoredChain, confirmed |-> {},
   bal |-> balances, con |-> contracts, reg |-> LoadedRegistry(StoredChain)]

Loaded ==
  [chain |-> StoredChain, confirmed |-> Ids(StoredChain),
   bal |-> balances, con |-> contracts, reg |-> LoadedRegistry(StoredChain)]

\* The last block index whose proofs are dropped from RAM, given the tip
LightAt(tip) == IF tip > ProofWindow THEN tip - ProofWindow ELSE 0

-----------------------------------------------------------------------------
(* The actions                                                              *)

Tip == Len(chain) - 1

Init ==
  /\ chain = <<Genesis>> /\ stored = Rows(<<Genesis>>)
  /\ confirmed = {} /\ registry = EmptyRegistry /\ light = 0
  /\ balances = NoBalances /\ contracts = NoContracts /\ snapshots = <<>>
  /\ phase = "idle" /\ kept = <<>> /\ todo = <<>>
  /\ now = StartClock /\ deaths = 0

Tick ==
  /\ now < MaxClock
  /\ now' = now + 1
  /\ UNCHANGED <<ram, disk, job, deaths>>

\* The phase that follows when the blocks of rest are still to be added
Then(rest) == IF rest = <<>> THEN "idle" ELSE "extend"

\* The commit of add_block, then the bookkeeping in RAM. The snapshot of every
\* SnapEvery-th block is a commit of its own.
Commit(b, rest) ==
  LET n == After(node, b) IN
  /\ chain' = n.chain /\ confirmed' = n.confirmed
  /\ registry' = n.reg /\ balances' = n.bal /\ contracts' = n.con
  /\ stored' = Put(stored, b.idx, b)
  /\ light' = IF LightAt(b.idx) > light THEN LightAt(b.idx) ELSE light
  /\ phase' = IF b.idx % SnapEvery = 0 THEN "snapshot" ELSE Then(rest)
  /\ todo' = rest
  /\ UNCHANGED <<snapshots, kept, env>>

\* A block from the miner, a NEW_BLOCK or a CHAIN_SEGMENT
AddBlock(b) ==
  /\ phase = "idle"
  /\ Adds(node, b, now, TRUE)
  /\ Commit(b, <<>>)

SaveSnapshot ==
  /\ phase = "snapshot"
  /\ snapshots' = Put(snapshots, Tip, [idx        |-> Tip,
                                       hash       |-> chain[Len(chain)].hash,
                                       bal        |-> balances,
                                       con        |-> contracts,
                                       validators |-> registry.validators,
                                       slashed    |-> registry.slashed])
  /\ phase' = Then(todo)
  /\ UNCHANGED <<ram, stored, balances, contracts, kept, todo, env>>

\* Mutant of StartRollback: one block more than the limit
StartDeepRollback(target, branch) ==
  /\ 0 <= target /\ target < Tip /\ Tip - target <= MaxReorg + 1
  /\ stored' = Restrict(stored, {i \in DOMAIN stored : i <= target})
  /\ kept' = SubSeq(chain, 1, target + 1)
  /\ todo' = branch
  /\ phase' = "clear"
  /\ UNCHANGED <<ram, balances, contracts, snapshots, env>>

\* rollback_to: its guards and its first commit. The blocks of branch are what
\* replace_chain adds afterwards, none in a rollback of the p2p layer.
StartRollback(target, branch) ==
  /\ 0 <= target /\ target < Tip /\ Tip - target <= MaxReorg
  /\ stored' = Restrict(stored, {i \in DOMAIN stored : i <= target})
  /\ kept' = SubSeq(chain, 1, target + 1)
  /\ todo' = branch
  /\ phase' = "clear"
  /\ UNCHANGED <<ram, balances, contracts, snapshots, env>>

Rollback(target) == phase = "idle" /\ StartRollback(target, <<>>)

ClearState ==
  /\ phase = "clear"
  /\ balances' = NoBalances /\ contracts' = NoContracts
  /\ chain' = <<>> /\ registry' = EmptyRegistry
  /\ phase' = "restore"
  /\ UNCHANGED <<confirmed, light, stored, snapshots, kept, todo, env>>

Restore ==
  /\ phase = "restore"
  /\ LET base == Base(kept)
     IN /\ chain' = base.chain /\ balances' = base.bal
        /\ contracts' = base.con /\ registry' = base.reg
  /\ phase' = "replay"
  /\ UNCHANGED <<confirmed, light, stored, snapshots, kept, todo, env>>

\* The next kept block is executed again
Replay ==
  /\ phase = "replay" /\ Len(chain) < Len(kept)
  /\ LET b == kept[Len(chain) + 1]
         s == ReplayBlock(StateIn(node), b)
     IN /\ chain' = Append(chain, b)
        /\ balances' = s.bal /\ contracts' = s.con /\ registry' = s.reg
  /\ UNCHANGED <<confirmed, light, stored, snapshots, job, env>>

\* The kept blocks that had lost their proofs are still without them
FinishRollback ==
  /\ phase = "replay" /\ Len(chain) = Len(kept)
  /\ confirmed' = Ids(chain)
  /\ light' = IF light > Tip THEN Tip ELSE light
  /\ kept' = <<>>
  /\ phase' = Then(todo)
  /\ UNCHANGED <<chain, registry, disk, todo, env>>

-----------------------------------------------------------------------------
(* replace_chain                                                            *)

\* _procesar_full_chain puts the local blocks below base in front
Candidate(offer) == SubSeq(chain, 1, offer.base) \o offer.blocks

\* The longest chain rule; of two equally long ones the smaller last hash
Better(cand) ==
  \/ Len(cand) > Len(chain)
  \/ Len(cand) = Len(chain) /\ Last(cand).hash < Last(chain).hash

\* diverge_at: the number of leading blocks that are the same
CommonLength(cand) ==
  Cardinality({n \in 1 .. Len(chain) :
                 n <= Len(cand) /\ \A i \in 1 .. n : cand[i].hash = chain[i].hash})

\* Every block of the candidate is hashed again, those taken from RAM too: one
\* without its proofs no longer has the hash it carries.
Sound(offer, cand) ==
  /\ cand[1] = Genesis
  /\ \A i \in DOMAIN cand :
        /\ cand[i].idx = i - 1
        /\ i > 1 => cand[i].prev = cand[i - 1].hash /\ cand[i].intact
        /\ 1 < i /\ i <= offer.base => i - 1 > light

\* Mutants of Admits: the block is not applied; its signatures are not checked
AdmitsUnapplied(n, b) == ReorgValid(n, b, now)
AdmitsUnsigned(n, b) == Adds(n, b, now, FALSE)

Admits(n, b) == ReorgValid(n, b, now) /\ Adds(n, b, now, FALSE)

\* The branch on a copy of the database, opened as a restart would open it
StagedAccepts(cand, common) ==
  LET base == IF common = Len(chain) THEN Loaded
              ELSE Rebuilt(SubSeq(StoredChain, 1, common))
      Step(r, b) == IF r.ok /\ Admits(r.n, b)
                    THEN [ok |-> TRUE, n |-> After(r.n, b)]
                    ELSE [r EXCEPT !.ok = FALSE]
  IN FoldLeft(Step, [ok |-> TRUE, n |-> base],
              SubSeq(cand, common + 1, Len(cand))).ok

WithinReorg(cand) == Len(chain) - CommonLength(cand) <= MaxReorg

Adopts(offer) ==
  LET cand == Candidate(offer) IN
  /\ offer.base <= Len(chain)
  /\ Len(cand) > 0
  /\ Better(cand)
  /\ WithinReorg(cand)
  /\ Sound(offer, cand)
  /\ StagedAccepts(cand, CommonLength(cand))

ReplaceChain(offer) ==
  /\ phase = "idle"
  /\ Adopts(offer)
  /\ LET cand   == Candidate(offer)
         common == CommonLength(cand)
         branch == SubSeq(cand, common + 1, Len(cand))
     IN IF common < Len(chain)
        THEN StartRollback(common - 1, branch)
        ELSE /\ todo' = branch
             /\ phase' = Then(branch)
             /\ UNCHANGED <<ram, disk, kept, env>>

ExtendBranch ==
  /\ phase = "extend"
  /\ Adds(node, todo[1], now, FALSE)
  /\ Commit(todo[1], Tail(todo))

\* RuntimeError: the branch stops where the live node refused it
BranchRefused ==
  /\ phase = "extend"
  /\ ~Adds(node, todo[1], now, FALSE)
  /\ phase' = "idle" /\ todo' = <<>>
  /\ UNCHANGED <<ram, disk, kept, env>>

-----------------------------------------------------------------------------
(* Death and restart                                                        *)

Die ==
  /\ deaths < MaxDeaths /\ deaths' = deaths + 1
  /\ phase' = "down" /\ kept' = <<>> /\ todo' = <<>>
  /\ chain' = <<>> /\ confirmed' = {} /\ registry' = EmptyRegistry /\ light' = 0

Crash ==
  /\ phase \in CrashIn
  /\ Die
  /\ UNCHANGED <<disk, now>>

\* Death between the two deletions: each commits by itself
CrashInClear ==
  /\ phase = "clear" /\ "clear" \in CrashIn
  /\ balances' = NoBalances
  /\ Die
  /\ UNCHANGED <<contracts, stored, snapshots, now>>

\* Death after the first m transactions of a block being executed again, or
\* after what the machine does for the next one and before its payment
CrashInReplay(m) ==
  /\ phase = "replay" /\ "replay" \in CrashIn /\ Len(chain) < Len(kept)
  /\ LET b == kept[Len(chain) + 1]
         s == ReplayTxs(StateIn(node), SubSeq(b.txs, 1, m), b.idx)
     IN /\ m < Len(b.txs)
        /\ balances' = s.bal
        /\ contracts' \in {s.con, Execute(s.con, b.txs[m + 1])}
  /\ Die
  /\ UNCHANGED <<stored, snapshots, now>>

Restart ==
  /\ phase = "down"
  /\ chain' = Loaded.chain /\ confirmed' = Loaded.confirmed
  /\ registry' = Loaded.reg
  /\ light' = LightAt(Cardinality(DOMAIN stored) - 1)
  /\ phase' = "idle"
  /\ UNCHANGED <<disk, kept, todo, env>>

MaxTxs == Max({Len(b.txs) : b \in Blocks})

Next ==
  \/ Tick
  \/ \E b \in Blocks : AddBlock(b)
  \/ SaveSnapshot
  \/ \E target \in 0 .. Tip : Rollback(target)
  \/ ClearState \/ Restore \/ Replay \/ FinishRollback
  \/ \E offer \in Offers : ReplaceChain(offer)
  \/ ExtendBranch \/ BranchRefused
  \/ Crash \/ CrashInClear
  \/ \E m \in 0 .. MaxTxs : CrashInReplay(m)
  \/ Restart

Spec == Init /\ [][Next]_vars

=============================================================================
