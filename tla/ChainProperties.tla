-------------------------- MODULE ChainProperties --------------------------
(***************************************************************************)
(* What one node's ledger promises, over the state machine of Blockchain.  *)
(***************************************************************************)
EXTENDS Blockchain

Known == Blocks \cup {Genesis}

Idle == phase = "idle"

\* The ledger the chain in RAM stands for
Executed == StateOf(chain)

Registration(reg) == [validators |-> [v \in DOMAIN reg.validators |->
                                        reg.validators[v].lam],
                      slashed    |-> reg.slashed]

Total(bal) == SumFunction(bal)

\* What a block creates and what it destroys: its coinbase, and the fees of
\* the payments that have a sender
CoinbaseOf(b) ==
  SumFunction([i \in DOMAIN b.txs |->
                 IF b.txs[i].op \in Payments /\ b.txs[i].from = NoAcct
                 THEN b.txs[i].amt ELSE 0])

FeesOf(b) ==
  SumFunction([i \in DOMAIN b.txs |->
                 IF b.txs[i].op \in Payments /\ b.txs[i].from # NoAcct
                 THEN b.txs[i].fee ELSE 0])

SumOver(blocks, Of(_)) == SumFunction([i \in DOMAIN blocks |-> Of(blocks[i])])

-----------------------------------------------------------------------------

\* The state has the shape the code gives it: no balance passes the ceiling of its
\* column, a rollback has blocks to keep, a branch has blocks to add, RAM holds a
\* beginning of the kept blocks while they are executed again, and nothing of it is
\* left when the process is down.
TypeOK ==
  /\ chain \in Seq(Known) /\ kept \in Seq(Known) /\ todo \in Seq(Known)
  /\ \A i \in DOMAIN stored : i \in Nat /\ stored[i] \in Known
  /\ balances \in [Acct -> 0 .. MaxMoney]
  /\ DOMAIN registry.validators \subseteq Acct
  /\ registry.slashed \subseteq Acct
  /\ phase \in Phases
  /\ phase = "extend" => todo # <<>>
  /\ phase \in {"clear", "restore", "replay"} => kept # <<>>
  /\ phase = "replay" => chain # <<>> /\ chain = SubSeq(kept, 1, Len(chain))
  /\ phase = "down" => chain = <<>> /\ confirmed = {} /\ registry = EmptyRegistry
  /\ light \in Nat /\ now \in Nat

\* chain.py:504-524, 596. At every moment, in the middle of a rollback and
\* after a crash too, the table of blocks is a complete chain: contiguous from
\* genesis, every block the successor of the one before it.
StoredIsChain ==
  /\ DOMAIN stored = 0 .. Cardinality(DOMAIN stored) - 1
  /\ 0 \in DOMAIN stored /\ stored[0] = Genesis
  /\ \A i \in DOMAIN stored \ {0} :
        stored[i].idx = i /\ stored[i].prev = stored[i - 1].hash

\* chain.py:504-533, 596-643. Between operations the chain in RAM is the table
\* of blocks, and while a rollback runs the blocks it keeps are.
DiskHoldsChain ==
  /\ phase \in {"idle", "snapshot", "extend"} => stored = Rows(chain)
  /\ phase \in {"clear", "restore", "replay"} => stored = Rows(kept)

\* chain.py:474-488, 645-647. No transaction is in the chain twice, whatever
\* blocks were rolled back, replaced or reloaded in between, and the set that
\* is to prevent it holds exactly the transactions of the chain.
ConfirmedOnce ==
  Idle =>
    /\ confirmed = Ids(chain)
    /\ \A i, j \in DOMAIN chain :
          i < j => SenderIds(chain[i]) \cap SenderIds(chain[j]) = {}

\* chain.py:504-524, 596-643. Between operations the balances and contracts on
\* disk and the registry in RAM are what executing the chain from genesis
\* gives, however the node came to hold that chain.
LedgerIsReplay ==
  Idle => /\ balances = Executed.bal /\ contracts = Executed.con
          /\ Registration(registry) = Registration(Executed.reg)

\* whitepaper.md:234-236, validator_registry.py:239-273. The leader of a slot
\* depends on the chain alone, not on how the node came to hold it.
SameLeader ==
  Idle => \A slot \in Last(chain).slot + 1 .. Last(chain).slot + 2 * EpochSlots :
            ExpectedLeader(chain, registry, slot)
              = ExpectedLeader(chain, Executed.reg, slot)

\* validator_registry.py:239-273. As long as the history that the node holds reaches back
\* to the anchor of a slot, its leader is the chain's, a snapshot in between or not.
RecordedLeaders ==
  Idle => \A slot \in Last(chain).slot + 1 .. Last(chain).slot + 2 * EpochSlots :
            (\E i \in DOMAIN registry.history :
                registry.history[i].at <= Anchor(chain, slot).idx)
            => ExpectedLeader(chain, registry, slot)
                 = ExpectedLeader(chain, Executed.reg, slot)

\* chain.py:199-211, state.py:58-76. The vault holds the stake of every
\* registered validator.
StakeBacked ==
  Idle => balances[Vault] >= Stake * Cardinality(DOMAIN registry.validators)

\* storage.py:104-156, state.py:141-157. Money comes from coinbases and goes to
\* fees, nowhere else.
MoneyAccounted ==
  Idle => Total(balances) = SumOver(chain, CoinbaseOf) - SumOver(chain, FeesOf)

\* validator_registry.py:107-120, 338-356. The exponents of any two validators
\* are at least DMin apart.
ExponentsApart ==
  Idle => LET map == registry.validators IN
          \A v, w \in ActivePairs(map) :
             v # w => Distance(map[v].lam, map[w].lam) >= DMin

\* emission.py:45-64. The validators that declared an exponent share out the
\* axis: they earn one reward between them. Each one that declared none is paid
\* beside them, the n-th part of a reward where n declared one, and not more.
RewardIsSharedOut ==
  Idle => LET map    == registry.validators
              active == ActivePairs(map)
          IN active # {} =>
               /\ SumFunction([v \in active |-> VoronoiFraction(map, v)[1]])
                    = 2 * (LamMax - LamMin)
               /\ \A v \in DOMAIN map \ active :
                    LET share == VoronoiFraction(map, v)
                    IN share[1] * Cardinality(active) <= share[2]

\* chain.py:694-695, 722-723. A branch that the staged copy accepted is
\* accepted, block after block, by the live node.
ValidatedBranchApplies ==
  phase = "extend" => Adds(node, todo[1], now, FALSE)

\* A node that executed the first n blocks from genesis and never reorganised
Witness(n) ==
  LET prefix == SubSeq(chain, 1, n)
      s      == StateOf(prefix)
  IN [chain |-> prefix, confirmed |-> Ids(prefix),
      bal |-> s.bal, con |-> s.con, reg |-> s.reg]

\* chain.py:427-457, 459-544, 697-721. Whichever way a block came in, alone or on
\* a branch whose balances and nonces replace_chain does not check, a node that
\* only ever adds blocks accepts the chain from genesis.
AnyNodeAccepts ==
  Idle => \A n \in 1 .. Len(chain) - 1 : Adds(Witness(n), chain[n + 1], now, TRUE)

\* chain.py:561-578, 670-680. No step of a running node abandons more than
\* MaxReorg blocks, and genesis stays.
BoundedReorg ==
  [][phase # "down" => \A i \in DOMAIN stored :
        i + MaxReorg < Cardinality(DOMAIN stored) =>
          i \in DOMAIN stored' /\ stored'[i] = stored[i]]_vars

\* chain.py:78-91, 657-692. A longer valid branch within the reorg depth is
\* adopted.
LongestChainWins ==
  Idle => \A offer \in Offers :
            LET cand == Candidate(offer) IN
            /\ offer.base <= Len(chain)
            /\ Better(cand)
            /\ WithinReorg(cand)
            /\ cand[1] = Genesis
            /\ \A i \in DOMAIN cand : cand[i].idx = i - 1 /\ cand[i].intact
            /\ \A i \in DOMAIN cand \ {1} : cand[i].prev = cand[i - 1].hash
            /\ StagedAccepts(cand, CommonLength(cand))
            => Adopts(offer)

\* chain.py:226-236, JOIN_NETWORK.md:181. A block that was valid in its own
\* slot is still accepted by a node that holds its parent and sees it later.
HistoryStaysValid ==
  Idle => \A b \in Blocks :
            Adds(node, b, b.slot, TRUE) /\ b.slot <= now => Adds(node, b, now, TRUE)

\* What the node shows of itself: the blocks it has committed to, and the state
\* it answers from, which is none while it is down or rebuilds
AtomicLog ==
  CASE phase \in {"clear", "restore", "replay"} -> kept
    [] phase = "down"                           -> StoredChain
    [] OTHER                                    -> chain

AtomicState ==
  IF phase \in {"clear", "restore", "replay", "down"} THEN [ok |-> FALSE]
  ELSE StateIn(node)

Atomic == INSTANCE AtomicLedger WITH log <- AtomicLog, state <- AtomicState

\* chain.py:504-533, 555-650, 718-723. The node implements AtomicLedger: the
\* log is the table of blocks, and the state is what RAM and disk hold, except
\* while a rollback runs or the process is down.
ImplementsAtomicLedger == Atomic!Ledger
=============================================================================
