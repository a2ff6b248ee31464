---------------------------- MODULE ReplayProofs ----------------------------
(***************************************************************************)
(* The state of a node beside its log of blocks: that balances, contracts  *)
(* and registry are what executing the log from genesis gives, however the *)
(* node came to hold it, proved with TLAPS over the inductive invariant    *)
(* and the block lemmas of LedgerProofs.                                   *)
(***************************************************************************)
EXTENDS LedgerProofs

\* Every block has typed transactions, genesis too.
LEMMA KnownBlock == \A b \in Known : IsBlock(b) /\ b.idx \in Nat
<1>1. IsBlock(Genesis)
  BY ChainConstants DEF ChainConstants, IsBlock, AllTyped
<1>2. QED
  BY <1>1, ChainConstants DEF ChainConstants, Known, IsBlock

-----------------------------------------------------------------------------
(* The shape of the state                                                   *)

IsSnapshot(snap) ==
  InColumn(snap.bal) /\ IsMap(snap.validators) /\ snap.slashed \subseteq Acct

Ledgers ==
  /\ InColumn(balances) /\ IsRegistry(registry)
  /\ \A i \in DOMAIN snapshots : IsSnapshot(snapshots[i])
  /\ light \in Nat /\ now \in Nat

\* A node value holds a ledger state.
LEMMA NodeLedger ==
  ASSUME NEW n, InColumn(n.bal), IsRegistry(n.reg)
  PROVE  IsLedger(StateIn(n))
<1> DEFINE s == StateIn(n)
<1>1. /\ s \in [ok : {TRUE}, bal : {n.bal}, con : {n.con}, reg : {n.reg}]
      /\ s.ok = TRUE /\ s.bal = n.bal /\ s.con = n.con /\ s.reg = n.reg
  BY DEF StateIn
<1> HIDE DEF s
<1>2. IsLedger(s)
  BY <1>1, LedgerFields
<1>3. QED
  BY <1>2 DEF s

LEMMA EmptyIsRegistry == IsRegistry(EmptyRegistry) /\ InColumn(NoBalances)
<1>1. IsLedger(GenesisState) /\ GenesisState.reg = EmptyRegistry /\ GenesisState.bal = NoBalances
  BY GenesisIsLedger DEF GenesisState
<1>2. QED
  BY <1>1, LedgerFields

\* What a snapshot is restored to is a registry.
LEMMA SeedIsRegistry ==
  ASSUME NEW snap, IsSnapshot(snap)
  PROVE  IsRegistry(SeedHistory(snap))
<1> DEFINE old == snap.validators
           map == [v \in DOMAIN old |-> [old[v] EXCEPT !.m3 = FALSE]]
           new == SeedHistory(snap)
<1>1. CASE DOMAIN old = {}
  BY <1>1, EmptyIsRegistry DEF SeedHistory
<1>2. CASE DOMAIN old # {}
  <2>1. IsMap(map)
    BY DEF IsSnapshot, IsMap, Entries
  <2>2. new = [validators |-> map, slashed |-> snap.slashed,
               history |-> <<[at |-> snap.idx, validators |-> map]>>]
    BY <1>2 DEF SeedHistory
  <2> HIDE DEF map
  <2>3. /\ new \in [validators : {map}, slashed : {snap.slashed}, history : {new.history}]
        /\ new.validators = map /\ new.slashed = snap.slashed
    BY <2>2
  <2> HIDE DEF new
  <2>4. IsRegistry(new)
    BY <2>1, <2>3, RegistryFields DEF IsSnapshot
  <2>5. QED
    BY <2>4 DEF new
<1>3. QED
  BY <1>1, <1>2

\* A replay starts from a ledger state.
LEMMA BaseShape ==
  ASSUME NEW s, \A i \in DOMAIN snapshots : IsSnapshot(snapshots[i])
  PROVE  InColumn(Base(s).bal) /\ IsRegistry(Base(s).reg)
<1>1. CASE UsableSnapshot(s) = {}
  BY <1>1, EmptyIsRegistry DEF Base
<1>2. CASE UsableSnapshot(s) # {}
  <2>1. PICK i \in UsableSnapshot(s) :
          Base(s).bal = snapshots[i].bal /\ Base(s).reg = SeedHistory(snapshots[i])
    BY <1>2 DEF Base
  <2>2. i \in DOMAIN snapshots
    BY DEF UsableSnapshot, LatestSnapshot
  <2>3. IsSnapshot(snapshots[i])
    BY <2>2
  <2>4. QED
    BY <2>1, <2>3, SeedIsRegistry DEF IsSnapshot
<1>3. QED
  BY <1>1, <1>2

-----------------------------------------------------------------------------
(* Loading the chain from disk                                              *)

LoadStep(r, b, c) == ProcessAll(r, b.txs, b.idx)

Loading == INSTANCE FoldTheorems WITH Op <- LoadStep

LEMMA LoadedNone == LoadedRegistry(<<>>) = EmptyRegistry
<1>1. LoadedRegistry(<<>>) = Loading!Fold(EmptyRegistry, <<>>, 0)
  BY Zenon DEF LoadedRegistry, LoadStep, Loading!Fold, FoldLeft, Loading!FoldLeft,
               MapThenFoldSet, Loading!MapThenFoldSet, Max, Loading!Max
<1>2. QED
  BY <1>1, Loading!FoldEmpty

LEMMA LoadedMore ==
  ASSUME NEW V, NEW blocks \in Seq(V), NEW n \in Nat, n < Len(blocks)
  PROVE  LoadedRegistry(SubSeq(blocks, 1, n + 1))
           = ProcessAll(LoadedRegistry(SubSeq(blocks, 1, n)),
                        blocks[n + 1].txs, blocks[n + 1].idx)
<1>1. \A t : LoadedRegistry(t) = Loading!Fold(EmptyRegistry, t, 0)
  BY Zenon DEF LoadedRegistry, LoadStep, Loading!Fold, FoldLeft, Loading!FoldLeft,
               MapThenFoldSet, Loading!MapThenFoldSet, Max, Loading!Max
<1>2. LoadedRegistry(SubSeq(blocks, 1, n + 1))
        = LoadStep(LoadedRegistry(SubSeq(blocks, 1, n)), blocks[n + 1], 0)
  BY <1>1, Loading!FoldPrefix
<1>3. QED
  BY <1>2 DEF LoadStep

\* The first blocks of a sequence of blocks.
LEMMA PrefixFacts ==
  ASSUME NEW V, NEW s \in Seq(V)
  PROVE  /\ Len(s) \in Nat /\ SubSeq(s, 1, Len(s)) = s /\ SubSeq(s, 1, 0) = <<>>
         /\ \A n \in 0 .. Len(s) : SubSeq(s, 1, n) \in Seq(V) /\ Len(SubSeq(s, 1, n)) = n
         /\ \A n \in 1 .. Len(s) : s[n] \in V
OBVIOUS

LEMMA LoadedShape ==
  ASSUME NEW blocks \in Seq(Known)
  PROVE  IsRegistry(LoadedRegistry(blocks))
<1> DEFINE At(n) == LoadedRegistry(SubSeq(blocks, 1, n))
           T == {n \in Nat : IsRegistry(At(n))}
<1>1. Len(blocks) \in Nat /\ At(Len(blocks)) = LoadedRegistry(blocks) /\ At(0) = EmptyRegistry
  BY PrefixFacts, LoadedNone
<1>2. ASSUME NEW n \in Nat, n < Len(blocks)
      PROVE  At(n + 1) = ProcessAll(At(n), blocks[n + 1].txs, blocks[n + 1].idx)
  BY <1>2, LoadedMore
<1> HIDE DEF At
<1>3. 0 \in T
  BY <1>1, EmptyIsRegistry
<1>4. ASSUME NEW n \in Nat, n < Len(blocks), n \in T PROVE n + 1 \in T
  <2> DEFINE b == blocks[n + 1]
  <2>1. b \in Known
    <3>1. n + 1 \in 1 .. Len(blocks)
      BY <1>1, <1>4
    <3>2. QED
      BY <3>1, PrefixFacts
  <2>2. At(n + 1) = ProcessAll(At(n), b.txs, b.idx)
    BY <1>2, <1>4
  <2> HIDE DEF b
  <2>3. IsBlock(b) /\ IsRegistry(At(n))
    BY <1>4, <2>1, KnownBlock
  <2>4. IsRegistry(At(n + 1))
    BY <2>2, <2>3, ProcessAllShape DEF IsBlock
  <2>5. QED
    BY <2>4
<1>5. Len(blocks) \in T
  <2> HIDE DEF T
  <2>1. QED
    BY <1>1, <1>3, <1>4, UpTo
<1>6. QED
  BY <1>1, <1>5

-----------------------------------------------------------------------------
(* The shape is kept                                                        *)

\* A snapshot is typed whatever its index and hash are.
LEMMA SnapshotShape ==
  ASSUME NEW bal, InColumn(bal), NEW reg, IsRegistry(reg), NEW con, NEW idx, NEW hash
  PROVE  IsSnapshot([idx |-> idx, hash |-> hash, bal |-> bal, con |-> con,
                     validators |-> reg.validators, slashed |-> reg.slashed])
BY RegistryFields DEF IsSnapshot

LEMMA LightIsNat == \A tip \in Nat : LightAt(tip) \in Nat
BY ChainConstants DEF ChainConstants, LightAt

LEMMA CommitShape ==
  ASSUME Ledgers, NEW b \in Known, NEW rest, Commit(b, rest)
  PROVE  Ledgers'
<1> DEFINE s == ExecBlock(StateIn(node), b)
<1>1. InColumn(node.bal) /\ IsRegistry(node.reg)
  BY DEF node, Ledgers
<1>2. IsLedger(s)
  BY <1>1, NodeLedger, KnownBlock, ExecShape
<1>3. registry' = s.reg /\ balances' = s.bal /\ snapshots' = snapshots /\ now' = now
      /\ light' \in {light, LightAt(b.idx)}
  BY DEF Commit, After, env
<1> HIDE DEF s
<1>4. InColumn(s.bal) /\ IsRegistry(s.reg)
  BY <1>2, LedgerFields
<1>5. LightAt(b.idx) \in Nat
  BY KnownBlock, LightIsNat
<1>6. QED
  BY <1>3, <1>4, <1>5 DEF Ledgers

LEMMA StartRollbackShape ==
  ASSUME Ledgers, NEW target, NEW branch, StartRollback(target, branch)
  PROVE  Ledgers'
BY DEF StartRollback, Ledgers, ram, env

LEMMA LedgersStay ==
  ASSUME Ledgers, balances' = balances, registry' = registry, snapshots' = snapshots,
         light' \in Nat, now' \in Nat
  PROVE  Ledgers'
BY DEF Ledgers

\* Every step keeps the shape of the ledger.
LEMMA LedgersNext == IInv /\ Ledgers /\ [Next]_vars => Ledgers'
<1> SUFFICES ASSUME IInv, Ledgers, [Next]_vars PROVE Ledgers'
  OBVIOUS
<1>0. /\ InColumn(balances) /\ IsRegistry(registry) /\ light \in Nat /\ now \in Nat
      /\ \A i \in DOMAIN snapshots : IsSnapshot(snapshots[i])
      /\ InColumn(node.bal) /\ IsRegistry(node.reg)
  BY DEF Ledgers, node
<1>1. CASE Tick
  <2>1. now' \in Nat
    BY <1>0, <1>1 DEF Tick
  <2>2. QED
    BY <1>0, <1>1, <2>1, LedgersStay DEF Tick, ram, disk
<1>2. ASSUME NEW b \in Blocks, AddBlock(b) PROVE Ledgers'
  BY <1>2, CommitShape DEF AddBlock, Known
<1>3. CASE SaveSnapshot
  <2>1. Tip \in Nat
    <3>1. GoodLog(chain)
      BY <1>3, LogAtHand DEF SaveSnapshot, Running
    <3>2. QED
      BY <3>1, EmptySeq DEF GoodLog, Tip
  <2>2. PICK snap : IsSnapshot(snap) /\ snapshots' = Put(snapshots, Tip, snap)
    BY <1>0, <1>3, SnapshotShape DEF SaveSnapshot
  <2>3. \A i \in DOMAIN snapshots' : IsSnapshot(snapshots'[i])
    BY <1>0, <2>2 DEF Put
  <2>4. balances' = balances /\ registry' = registry /\ light' = light /\ now' = now
    BY <1>3 DEF SaveSnapshot, ram, env
  <2>5. QED
    BY <1>0, <2>3, <2>4 DEF Ledgers
<1>4. ASSUME NEW target \in 0 .. Tip, Rollback(target) PROVE Ledgers'
  BY <1>4, StartRollbackShape DEF Rollback
<1>5. CASE ClearState
  BY <1>0, <1>5, EmptyIsRegistry DEF ClearState, Ledgers, env
<1>6. CASE Restore
  <2>1. InColumn(Base(kept).bal) /\ IsRegistry(Base(kept).reg)
    BY <1>0, BaseShape
  <2>2. /\ balances' = Base(kept).bal /\ registry' = Base(kept).reg
        /\ snapshots' = snapshots /\ light' = light /\ now' = now
    BY <1>6 DEF Restore, env
  <2>3. QED
    BY <1>0, <2>1, <2>2 DEF Ledgers
<1>7. CASE Replay
  <2> DEFINE b == kept[Len(chain) + 1]
             s == ReplayBlock(StateIn(node), b)
  <2>1. b \in Known
    <3>1. /\ chain \in Seq(Known) /\ kept \in Seq(Known)
          /\ Len(chain) \in 1 .. Len(kept) /\ Len(chain) < Len(kept)
      BY <1>7 DEF IInv, Shapes, AtHand, Replay
    <3>2. QED
      BY <3>1
  <2>2. IsLedger(s)
    BY <1>0, <2>1, NodeLedger, KnownBlock, ExecShape
  <2>3. /\ balances' = s.bal /\ registry' = s.reg
        /\ snapshots' = snapshots /\ light' = light /\ now' = now
    BY <1>7 DEF Replay, env
  <2> HIDE DEF s
  <2>4. QED
    BY <1>0, <2>2, <2>3, LedgerFields DEF Ledgers
<1>8. CASE FinishRollback
  <2>1. Tip \in Nat
    BY <1>8, EmptySeq DEF FinishRollback, IInv, Shapes, AtHand, Tip
  <2>2. light' \in Nat
    BY <1>0, <1>8, <2>1 DEF FinishRollback
  <2>3. QED
    BY <1>0, <1>8, <2>2, LedgersStay DEF FinishRollback, disk, env
<1>9. ASSUME NEW offer \in Offers, ReplaceChain(offer) PROVE Ledgers'
  <2> DEFINE cand   == Candidate(offer)
             common == CommonLength(cand)
             branch == SubSeq(cand, common + 1, Len(cand))
  <2>1. CASE common < Len(chain)
    <3>1. StartRollback(common - 1, branch)
      BY <1>9, <2>1 DEF ReplaceChain
    <3> HIDE DEF branch, common
    <3>2. QED
      BY <3>1, StartRollbackShape
  <2>2. CASE ~(common < Len(chain))
    BY <1>0, <1>9, <2>2, LedgersStay DEF ReplaceChain, ram, disk, env
  <2>3. QED
    BY <2>1, <2>2
<1>10. CASE ExtendBranch
  <2>1. todo[1] \in Known
    BY <1>10, HeadTailProperties DEF ExtendBranch, IInv, Shapes, AtHand
  <2>2. QED
    BY <1>10, <2>1, CommitShape DEF ExtendBranch
<1>11. CASE BranchRefused
  BY <1>0, <1>11, LedgersStay DEF BranchRefused, ram, disk, env
<1>12. CASE Crash \/ CrashInClear
  BY <1>0, <1>12, EmptyIsRegistry DEF Crash, CrashInClear, Die, Ledgers, disk
<1>13. ASSUME NEW m \in 0 .. MaxTxs, CrashInReplay(m) PROVE Ledgers'
  <2> DEFINE b == kept[Len(chain) + 1]
             txs == SubSeq(b.txs, 1, m)
             s == ReplayTxs(StateIn(node), txs, b.idx)
  <2>1. b \in Known
    <3>1. /\ chain \in Seq(Known) /\ kept \in Seq(Known)
          /\ Len(chain) \in 1 .. Len(kept) /\ Len(chain) < Len(kept)
      BY <1>13 DEF IInv, Shapes, AtHand, CrashInReplay
    <3>2. QED
      BY <3>1
  <2>2. m < Len(b.txs)
    BY <1>13 DEF CrashInReplay
  <2>3. balances' = s.bal /\ registry' = EmptyRegistry /\ light' = 0
        /\ snapshots' = snapshots /\ now' = now
    BY <1>13 DEF CrashInReplay, Die
  <2> HIDE DEF b
  <2>4. IsBlock(b)
    BY <2>1, KnownBlock
  <2>5. txs \in Seq(Range(b.txs)) /\ AllTyped(txs)
    <3>1. b.txs \in Seq(Range(b.txs)) /\ m \in Nat /\ m < Len(b.txs)
      BY <2>2, <2>4 DEF IsBlock
    <3>2. /\ txs \in Seq(Range(b.txs)) /\ DOMAIN txs \subseteq DOMAIN b.txs
          /\ \A i \in DOMAIN txs : txs[i] = b.txs[i]
      BY <3>1
    <3>3. QED
      BY <2>4, <3>2 DEF IsBlock, AllTyped
  <2> HIDE DEF txs
  <2>6. IsLedger(s)
    BY <1>0, <2>5, NodeLedger, ReplayShape
  <2> HIDE DEF s
  <2>7. QED
    BY <1>0, <2>3, <2>6, EmptyIsRegistry, LedgerFields DEF Ledgers
<1>14. CASE Restart
  <2>1. StoredChain \in Seq(Known) /\ Cardinality(DOMAIN stored) - 1 \in Nat
    <3>1. StoredChain \in Seq(Known) /\ StoredChain # <<>> /\ stored = Rows(StoredChain)
      BY DEF IInv, Table, GoodLog
    <3>2. Cardinality(DOMAIN stored) = Len(StoredChain) /\ Len(StoredChain) \in Nat \ {0}
      BY <3>1, RowsOfLog
    <3>3. QED
      BY <3>1, <3>2
  <2>2. IsRegistry(LoadedRegistry(StoredChain)) /\ LightAt(Cardinality(DOMAIN stored) - 1) \in Nat
    BY <2>1, LoadedShape, LightIsNat
  <2>3. /\ registry' = LoadedRegistry(StoredChain) /\ balances' = balances
        /\ snapshots' = snapshots /\ now' = now
        /\ light' = LightAt(Cardinality(DOMAIN stored) - 1)
    BY <1>14 DEF Restart, Loaded, disk, env
  <2>4. QED
    BY <1>0, <2>2, <2>3 DEF Ledgers
<1>15. CASE UNCHANGED vars
  BY <1>0, <1>15, LedgersStay DEF vars, ram, disk, env
<1>16. QED
  BY <1>1, <1>2, <1>3, <1>4, <1>5, <1>6, <1>7, <1>8, <1>9, <1>10, <1>11, <1>12,
     <1>13, <1>14, <1>15 DEF Next

\* The ledger keeps its shape in every reachable state.
THEOREM ShapeIsKept == Spec => [](IInv /\ Ledgers)
<1>1. Init => Ledgers
  BY EmptyIsRegistry, ChainConstants DEF Init, Ledgers, ChainConstants
<1>2. QED
  BY <1>1, LedgersNext, Inductive, PTL DEF Spec

\* What a death takes away stays away until the restart
Emptied == phase = "down" => chain = <<>> /\ confirmed = {} /\ registry = EmptyRegistry

LEMMA EmptiedNext == Emptied /\ [Next]_vars => Emptied'
<1> SUFFICES ASSUME Emptied, [Next]_vars PROVE Emptied'
  OBVIOUS
<1>1. CASE UNCHANGED vars \/ Tick
  BY <1>1 DEF Emptied, vars, ram, disk, job, env, Tick
<1>2. ASSUME NEW b, NEW rest, Commit(b, rest) PROVE phase' # "down"
  BY <1>2 DEF Commit, Then
<1>3. ASSUME NEW target, NEW branch, StartRollback(target, branch) PROVE phase' # "down"
  BY <1>3 DEF StartRollback
<1>4. CASE (\E b \in Blocks : AddBlock(b)) \/ ExtendBranch
  BY <1>2, <1>4 DEF AddBlock, ExtendBranch, Emptied
<1>5. CASE SaveSnapshot \/ ClearState \/ Restore \/ FinishRollback \/ BranchRefused \/ Restart
  BY <1>5 DEF SaveSnapshot, ClearState, Restore, FinishRollback, BranchRefused, Restart, Then, Emptied
<1>6. CASE \E target \in 0 .. Tip : Rollback(target)
  BY <1>3, <1>6 DEF Rollback, Emptied
<1>7. CASE Replay
  BY <1>7 DEF Replay, job, Emptied
<1>8. CASE \E offer \in Offers : ReplaceChain(offer)
  BY <1>3, <1>8 DEF ReplaceChain, Then, Emptied
<1>9. CASE Crash \/ CrashInClear \/ \E m \in 0 .. MaxTxs : CrashInReplay(m)
  BY <1>9 DEF Crash, CrashInClear, CrashInReplay, Die, Emptied
<1>10. QED
  BY <1>1, <1>4, <1>5, <1>6, <1>7, <1>8, <1>9 DEF Next

\* chain.py:459-650, state.py:37-157. Whatever blocks and branches are offered and
\* wherever the process dies, a rollback interrupted between two of its
\* transactions included, no balance leaves its column, the registry holds
\* accounts only, every operation in progress has its blocks at hand, and a dead
\* process keeps nothing in RAM.
THEOREM StateIsTyped == Spec => []TypeOK
<1>1. IInv /\ Ledgers /\ Emptied => TypeOK
  <2> SUFFICES ASSUME IInv, Ledgers, Emptied PROVE TypeOK
    OBVIOUS
  <2>1. \A i \in DOMAIN stored : i \in Nat /\ stored[i] \in Known
    <3>1. StoredChain \in Seq(Known) /\ StoredChain # <<>> /\ stored = Rows(StoredChain)
      BY DEF IInv, Table, GoodLog
    <3>2. /\ stored \in [0 .. Len(StoredChain) - 1 -> Known]
          /\ Len(StoredChain) \in Nat \ {0}
      BY <3>1, RowsOfLog
    <3>3. QED
      BY <3>2
  <2>2. DOMAIN registry.validators \subseteq Acct /\ registry.slashed \subseteq Acct
    BY RegistryFields DEF Ledgers, IsMap
  <2>3. /\ phase = "extend" => todo # <<>>
        /\ phase \in {"clear", "restore", "replay"} => kept # <<>>
    BY DEF IInv, AtHand, Rebuilds
  <2>4. phase = "replay" => chain # <<>> /\ chain = SubSeq(kept, 1, Len(chain))
    <3> SUFFICES ASSUME phase = "replay" PROVE chain # <<>> /\ chain = SubSeq(kept, 1, Len(chain))
      OBVIOUS
    <3>1. Len(chain) \in 1 .. Len(kept) /\ chain = SubSeq(kept, 1, Len(chain))
      BY DEF IInv, AtHand
    <3>2. Len(<<>>) = 0
      OBVIOUS
    <3>3. QED
      BY <3>1, <3>2
  <2>5. QED
    BY <2>1, <2>2, <2>3, <2>4 DEF IInv, Shapes, Ledgers, InColumn, TypeOK, Emptied
<1>2. Init => Emptied
  BY DEF Init, Emptied
<1>3. QED
  BY <1>1, <1>2, EmptiedNext, ShapeIsKept, PTL DEF Spec

-----------------------------------------------------------------------------
(* Chains that execute                                                      *)

\* Every prefix of the chain executes, and its blocks carry their own hashes
Executable(c) ==
  /\ \A n \in 1 .. Len(c) : StateOf(SubSeq(c, 1, n)).ok
  /\ \A i \in 2 .. Len(c) : c[i].intact

CalmBlocks == \A b \in Known : Calm(b)

\* Two different blocks whose content matches their hash have different hashes
HashIsContent ==
  \A a, b \in Known :
     /\ a = Genesis \/ a.intact
     /\ b = Genesis \/ b.intact
     /\ a.hash = b.hash
     => a = b

\* Executing a chain gives a ledger state and, without votes, the registry that
\* loading the chain gives, with nobody slashed.
LEMMA StateOfShape ==
  ASSUME NEW c \in Seq(Known), c # <<>>, c[1] = Genesis
  PROVE  /\ IsLedger(StateOf(c))
         /\ CalmBlocks => StateOf(c).reg = LoadedRegistry(c) /\ StateOf(c).reg.slashed = {}
<1> DEFINE At(n) == StateOf(SubSeq(c, 1, n))
           Reg(n) == LoadedRegistry(SubSeq(c, 1, n))
           Good(n) == /\ IsLedger(At(n))
                      /\ CalmBlocks => At(n).reg = Reg(n) /\ At(n).reg.slashed = {}
           T == {n \in Nat : n >= 1 => Good(n)}
<1>1. Len(c) \in Nat /\ Len(c) >= 1 /\ At(Len(c)) = StateOf(c) /\ Reg(Len(c)) = LoadedRegistry(c)
  <2>1. Len(c) \in Nat /\ Len(c) >= 1
    BY EmptySeq
  <2>2. SubSeq(c, 1, Len(c)) = c
    BY PrefixFacts
  <2>3. QED
    BY <2>1, <2>2
<1>2. At(1) = GenesisState
  <2>1. 1 \in 0 .. Len(c)
    BY <1>1
  <2>2. Len(SubSeq(c, 1, 1)) = 1
    BY <2>1, PrefixFacts
  <2>3. QED
    BY <2>2, StateOfOne
<1>3. Reg(1) = EmptyRegistry
  <2>1. 0 \in Nat /\ 0 < Len(c) /\ 0 + 1 = 1
    BY <1>1
  <2>2. LoadedRegistry(SubSeq(c, 1, 0 + 1))
          = ProcessAll(LoadedRegistry(SubSeq(c, 1, 0)), c[0 + 1].txs, c[0 + 1].idx)
    BY <2>1, LoadedMore
  <2>3. SubSeq(c, 1, 0) = <<>>
    BY PrefixFacts
  <2>4. Reg(1) = ProcessAll(EmptyRegistry, <<>>, 0)
    BY <2>1, <2>2, <2>3, LoadedNone, ChainConstants DEF ChainConstants
  <2>5. <<>> \in Seq({}) /\ First(0, <<>>) = <<>>
    BY DEF First
  <2>6. ProcessAll(EmptyRegistry, First(0, <<>>), 0) = EmptyRegistry
    BY <2>5, NoneYet
  <2>7. QED
    BY <2>4, <2>5, <2>6
<1>4. ASSUME NEW n \in Nat, n < Len(c), n >= 1
      PROVE  /\ At(n + 1) = ExecBlock(At(n), c[n + 1])
             /\ Reg(n + 1) = ProcessAll(Reg(n), c[n + 1].txs, c[n + 1].idx)
             /\ c[n + 1] \in Known
  <2>1. n \in 1 .. Len(c) - 1 /\ n + 1 \in 1 .. Len(c)
    BY <1>1, <1>4
  <2>2. At(n + 1) = ExecBlock(At(n), c[n + 1])
    BY <2>1, StateOfMore
  <2>3. Reg(n + 1) = ProcessAll(Reg(n), c[n + 1].txs, c[n + 1].idx)
    BY <1>4, LoadedMore
  <2>4. QED
    BY <2>1, <2>2, <2>3, PrefixFacts
<1> HIDE DEF At, Reg
<1>5. 0 \in T
  OBVIOUS
<1>6. Good(1)
  <2>1. GenesisState.reg = EmptyRegistry /\ EmptyRegistry.slashed = {}
    BY DEF GenesisState, EmptyRegistry
  <2>2. QED
    BY <1>2, <1>3, <2>1, GenesisIsLedger
<1>7. ASSUME NEW n \in Nat, n < Len(c), n \in T PROVE n + 1 \in T
  <2>1. CASE n = 0
    BY <1>6, <2>1
  <2>2. CASE n >= 1
    <3> DEFINE b == c[n + 1]
    <3>1. Good(n)
      BY <1>7, <2>2
    <3>2. At(n + 1) = ExecBlock(At(n), b) /\ Reg(n + 1) = ProcessAll(Reg(n), b.txs, b.idx)
          /\ b \in Known
      BY <1>4, <1>7, <2>2
    <3> HIDE DEF b
    <3>3. IsBlock(b) /\ (CalmBlocks => Calm(b))
      BY <3>2, KnownBlock DEF CalmBlocks
    <3>4. IsLedger(At(n + 1))
      BY <3>1, <3>2, <3>3, ExecShape
    <3>5. CalmBlocks => At(n + 1).reg = Reg(n + 1) /\ At(n + 1).reg.slashed = {}
      BY <3>1, <3>2, <3>3, CalmRegistry
    <3>6. Good(n + 1)
      BY <3>4, <3>5
    <3> HIDE DEF Good
    <3>7. QED
      BY <3>6
  <2>3. QED
    BY <1>7, <2>1, <2>2
<1>8. Len(c) \in T
  <2> HIDE DEF T
  <2>1. QED
    BY <1>1, <1>5, <1>7, UpTo
<1>9. Good(Len(c))
  <2> HIDE DEF Good
  <2>1. QED
    BY <1>1, <1>8
<1>10. QED
  BY <1>1, <1>9

\* A chain executes to its end, and so do its prefixes.
LEMMA ExecutableEnd ==
  ASSUME NEW c \in Seq(Known), c # <<>>, Executable(c)
  PROVE  StateOf(c).ok
<1>1. Len(c) \in 1 .. Len(c) /\ SubSeq(c, 1, Len(c)) = c
  BY PrefixFacts, EmptySeq
<1>2. QED
  BY <1>1 DEF Executable

LEMMA ExecutablePrefix ==
  ASSUME NEW c \in Seq(Known), Executable(c), NEW n \in 1 .. Len(c)
  PROVE  Executable(SubSeq(c, 1, n))
<1> DEFINE d == SubSeq(c, 1, n)
<1>1. /\ Len(d) = n /\ Len(c) \in Nat /\ \A i \in 1 .. n : d[i] = c[i]
      /\ \A k \in 1 .. n : SubSeq(d, 1, k) = SubSeq(c, 1, k)
  OBVIOUS
<1> HIDE DEF d
<1>2. Executable(d)
  <2>1. \A k \in 1 .. n : StateOf(SubSeq(c, 1, k)).ok
    BY <1>1 DEF Executable
  <2>2. \A i \in 2 .. n : c[i].intact
    BY <1>1 DEF Executable
  <2>3. \A k \in 1 .. Len(d) : StateOf(SubSeq(d, 1, k)).ok
    BY <1>1, <2>1
  <2>4. \A i \in 2 .. Len(d) : d[i].intact
    BY <1>1, <2>2
  <2>5. QED
    BY <2>3, <2>4 DEF Executable
<1>3. QED
  BY <1>2 DEF d

LEMMA ExecutableAppend ==
  ASSUME NEW c \in Seq(Known), c # <<>>, Executable(c), NEW b \in Known, b.intact,
         ExecBlock(StateOf(c), b).ok
  PROVE  Executable(Append(c, b))
<1> DEFINE d == Append(c, b)
<1>1. /\ Len(d) = Len(c) + 1 /\ Len(c) \in Nat \ {0}
      /\ \A i \in 1 .. Len(c) : d[i] = c[i]
      /\ d[Len(c) + 1] = b /\ SubSeq(d, 1, Len(c) + 1) = d
      /\ \A k \in 1 .. Len(c) : SubSeq(d, 1, k) = SubSeq(c, 1, k)
  BY EmptySeq
<1>2. StateOf(d).ok
  BY StateOfAppend
<1> HIDE DEF d
<1>3. ASSUME NEW n \in 1 .. Len(d) PROVE StateOf(SubSeq(d, 1, n)).ok
  <2>1. CASE n = Len(c) + 1
    BY <1>1, <1>2, <2>1
  <2>2. CASE n # Len(c) + 1
    <3>1. n \in 1 .. Len(c)
      BY <1>1, <2>2
    <3>2. QED
      BY <1>1, <3>1 DEF Executable
  <2>3. QED
    BY <2>1, <2>2
<1>4. ASSUME NEW i \in 2 .. Len(d) PROVE d[i].intact
  <2>1. CASE i = Len(c) + 1
    BY <1>1, <2>1
  <2>2. CASE i # Len(c) + 1
    <3>1. i \in 2 .. Len(c) /\ i \in 1 .. Len(c)
      BY <1>1, <2>2
    <3>2. QED
      BY <1>1, <3>1 DEF Executable
  <2>3. QED
    BY <2>1, <2>2
<1>5. QED
  BY <1>3, <1>4 DEF Executable, d

\* Two chains with the same hash at the same height are the same up to there.
LEMMA SameTip ==
  ASSUME NEW c, GoodLog(c), Executable(c), NEW d, GoodLog(d), Executable(d),
         HashIsContent, NEW n \in 1 .. Len(d), Len(c) = n, c[n].hash = d[n].hash
  PROVE  c = SubSeq(d, 1, n)
<1> DEFINE T == {k \in Nat : k < n => c[n - k] = d[n - k]}
<1>1. c \in Seq(Known) /\ d \in Seq(Known) /\ n \in Nat /\ Len(d) \in Nat
  BY DEF GoodLog
<1>2. \A i \in 1 .. n : /\ c[i] \in Known /\ d[i] \in Known
                        /\ c[i] = Genesis \/ c[i].intact
                        /\ d[i] = Genesis \/ d[i].intact
  <2> SUFFICES ASSUME NEW i \in 1 .. n
               PROVE  /\ c[i] \in Known /\ d[i] \in Known
                      /\ c[i] = Genesis \/ c[i].intact
                      /\ d[i] = Genesis \/ d[i].intact
    OBVIOUS
  <2>1. c[i] \in Known /\ d[i] \in Known
    BY <1>1
  <2>2. i = 1 \/ i \in 2 .. n
    OBVIOUS
  <2>3. QED
    BY <1>1, <2>1, <2>2 DEF GoodLog, Executable
<1>3. \A i \in 1 .. n : c[i].hash = d[i].hash => c[i] = d[i]
  BY <1>2 DEF HashIsContent
<1>4. 0 \in T
  BY <1>1, <1>3
<1>5. ASSUME NEW k \in Nat, k < n, k \in T PROVE k + 1 \in T
  <2> SUFFICES ASSUME k + 1 < n PROVE c[n - (k + 1)] = d[n - (k + 1)]
    OBVIOUS
  <2>1. PICK i \in 2 .. n : i = n - k /\ i - 1 = n - (k + 1) /\ i - 1 \in 1 .. n
    BY <1>1, <1>5
  <2>2. c[i] = d[i]
    BY <1>1, <1>5, <2>1
  <2>3. c[i].prev = c[i - 1].hash /\ d[i].prev = d[i - 1].hash
    BY <1>1, <2>1 DEF GoodLog
  <2>4. c[i - 1] = d[i - 1]
    BY <1>3, <2>1, <2>2, <2>3
  <2>5. QED
    BY <2>1, <2>4
<1>6. ASSUME NEW i \in 1 .. n PROVE c[i] = d[i]
  <2>1. PICK k \in Nat : k = n - i /\ k < n /\ n - k = i
    BY <1>1
  <2>2. k \in T
    <3>1. \A m \in Nat : m < k /\ m \in T => m + 1 \in T
      BY <1>5, <2>1
    <3> HIDE DEF T
    <3>2. QED
      BY <1>4, <3>1, UpTo
  <2>3. QED
    BY <2>1, <2>2
<1>7. /\ Len(SubSeq(d, 1, n)) = n /\ SubSeq(d, 1, n) \in Seq(Known)
      /\ \A i \in 1 .. n : SubSeq(d, 1, n)[i] = d[i]
  BY <1>1
<1>8. QED
  BY <1>1, <1>6, <1>7

\* The history that a chain leaves tells of no block beyond its tip.
LEMMA ChainIsChronicled ==
  ASSUME CalmBlocks, NEW c, GoodLog(c)
  PROVE  Chronicled(StateOf(c).reg, Len(c) - 1)
<1> DEFINE At(n) == StateOf(SubSeq(c, 1, n))
           T == {n \in Nat : n >= 1 /\ n <= Len(c) => Chronicled(At(n).reg, n - 1)}
<1>1. /\ c \in Seq(Known) /\ Len(c) \in Nat /\ Len(c) >= 1 /\ c[1] = Genesis
      /\ \A i \in 2 .. Len(c) : c[i].idx = i - 1
      /\ At(Len(c)) = StateOf(c)
  <2>1. c \in Seq(Known) /\ c # <<>> /\ c[1] = Genesis
        /\ \A i \in 2 .. Len(c) : c[i].idx = i - 1
    BY DEF GoodLog
  <2>2. Len(c) \in Nat /\ Len(c) >= 1
    BY <2>1, EmptySeq
  <2>3. SubSeq(c, 1, Len(c)) = c
    BY <2>1, PrefixFacts
  <2>4. QED
    BY <2>1, <2>2, <2>3
<1>2. \A n \in 1 .. Len(c) : IsLedger(At(n))
  <2> SUFFICES ASSUME NEW n \in 1 .. Len(c) PROVE IsLedger(At(n))
    OBVIOUS
  <2> DEFINE d == SubSeq(c, 1, n)
  <2>0. c \in Seq(Known) /\ Len(c) \in Nat
    BY <1>1
  <2>1. d \in Seq(Known) /\ Len(d) = n /\ d[1] = c[1] /\ d # <<>>
    BY <2>0
  <2> HIDE DEF d
  <2>2. IsLedger(StateOf(d))
    BY <1>1, <2>1, StateOfShape
  <2>3. QED
    BY <2>2 DEF d
<1>3. At(1) = GenesisState
  <2>1. 1 \in 0 .. Len(c)
    BY <1>1
  <2>2. Len(SubSeq(c, 1, 1)) = 1
    BY <1>1, <2>1, PrefixFacts
  <2>3. QED
    BY <2>2, StateOfOne
<1>4. ASSUME NEW n \in Nat, n < Len(c), n >= 1
      PROVE  At(n + 1) = ExecBlock(At(n), c[n + 1])
  <2>1. n \in 1 .. Len(c) - 1
    BY <1>1, <1>4
  <2>2. QED
    BY <1>1, <2>1, StateOfMore
<1>5. Chronicled(GenesisState.reg, 0)
  <2>1. GenesisState.reg.history = <<>> /\ DOMAIN GenesisState.reg.validators = {}
    BY DEF GenesisState, EmptyRegistry, NoValidators
  <2>2. IsHistory(<<>>) /\ DOMAIN <<>> = {}
    BY DEF IsHistory
  <2>3. QED
    BY <2>1, <2>2 DEF Chronicled
<1> HIDE DEF At
<1>6. 0 \in T
  OBVIOUS
<1>7. ASSUME NEW n \in Nat, n < Len(c), n \in T PROVE n + 1 \in T
  <2>1. CASE n = 0
    <3>1. At(n + 1) = GenesisState /\ (n + 1) - 1 = 0
      BY <1>3, <2>1
    <3>2. QED
      BY <1>5, <3>1
  <2>2. CASE n >= 1
    <3> DEFINE b == c[n + 1]
               reg == At(n).reg
    <3>1. n \in 1 .. Len(c) /\ n + 1 \in 1 .. Len(c) /\ n <= Len(c)
          /\ n + 1 \in 2 .. Len(c)
      BY <1>1, <1>7, <2>2
    <3>2. b \in Known /\ b.idx = n
      BY <1>1, <3>1, PrefixFacts
    <3>3. IsLedger(At(n)) /\ Chronicled(reg, n - 1)
      BY <1>2, <1>7, <2>2, <3>1
    <3>4. At(n + 1) = ExecBlock(At(n), b)
      BY <1>4, <1>7, <2>2
    <3> HIDE DEF b
    <3>5. IsBlock(b) /\ Calm(b)
      BY <3>2, KnownBlock DEF CalmBlocks
    <3>6. At(n + 1).reg = ProcessAll(reg, b.txs, n) /\ IsRegistry(reg)
      BY <3>2, <3>3, <3>4, <3>5, CalmRegistry, LedgerFields
    <3> HIDE DEF reg
    <3>7. Chronicled(reg, n)
      BY <3>3 DEF Chronicled
    <3>8. Chronicled(ProcessAll(reg, b.txs, n), n)
      BY <3>5, <3>6, <3>7, ProcessAllChronicled DEF IsBlock, Calm
    <3>9. (n + 1) - 1 = n
      OBVIOUS
    <3>10. QED
      BY <3>6, <3>8, <3>9
  <2>3. QED
    BY <1>7, <2>1, <2>2
<1>8. Len(c) \in T
  <2> HIDE DEF T
  <2>1. QED
    BY <1>1, <1>6, <1>7, UpTo
<1>9. QED
  BY <1>1, <1>8

-----------------------------------------------------------------------------
(* The ledger stands for the chain                                          *)

\* No snapshot ever falls due
Unsnapped == \A b \in Blocks : b.idx % SnapEvery # 0

\* A ledger state is what executing the chain gives: all of it when there are
\* no snapshots, else up to what a snapshot does not save
Stands(s, c) == SameLedger(s, StateOf(c)) /\ (Unsnapped => s = StateOf(c))

\* A snapshot was taken of a chain that executes
IsSnapshotOf(snap, c) ==
  /\ GoodLog(c) /\ Executable(c)
  /\ snap.idx \in Nat /\ Len(c) = snap.idx + 1 /\ Last(c).hash = snap.hash
  /\ snap.bal = StateOf(c).bal /\ snap.con = StateOf(c).con
  /\ LET map == StateOf(c).reg.validators
     IN /\ DOMAIN snap.validators = DOMAIN map
        /\ \A v \in DOMAIN map : snap.validators[v].lam = map[v].lam
  /\ snap.slashed = StateOf(c).reg.slashed

Replayed ==
  /\ Executable(StoredChain)
  /\ phase \in Running \cup {"replay"} => Stands(StateIn(node), chain)
  /\ phase = "down" => /\ balances = StateOf(StoredChain).bal
                       /\ contracts = StateOf(StoredChain).con
  /\ \A i \in DOMAIN snapshots : \E c : IsSnapshotOf(snapshots[i], c)
  /\ Unsnapped => snapshots = <<>> /\ phase # "snapshot"

\* The process does not die in the middle of a rollback
SafeCrashes == CrashIn \subseteq Running

\* A registry seeded from a snapshot is the one of its chain, but for tensors
\* and history.
LEMMA SeedIsAlike ==
  ASSUME CalmBlocks, NEW snap, IsSnapshot(snap), NEW c, IsSnapshotOf(snap, c)
  PROVE  SameRegistry(SeedHistory(snap), StateOf(c).reg)
<1> DEFINE reg == StateOf(c).reg
           old == snap.validators
           map == [v \in DOMAIN old |-> [old[v] EXCEPT !.m3 = FALSE]]
<1>1. reg.slashed = {}
  BY StateOfShape DEF IsSnapshotOf, GoodLog
<1>0. Chronicled(reg, snap.idx) /\ snap.idx \in Nat
  <2>1. /\ Len(c) = snap.idx + 1 /\ snap.idx \in Nat /\ GoodLog(c)
    BY DEF IsSnapshotOf
  <2>2. Len(c) - 1 = snap.idx
    BY <2>1
  <2>3. QED
    BY <2>1, <2>2, ChainIsChronicled
<1> HIDE DEF reg
<1>2. /\ DOMAIN old = DOMAIN reg.validators /\ snap.slashed = reg.slashed
      /\ \A v \in DOMAIN reg.validators : old[v].lam = reg.validators[v].lam
  BY DEF IsSnapshotOf, reg
<1>3. CASE DOMAIN old = {}
  <2>1. SeedHistory(snap) = EmptyRegistry
    BY <1>3 DEF SeedHistory
  <2>2. EmptyRegistry.slashed = {} /\ DOMAIN EmptyRegistry.validators = {}
    BY DEF EmptyRegistry, NoValidators
  <2>3. SameRecord(EmptyRegistry, reg)
    BY <1>0, EmptyRecord DEF Chronicled
  <2>4. SameRegistry(EmptyRegistry, reg)
    BY <1>1, <1>2, <1>3, <2>2, <2>3 DEF SameRegistry
  <2>5. QED
    BY <2>1, <2>4 DEF reg
<1>4. CASE DOMAIN old # {}
  <2>1. SeedHistory(snap).validators = map /\ SeedHistory(snap).slashed = snap.slashed
    BY <1>4 DEF SeedHistory
  <2>2. \A v \in DOMAIN old : map[v].lam = old[v].lam
    BY DEF IsSnapshot, IsMap, Entries
  <2>3. DOMAIN map = DOMAIN old
    OBVIOUS
  <2>4. SameMap(map, reg.validators) /\ DOMAIN map # {}
    BY <1>2, <1>4, <2>2, <2>3 DEF SameMap
  <2>5. SeedHistory(snap).history = <<[at |-> snap.idx, validators |-> map]>>
    BY <1>4 DEF SeedHistory
  <2> HIDE DEF map
  <2>6. SameRecord(SeedHistory(snap), reg)
    BY <1>0, <2>4, <2>5, SeedRecord
  <2>7. SameRegistry(SeedHistory(snap), reg)
    BY <1>2, <2>1, <2>4, <2>6 DEF SameRegistry, SameMap
  <2>8. QED
    BY <2>7 DEF reg
<1>5. QED
  BY <1>3, <1>4

\* A chain of one block stands for the state of genesis.
LEMMA GenesisStands ==
  ASSUME NEW c, Len(c) = 1
  PROVE  Stands([ok |-> TRUE, bal |-> NoBalances, con |-> NoContracts,
                 reg |-> EmptyRegistry], c)
<1>1. IsHistory(EmptyRegistry.history)
  <2>1. IsHistory(<<>>)
    BY DEF IsHistory
  <2>2. QED
    BY <2>1 DEF EmptyRegistry
<1>2. SameRecord(EmptyRegistry, EmptyRegistry)
  BY <1>1, EmptyRecord
<1> DEFINE g == [ok |-> TRUE, bal |-> NoBalances, con |-> NoContracts, reg |-> EmptyRegistry]
<1>3. StateOf(c) = g
  BY StateOfOne DEF GenesisState
<1>4. g.reg = EmptyRegistry
  OBVIOUS
<1> HIDE DEF g
<1>5. SameLedger(g, g)
  BY <1>2, <1>4 DEF SameLedger, SameRegistry
<1>6. QED
  BY <1>3, <1>5 DEF Stands, g

\* What a rollback restores stands for the prefix it starts from.
LEMMA BaseStands ==
  ASSUME CalmBlocks, HashIsContent \/ Unsnapped,
         NEW s, GoodLog(s), Executable(s), SnapshotRows,
         \A i \in DOMAIN snapshots : IsSnapshot(snapshots[i]),
         \A i \in DOMAIN snapshots : \E c : IsSnapshotOf(snapshots[i], c),
         Unsnapped => snapshots = <<>>
  PROVE  Stands([ok |-> TRUE, bal |-> Base(s).bal, con |-> Base(s).con,
                 reg |-> Base(s).reg], Base(s).chain)
<1>1. s \in Seq(Known) /\ s # <<>>
  BY DEF GoodLog
<1>2. CASE UsableSnapshot(s) = {}
  <2>1. /\ Base(s).chain = <<s[1]>> /\ Base(s).bal = NoBalances
        /\ Base(s).con = NoContracts /\ Base(s).reg = EmptyRegistry
    BY <1>2 DEF Base
  <2>2. Len(<<s[1]>>) = 1
    OBVIOUS
  <2>3. QED
    BY <2>1, <2>2, GenesisStands
<1>3. CASE UsableSnapshot(s) # {}
  <2>1. PICK i \in UsableSnapshot(s) :
          /\ Base(s).chain = SubSeq(s, 1, snapshots[i].idx + 1)
          /\ Base(s).bal = snapshots[i].bal /\ Base(s).con = snapshots[i].con
          /\ Base(s).reg = SeedHistory(snapshots[i])
    BY <1>3 DEF Base
  <2> DEFINE snap == snapshots[i]
  <2>2. /\ i \in DOMAIN snapshots /\ i < Len(s) /\ i \in Nat /\ snap.idx = i
        /\ snap.hash = s[i + 1].hash
    BY <2>1 DEF UsableSnapshot, LatestSnapshot, SnapshotRows
  <2>3. PICK c : IsSnapshotOf(snap, c)
    BY <2>2
  <2>4. ~Unsnapped
    BY <2>2
  <2>5. IsSnapshot(snap)
    BY <2>2
  <2>6. /\ Base(s).chain = SubSeq(s, 1, i + 1) /\ Base(s).bal = snap.bal
        /\ Base(s).con = snap.con /\ Base(s).reg = SeedHistory(snap)
    BY <2>1, <2>2
  <2> HIDE DEF snap
  <2>7. c = SubSeq(s, 1, i + 1)
    <3>1. i + 1 \in 1 .. Len(s)
      BY <1>1, <2>2
    <3>2. GoodLog(c) /\ Executable(c) /\ Len(c) = i + 1 /\ Last(c).hash = snap.hash
      BY <2>2, <2>3 DEF IsSnapshotOf
    <3>3. c[i + 1].hash = s[i + 1].hash
      BY <2>2, <3>2 DEF Last
    <3>4. HashIsContent
      BY <2>4
    <3>5. QED
      BY <3>1, <3>2, <3>3, <3>4, SameTip
  <2>8. SameRegistry(SeedHistory(snap), StateOf(c).reg)
    BY <2>3, <2>5, SeedIsAlike
  <2>9. /\ snap.bal = StateOf(c).bal /\ snap.con = StateOf(c).con
        /\ StateOf(c).ok
    <3>1. c \in Seq(Known) /\ c # <<>> /\ Executable(c)
      BY <2>3 DEF IsSnapshotOf, GoodLog
    <3>2. StateOf(c).ok
      BY <3>1, ExecutableEnd
    <3>3. QED
      BY <2>3, <3>2 DEF IsSnapshotOf
  <2>10. StateOf(c).ok = TRUE
    <3>1. IsLedger(StateOf(c))
      BY <2>3, StateOfShape DEF IsSnapshotOf, GoodLog
    <3>2. QED
      BY <2>9, <3>1, LedgerFields
  <2>11. QED
    BY <2>4, <2>6, <2>7, <2>8, <2>9, <2>10 DEF Stands, SameLedger
<1>4. QED
  BY <1>2, <1>3

-----------------------------------------------------------------------------
(* The ledger keeps standing for the chain                                  *)

\* A ledger state that nothing refused, put together again from its parts.
LEMMA Whole ==
  ASSUME NEW s, IsLedger(s), s.ok
  PROVE  s = [ok |-> TRUE, bal |-> s.bal, con |-> s.con, reg |-> s.reg]
<1>1. s \in [ok : {s.ok}, bal : {s.bal}, con : {s.con}, reg : {s.reg}] /\ s.ok \in BOOLEAN
  BY LedgerFields
<1>2. s.ok = TRUE
  BY <1>1
<1>3. QED
  BY <1>1, <1>2

\* A ledger that stands for a chain stands for it with one block more.
LEMMA OneMore ==
  ASSUME CalmBlocks, NEW c \in Seq(Known), c # <<>>, c[1] = Genesis, NEW b \in Known,
         NEW s, IsLedger(s), Stands(s, c)
  PROVE  /\ Stands(ExecBlock(s, b), Append(c, b))
         /\ ExecBlock(s, b).ok = ExecBlock(StateOf(c), b).ok
<1>1. IsBlock(b) /\ Calm(b) /\ IsLedger(StateOf(c))
  BY KnownBlock, StateOfShape DEF CalmBlocks
<1>2. SameLedger(ExecBlock(s, b), ExecBlock(StateOf(c), b))
  BY <1>1, ExecAlike DEF Stands
<1>3. StateOf(Append(c, b)) = ExecBlock(StateOf(c), b)
  BY StateOfAppend
<1>4. QED
  BY <1>2, <1>3 DEF Stands, SameLedger

LEMMA SameLedgerReflexive ==
  ASSUME CalmBlocks, NEW c, GoodLog(c)
  PROVE  Stands(StateOf(c), c)
<1>1. IsHistory(StateOf(c).reg.history)
  BY ChainIsChronicled DEF Chronicled
<1>2. SameRecord(StateOf(c).reg, StateOf(c).reg)
  BY <1>1 DEF SameRecord, SameMap
<1>3. QED
  BY <1>2 DEF Stands, SameLedger, SameRegistry

RInv == IInv /\ Ledgers /\ Replayed

\* A step that leaves the snapshots alone.
LEMMA StandsNext ==
  ASSUME Replayed, snapshots' = snapshots, Executable(StoredChain'),
         phase' \in Running \cup {"replay"}, phase' # "snapshot" \/ ~Unsnapped,
         Stands([ok |-> TRUE, bal |-> balances', con |-> contracts', reg |-> registry'],
                chain')
  PROVE  Replayed'
BY DEF Replayed, StateIn, node, Running

LEMMA HeldLedger ==
  ASSUME RInv
  PROVE  /\ StateIn(node) = [ok |-> TRUE, bal |-> balances, con |-> contracts,
                             reg |-> registry]
         /\ IsLedger(StateIn(node))
<1>1. InColumn(node.bal) /\ IsRegistry(node.reg)
  BY DEF RInv, Ledgers, node
<1>2. IsLedger(StateIn(node))
  BY <1>1, NodeLedger
<1>3. QED
  BY <1>2 DEF StateIn, node

LEMMA CommitStands ==
  ASSUME RInv, CalmBlocks, phase \in {"idle", "extend"}, IInv',
         NEW b \in Known, NEW rest \in Seq(Known), NEW full,
         Adds(node, b, now, full), Commit(b, rest)
  PROVE  Replayed'
<1> DEFINE s == ExecBlock(StateIn(node), b)
<1>1. /\ chain \in Seq(Known) /\ chain # <<>> /\ chain[1] = Genesis
      /\ StoredChain = chain /\ Executable(chain) /\ Stands(StateIn(node), chain)
  BY LogAtHand DEF RInv, Replayed, Running, GoodLog
<1>2. b.intact /\ s.ok /\ Follows(node, b)
  BY DEF Adds, Accepts
<1>3. IsLedger(s)
  BY HeldLedger, KnownBlock, ExecShape
<1>4. Stands(s, Append(chain, b)) /\ ExecBlock(StateOf(chain), b).ok
  BY <1>1, <1>2, HeldLedger, OneMore
<1>5. /\ balances' = s.bal /\ contracts' = s.con /\ registry' = s.reg
      /\ chain' = Append(chain, b) /\ snapshots' = snapshots
      /\ phase' = IF b.idx % SnapEvery = 0 THEN "snapshot" ELSE Then(rest)
  BY DEF Commit, After, node
<1> HIDE DEF s
<1>6. s = [ok |-> TRUE, bal |-> s.bal, con |-> s.con, reg |-> s.reg]
  BY <1>2, <1>3, Whole
<1>7. phase' \in Running /\ (phase' = "snapshot" => b.idx % SnapEvery = 0)
  BY <1>5, ThenExtend DEF Running
<1>8. b \in Blocks
  <2>1. b.idx = Last(chain).idx + 1
    BY <1>2 DEF Follows, node
  <2>2. Last(chain).idx \in Nat
    <3>1. Last(chain) \in Known
      BY <1>1, EmptySeq DEF Last
    <3>2. QED
      BY <3>1, KnownBlock
  <2>3. b.idx # 0
    BY <2>1, <2>2
  <2>4. QED
    BY <2>3, ChainConstants DEF ChainConstants, Known
<1>9. phase' # "snapshot" \/ ~Unsnapped
  BY <1>7, <1>8 DEF Unsnapped
<1>10. StoredChain' = chain'
  <2>1. chain' \in Seq(Known) /\ chain' # <<>> /\ stored' = Rows(chain')
    BY <1>1, <1>5, <1>7 DEF IInv, DiskHoldsChain, Running
  <2>2. QED
    BY <2>1, ReadBackNext
<1>11. Executable(StoredChain')
  BY <1>1, <1>2, <1>4, <1>5, <1>10, ExecutableAppend
<1>12. QED
  BY <1>4, <1>5, <1>6, <1>7, <1>9, <1>11, StandsNext DEF RInv

LEMMA SaveSnapshotStands ==
  ASSUME RInv, SaveSnapshot
  PROVE  Replayed'
<1>1. /\ GoodLog(chain) /\ StoredChain = chain /\ Executable(chain)
      /\ Stands(StateIn(node), chain) /\ phase = "snapshot" /\ ~Unsnapped
  BY LogAtHand DEF RInv, SaveSnapshot, Replayed, Running
<1> DEFINE snap == [idx |-> Tip, hash |-> chain[Len(chain)].hash, bal |-> balances,
                    con |-> contracts, validators |-> registry.validators,
                    slashed |-> registry.slashed]
<1>2. /\ snapshots' = Put(snapshots, Tip, snap) /\ phase' = Then(todo)
      /\ chain' = chain /\ registry' = registry /\ stored' = stored
      /\ balances' = balances /\ contracts' = contracts
  BY DEF SaveSnapshot, ram
<1>3. IsSnapshotOf(snap, chain)
  <2>1. SameLedger(StateIn(node), StateOf(chain))
    BY <1>1 DEF Stands
  <2>2. /\ balances = StateOf(chain).bal /\ contracts = StateOf(chain).con
        /\ SameRegistry(registry, StateOf(chain).reg)
    BY <2>1, HeldLedger DEF SameLedger
  <2>3. Tip \in Nat /\ Len(chain) = Tip + 1 /\ Last(chain).hash = chain[Len(chain)].hash
    BY <1>1, EmptySeq DEF Tip, Last, GoodLog
  <2>4. /\ snap.idx = Tip /\ snap.hash = chain[Len(chain)].hash
        /\ snap.bal = balances /\ snap.con = contracts
        /\ snap.validators = registry.validators /\ snap.slashed = registry.slashed
    OBVIOUS
  <2> HIDE DEF snap
  <2>5. QED
    BY <1>1, <2>2, <2>3, <2>4 DEF IsSnapshotOf, SameRegistry
<1> HIDE DEF snap
<1>4. \A i \in DOMAIN snapshots' : \E c : IsSnapshotOf(snapshots'[i], c)
  <2> SUFFICES ASSUME NEW i \in DOMAIN snapshots'
               PROVE  \E c : IsSnapshotOf(snapshots'[i], c)
    OBVIOUS
  <2>1. CASE i = Tip
    BY <1>2, <1>3, <2>1 DEF Put
  <2>2. CASE i # Tip
    <3>1. i \in DOMAIN snapshots /\ snapshots'[i] = snapshots[i]
      BY <1>2, <2>2 DEF Put
    <3>2. QED
      BY <3>1 DEF RInv, Replayed
  <2>3. QED
    BY <2>1, <2>2
<1>5. phase' \in {"idle", "extend"} /\ StoredChain' = StoredChain
  BY <1>2, ThenExtend DEF StoredChain
<1>6. Stands([ok |-> TRUE, bal |-> balances', con |-> contracts', reg |-> registry'],
             chain')
  BY <1>1, <1>2, HeldLedger
<1>7. QED
  BY <1>1, <1>4, <1>5, <1>6 DEF RInv, Replayed, StateIn, node

LEMMA StartRollbackStands ==
  ASSUME RInv, phase = "idle", NEW target \in Int, NEW branch,
         StartRollback(target, branch), IInv'
  PROVE  Replayed'
<1>1. GoodLog(chain) /\ StoredChain = chain /\ Executable(chain)
  BY LogAtHand DEF RInv, Replayed, Running
<1>2. target + 1 \in 1 .. Len(chain)
  BY <1>1, EmptySeq DEF StartRollback, Tip, GoodLog
<1>3. /\ kept' = SubSeq(chain, 1, target + 1) /\ phase' = "clear"
      /\ snapshots' = snapshots
  BY DEF StartRollback
<1>4. StoredChain' = kept'
  <2>1. kept' \in Seq(Known) /\ kept' # <<>> /\ stored' = Rows(kept')
    BY <1>3 DEF IInv, Shapes, AtHand, Rebuilds, DiskHoldsChain
  <2>2. QED
    BY <2>1, ReadBackNext
<1>5. Executable(StoredChain')
  BY <1>1, <1>2, <1>3, <1>4, ExecutablePrefix DEF GoodLog
<1>6. QED
  BY <1>3, <1>5 DEF RInv, Replayed, Running

LEMMA ClearStateStands ==
  ASSUME RInv, ClearState
  PROVE  Replayed'
<1>1. /\ phase' = "restore" /\ snapshots' = snapshots /\ StoredChain' = StoredChain
  BY DEF ClearState, StoredChain
<1>2. QED
  BY <1>1 DEF RInv, Replayed, Running

LEMMA RestoreStands ==
  ASSUME RInv, CalmBlocks, HashIsContent \/ Unsnapped, Restore
  PROVE  Replayed'
<1>1. /\ chain' = Base(kept).chain /\ balances' = Base(kept).bal
      /\ contracts' = Base(kept).con /\ registry' = Base(kept).reg
      /\ phase = "restore" /\ phase' = "replay"
      /\ stored' = stored /\ snapshots' = snapshots
  BY DEF Restore
<1>2. StoredChain = kept /\ GoodLog(kept) /\ StoredChain' = StoredChain
  BY <1>1, LogAtHand DEF RInv, Rebuilds, StoredChain
<1>3. /\ Executable(kept) /\ SnapshotRows
      /\ \A i \in DOMAIN snapshots : IsSnapshot(snapshots[i])
      /\ \A i \in DOMAIN snapshots : \E c : IsSnapshotOf(snapshots[i], c)
      /\ (Unsnapped => snapshots = <<>>)
  BY <1>2 DEF RInv, IInv, Ledgers, Replayed
<1>4. Stands([ok |-> TRUE, bal |-> Base(kept).bal, con |-> Base(kept).con,
              reg |-> Base(kept).reg], Base(kept).chain)
  BY <1>2, <1>3, BaseStands
<1>5. QED
  BY <1>1, <1>2, <1>3, <1>4, StandsNext DEF RInv, Running

\* A kept block is executed again as it was executed the first time.
LEMMA ReplayStands ==
  ASSUME RInv, CalmBlocks, Replay
  PROVE  Replayed'
<1> DEFINE n == Len(chain)
           b == kept[n + 1]
           s == ReplayBlock(StateIn(node), b)
<1>1. /\ phase = "replay" /\ phase' = "replay" /\ n < Len(kept)
      /\ chain' = Append(chain, b) /\ balances' = s.bal /\ contracts' = s.con
      /\ registry' = s.reg /\ stored' = stored /\ snapshots' = snapshots
  BY DEF Replay, job
<1>2. /\ StoredChain = kept /\ GoodLog(kept) /\ StoredChain' = StoredChain
      /\ n \in 1 .. Len(kept) /\ chain = SubSeq(kept, 1, n) /\ chain \in Seq(Known)
      /\ Executable(kept) /\ Stands(StateIn(node), chain)
  BY <1>1, LogAtHand DEF RInv, Rebuilds, StoredChain, IInv, AtHand, Shapes, Replayed
<1>3. /\ n \in 1 .. Len(kept) - 1 /\ n + 1 \in 1 .. Len(kept) /\ b \in Known
      /\ chain # <<>> /\ chain[1] = Genesis /\ Append(chain, b) = SubSeq(kept, 1, n + 1)
      /\ Len(kept) \in Nat /\ kept \in Seq(Known) /\ kept # <<>> /\ kept[1] = Genesis
  BY <1>1, <1>2 DEF GoodLog
<1>4. ExecBlock(StateOf(chain), b).ok
  <2>1. StateOf(Append(chain, b)).ok
    BY <1>2, <1>3 DEF Executable
  <2>2. StateOf(Append(chain, b)) = ExecBlock(StateOf(chain), b)
    BY <1>2, <1>3, StateOfAppend
  <2>3. QED
    BY <2>1, <2>2
<1>5. IsBlock(b) /\ Calm(b)
  BY <1>3, KnownBlock DEF CalmBlocks
<1> DEFINE e == ExecBlock(StateIn(node), b)
<1>6. Stands(e, Append(chain, b)) /\ e.ok
  <2> DEFINE held == StateIn(node)
  <2>0. IsLedger(held) /\ Stands(held, chain) /\ b \in Known
    BY <1>2, <1>3, HeldLedger
  <2> HIDE DEF held, b
  <2>1. /\ Stands(ExecBlock(held, b), Append(chain, b))
        /\ ExecBlock(held, b).ok = ExecBlock(StateOf(chain), b).ok
    BY <1>2, <1>3, <2>0, OneMore
  <2>2. QED
    BY <1>4, <2>1 DEF held
<1>7. s = e
  BY <1>5, <1>6, HeldLedger, ReplayIsExec
<1>8. IsLedger(e)
  BY <1>5, HeldLedger, ExecShape
<1> HIDE DEF e, s, b
<1>9. e = [ok |-> TRUE, bal |-> e.bal, con |-> e.con, reg |-> e.reg]
  BY <1>6, <1>8, Whole
<1>10. Stands([ok |-> TRUE, bal |-> balances', con |-> contracts', reg |-> registry'],
              chain')
  BY <1>1, <1>6, <1>7, <1>9
<1>11. Executable(StoredChain')
  BY <1>2
<1>12. QED
  BY <1>1, <1>10, <1>11, StandsNext DEF RInv

LEMMA FinishRollbackStands ==
  ASSUME RInv, FinishRollback
  PROVE  Replayed'
<1>1. /\ phase = "replay" /\ phase' = Then(todo) /\ stored' = stored
      /\ chain' = chain /\ registry' = registry /\ balances' = balances
      /\ contracts' = contracts /\ snapshots' = snapshots
  BY DEF FinishRollback, disk
<1>2. Stands(StateIn(node), chain) /\ Executable(StoredChain) /\ StoredChain' = StoredChain
  BY <1>1 DEF RInv, Replayed, StoredChain
<1>3. phase' \in Running /\ phase' # "snapshot"
  BY <1>1, ThenExtend DEF Running
<1>4. Stands([ok |-> TRUE, bal |-> balances', con |-> contracts', reg |-> registry'],
             chain')
  BY <1>1, <1>2, HeldLedger
<1>5. QED
  BY <1>1, <1>2, <1>3, <1>4, StandsNext DEF RInv

\* A step between two operations that touches neither RAM nor disk.
LEMMA StillStands ==
  ASSUME RInv, UNCHANGED <<ram, disk>>, phase \in {"idle", "extend"},
         phase' \in {"idle", "extend"}
  PROVE  Replayed'
<1>1. /\ stored' = stored /\ chain' = chain /\ registry' = registry
      /\ balances' = balances /\ contracts' = contracts /\ snapshots' = snapshots
  BY DEF ram, disk
<1>2. Stands(StateIn(node), chain) /\ Executable(StoredChain) /\ StoredChain' = StoredChain
  BY <1>1 DEF RInv, Replayed, Running, StoredChain
<1>3. Stands([ok |-> TRUE, bal |-> balances', con |-> contracts', reg |-> registry'],
             chain')
  BY <1>1, <1>2, HeldLedger
<1>4. QED
  BY <1>1, <1>2, <1>3, StandsNext DEF RInv, Running

LEMMA ReplaceChainStands ==
  ASSUME RInv, NEW offer \in Offers, ReplaceChain(offer), IInv'
  PROVE  Replayed'
<1> DEFINE cand   == Candidate(offer)
           common == CommonLength(cand)
           branch == SubSeq(cand, common + 1, Len(cand))
<1>1. common \in Nat /\ phase = "idle"
  BY CandidateShape DEF ReplaceChain, Adopts, RInv, IInv, Shapes
<1>2. CASE common < Len(chain)
  <2>1. StartRollback(common - 1, branch)
    BY <1>2 DEF ReplaceChain
  <2>2. QED
    BY <1>1, <2>1, StartRollbackStands
<1>3. CASE ~(common < Len(chain))
  <2>1. phase' = Then(branch) /\ UNCHANGED <<ram, disk>>
    BY <1>3 DEF ReplaceChain
  <2>2. phase' \in {"idle", "extend"}
    BY <2>1, ThenExtend
  <2>3. QED
    BY <1>1, <2>1, <2>2, StillStands
<1>4. QED
  BY <1>2, <1>3

\* Dying between two operations leaves the state of the table on disk.
LEMMA CrashStands ==
  ASSUME RInv, SafeCrashes, Crash
  PROVE  Replayed'
<1>1. /\ phase \in Running /\ phase' = "down" /\ stored' = stored
      /\ balances' = balances /\ contracts' = contracts /\ snapshots' = snapshots
  BY DEF Crash, Die, SafeCrashes, disk
<1>2. /\ Stands(StateIn(node), chain) /\ StoredChain = chain /\ StoredChain' = StoredChain
      /\ Executable(StoredChain)
  BY <1>1, LogAtHand DEF RInv, Replayed, StoredChain
<1>3. balances = StateOf(chain).bal /\ contracts = StateOf(chain).con
  BY <1>2, HeldLedger DEF Stands, SameLedger
<1>4. /\ Executable(StoredChain')
      /\ phase' \notin Running \cup {"replay"} /\ phase' # "snapshot"
      /\ balances' = StateOf(StoredChain').bal /\ contracts' = StateOf(StoredChain').con
  BY <1>1, <1>2, <1>3 DEF Running
<1>5. QED
  BY <1>1, <1>4 DEF RInv, Replayed

\* What a restart loads is what executing the table gives.
LEMMA RestartStands ==
  ASSUME RInv, CalmBlocks, Restart
  PROVE  Replayed'
<1> DEFINE s == StateOf(StoredChain)
<1>1. /\ chain' = StoredChain /\ registry' = LoadedRegistry(StoredChain)
      /\ phase = "down" /\ phase' = "idle" /\ stored' = stored
      /\ balances' = balances /\ contracts' = contracts /\ snapshots' = snapshots
  BY DEF Restart, Loaded, disk
<1>2. /\ GoodLog(StoredChain) /\ Executable(StoredChain) /\ StoredChain' = StoredChain
      /\ balances = s.bal /\ contracts = s.con
  BY <1>1 DEF RInv, IInv, Table, Replayed, StoredChain
<1>3. /\ StoredChain \in Seq(Known) /\ StoredChain # <<>> /\ StoredChain[1] = Genesis
  BY <1>2 DEF GoodLog
<1>4. s.ok /\ IsLedger(s) /\ s.reg = LoadedRegistry(StoredChain)
  BY <1>2, <1>3, ExecutableEnd, StateOfShape
<1>5. Stands(s, StoredChain)
  BY <1>2, SameLedgerReflexive
<1> HIDE DEF s
<1>6. s = [ok |-> TRUE, bal |-> s.bal, con |-> s.con, reg |-> s.reg]
  BY <1>4, Whole
<1>7. Stands([ok |-> TRUE, bal |-> balances', con |-> contracts', reg |-> registry'],
             chain')
  BY <1>1, <1>2, <1>4, <1>5, <1>6
<1>8. QED
  BY <1>1, <1>2, <1>7, StandsNext DEF RInv, Running

LEMMA InitStands == Init => Replayed
<1> SUFFICES ASSUME Init PROVE Replayed
  OBVIOUS
<1> DEFINE s == <<Genesis>>
<1>1. s \in Seq(Known) /\ s # <<>> /\ Len(s) = 1 /\ SubSeq(s, 1, 1) = s
  <2>1. s \in Seq(Known) /\ s # <<>> /\ Len(s) = 1
    BY DEF Known
  <2> HIDE DEF s
  <2>2. QED
    BY <2>1, PrefixFacts
<1>2. StoredChain = s
  BY <1>1, ReadBack DEF Init
<1>3. StateOf(s).ok
  BY <1>1, StateOfOne DEF GenesisState
<1>4. Executable(s)
  <2>1. \A n \in 1 .. Len(s) : n = 1
    BY <1>1
  <2>2. \A n \in 2 .. Len(s) : FALSE
    BY <1>1
  <2> HIDE DEF s
  <2>3. QED
    BY <1>1, <1>3, <2>1, <2>2 DEF Executable
<1>5. Stands(StateIn(node), chain)
  BY <1>1, GenesisStands DEF Init, StateIn, node
<1>6. QED
  BY <1>2, <1>4, <1>5 DEF Init, Replayed, Running

LEMMA RNext ==
  ASSUME CalmBlocks, HashIsContent \/ Unsnapped, SafeCrashes
  PROVE  RInv /\ [Next]_vars => RInv'
<1> SUFFICES ASSUME RInv, [Next]_vars PROVE RInv'
  OBVIOUS
<1>0. IInv' /\ Ledgers' /\ IInv
  BY NextKeeps, LedgersNext DEF RInv
<1> SUFFICES Replayed'
  BY <1>0 DEF RInv
<1>1. ASSUME UNCHANGED <<ram, disk, job>> PROVE Replayed'
  <2>1. /\ StoredChain' = StoredChain /\ StateIn(node)' = StateIn(node) /\ phase' = phase
        /\ chain' = chain /\ balances' = balances /\ contracts' = contracts
        /\ snapshots' = snapshots
    BY <1>1 DEF ram, disk, job, StoredChain, StateIn, node
  <2>2. QED
    BY <2>1 DEF RInv, Replayed
<1>2. CASE Tick
  BY <1>1, <1>2 DEF Tick
<1>3. ASSUME NEW b \in Blocks, AddBlock(b) PROVE Replayed'
  <2>1. b \in Known /\ <<>> \in Seq(Known)
    BY DEF Known
  <2>2. phase = "idle" /\ Adds(node, b, now, TRUE) /\ Commit(b, <<>>)
    BY <1>3 DEF AddBlock
  <2>3. QED
    BY <1>0, <2>1, <2>2, CommitStands
<1>4. CASE SaveSnapshot
  BY <1>4, SaveSnapshotStands
<1>5. ASSUME NEW target \in 0 .. Tip, Rollback(target) PROVE Replayed'
  <2>1. target \in Int /\ phase = "idle" /\ StartRollback(target, <<>>)
    BY <1>5 DEF Rollback
  <2>2. QED
    BY <1>0, <2>1, StartRollbackStands
<1>6. CASE ClearState
  BY <1>6, ClearStateStands
<1>7. CASE Restore
  BY <1>7, RestoreStands
<1>8. CASE Replay
  BY <1>8, ReplayStands
<1>9. CASE FinishRollback
  BY <1>9, FinishRollbackStands
<1>10. ASSUME NEW offer \in Offers, ReplaceChain(offer) PROVE Replayed'
  BY <1>0, <1>10, ReplaceChainStands
<1>11. CASE ExtendBranch
  <2>1. phase = "extend" /\ todo \in Seq(Known) /\ todo # <<>>
    BY <1>0, <1>11 DEF ExtendBranch, IInv, Shapes, AtHand
  <2>2. todo[1] \in Known /\ Tail(todo) \in Seq(Known)
    BY <2>1, HeadTailProperties
  <2>3. Adds(node, todo[1], now, FALSE) /\ Commit(todo[1], Tail(todo))
    BY <1>11 DEF ExtendBranch
  <2>4. QED
    BY <1>0, <2>1, <2>2, <2>3, CommitStands
<1>12. CASE BranchRefused
  BY <1>12, StillStands DEF BranchRefused
<1>13. CASE Crash
  BY <1>13, CrashStands
<1>14. ASSUME NEW m \in 0 .. MaxTxs, CrashInReplay(m) PROVE Replayed'
  <2>1. "replay" \in CrashIn
    BY <1>14 DEF CrashInReplay
  <2>2. QED
    BY <2>1 DEF SafeCrashes, Running
<1>15. CASE CrashInClear
  BY <1>15 DEF CrashInClear, SafeCrashes, Running
<1>16. CASE Restart
  BY <1>16, RestartStands
<1>17. CASE UNCHANGED vars
  BY <1>1, <1>17 DEF vars
<1>18. QED
  BY <1>2, <1>3, <1>4, <1>5, <1>6, <1>7, <1>8, <1>9, <1>10, <1>11, <1>12, <1>13,
     <1>14, <1>15, <1>16, <1>17 DEF Next

-----------------------------------------------------------------------------
(* The theorems about the ledger                                            *)

LEMMA LedgerIsHeld ==
  ASSUME CalmBlocks, HashIsContent \/ Unsnapped, SafeCrashes
  PROVE  Spec => []RInv
<1>1. Init => RInv
  BY InitKeeps, InitStands, EmptyIsRegistry, ChainConstants
     DEF RInv, Init, Ledgers, ChainConstants
<1>2. QED
  BY <1>1, RNext, PTL DEF Spec

\* chain.py:504-524, 596-643. Whatever blocks and branches arrive and wherever the
\* process dies between two operations, balances, contracts and registration
\* are those of executing the chain: when no block carries a governance exit or
\* a slashing, blocks are told apart by their hashes, and no rollback is cut
\* short.
THEOREM LedgerIsTheChains ==
  ASSUME CalmBlocks, HashIsContent, SafeCrashes
  PROVE  Spec => []LedgerIsReplay
<1>1. RInv => LedgerIsReplay
  <2> SUFFICES ASSUME RInv, Idle PROVE LedgerIsReplay
    BY DEF LedgerIsReplay
  <2>1. SameLedger(StateIn(node), StateOf(chain))
    BY DEF RInv, Replayed, Running, Idle, Stands
  <2>2. balances = Executed.bal /\ contracts = Executed.con
        /\ SameRegistry(registry, Executed.reg)
    BY <2>1, HeldLedger DEF SameLedger, Executed
  <2>3. Registration(registry) = Registration(Executed.reg)
    BY <2>2 DEF SameRegistry, Registration
  <2>4. QED
    BY <2>2, <2>3 DEF LedgerIsReplay
<1>2. QED
  BY <1>1, LedgerIsHeld, PTL

LEMMA AnchorIsKnown ==
  ASSUME NEW blocks \in Seq(Known), blocks # <<>>, NEW slot
  PROVE  Anchor(blocks, slot) \in Known
<1> DEFINE before == {i \in DOMAIN blocks : blocks[i].slot < Cutoff(slot)}
<1>1. /\ Len(blocks) \in Nat /\ DOMAIN blocks = 1 .. Len(blocks)
      /\ 1 \in DOMAIN blocks /\ \A i \in DOMAIN blocks : blocks[i] \in Known
  BY EmptySeq
<1>2. Anchor(blocks, slot) = IF before = {} THEN blocks[1] ELSE blocks[Max(before)]
  BY DEF Anchor
<1>3. before \in SUBSET (1 .. Len(blocks))
  BY <1>1
<1> HIDE DEF before
<1>4. before # {} => Max(before) \in DOMAIN blocks
  BY <1>1, <1>3, Applying!LargestPosition DEF Max, Applying!Max
<1>5. QED
  BY <1>1, <1>2, <1>4

\* An election asks of the candidates no more than who they are and their exponents.
LEMMA LeaderAlike ==
  ASSUME NEW blocks, NEW slot, NEW q, NEW r,
         SameMap(ValidatorsAt(q, Anchor(blocks, slot).idx),
                 ValidatorsAt(r, Anchor(blocks, slot).idx))
  PROVE  ExpectedLeader(blocks, q, slot) = ExpectedLeader(blocks, r, slot)
<1> DEFINE map   == Candidates(blocks, q, slot)
           other == Candidates(blocks, r, slot)
           target == ElectionLambda(Anchor(blocks, slot).hash, slot)
           near(f, v, w) ==
              \/ Distance(LambdaFixed(f, v), target) < Distance(LambdaFixed(f, w), target)
              \/ /\ Distance(LambdaFixed(f, v), target) = Distance(LambdaFixed(f, w), target)
                 /\ HashRank[v] < HashRank[w]
           Wins(f, v) == \A w \in DOMAIN f \ {v} : near(f, v, w)
<1>1. DOMAIN map = DOMAIN other /\ \A v \in DOMAIN map : map[v].lam = other[v].lam
  BY DEF SameMap, Candidates, Restrict
<1>2. ExpectedLeader(blocks, q, slot)
        = IF DOMAIN map = {} THEN NoAcct
          ELSE CHOOSE v \in DOMAIN map : Wins(map, v)
  BY DEF ExpectedLeader
<1>3. ExpectedLeader(blocks, r, slot)
        = IF DOMAIN other = {} THEN NoAcct
          ELSE CHOOSE v \in DOMAIN other : Wins(other, v)
  BY DEF ExpectedLeader
<1> HIDE DEF map, other, target
<1>4. \A v \in DOMAIN map : LambdaFixed(map, v) = LambdaFixed(other, v)
  BY <1>1 DEF LambdaFixed
<1>5. \A v, w \in DOMAIN map : near(map, v, w) <=> near(other, v, w)
  BY <1>4
<1> HIDE DEF near
<1>6. \A v \in DOMAIN map : Wins(map, v) <=> Wins(other, v)
  BY <1>1, <1>5
<1> DEFINE D == DOMAIN map
<1>7. (CHOOSE v \in D : Wins(map, v)) = (CHOOSE v \in D : Wins(other, v))
  <2> HIDE DEF D, Wins
  <2>1. \A v \in D : Wins(map, v) <=> Wins(other, v)
    BY <1>6 DEF D
  <2>2. QED
    BY <2>1, Zenon
<1>8. QED
  <2> DEFINE E == DOMAIN other
             first  == CHOOSE v \in D : Wins(map, v)
             second == CHOOSE v \in E : Wins(other, v)
  <2>1. D = E
    BY <1>1
  <2>2. ExpectedLeader(blocks, q, slot) = IF D = {} THEN NoAcct ELSE first
    BY <1>2
  <2>3. ExpectedLeader(blocks, r, slot) = IF E = {} THEN NoAcct ELSE second
    BY <1>3
  <2>4. first = CHOOSE v \in D : Wins(other, v)
    BY <1>7
  <2>5. (CHOOSE v \in D : Wins(other, v)) = second
    <3> HIDE DEF D, E, Wins
    <3>1. QED
      BY <2>1
  <2> HIDE DEF D, E, first, second
  <2>6. first = second
    BY <2>4, <2>5, Zenon
  <2>7. QED
    BY <2>1, <2>2, <2>3, <2>6

\* validator_registry.py:239-273, chain.py:596-643. Every history that a node holds, from
\* genesis or from a snapshot on, names the same candidates as its chain wherever it
\* reaches: leaders differ only where the current map stands in for a history that
\* was lost.
THEOREM RecordedLeadersAreTheChains ==
  ASSUME CalmBlocks, HashIsContent, SafeCrashes
  PROVE  Spec => []RecordedLeaders
<1>1. RInv => RecordedLeaders
  <2> SUFFICES ASSUME RInv, Idle, NEW slot,
                      \E i \in DOMAIN registry.history :
                         registry.history[i].at <= Anchor(chain, slot).idx
               PROVE  ExpectedLeader(chain, registry, slot)
                        = ExpectedLeader(chain, Executed.reg, slot)
    BY DEF RecordedLeaders
  <2> DEFINE k == Anchor(chain, slot).idx
  <2>1. SameLedger(StateIn(node), StateOf(chain))
    BY DEF RInv, Replayed, Running, Idle, Stands
  <2>2. SameRecord(registry, Executed.reg)
    BY <2>1, HeldLedger DEF SameLedger, SameRegistry, Executed
  <2>3. k \in Nat
    <3>1. chain \in Seq(Known) /\ chain # <<>>
      BY LogAtHand DEF RInv, GoodLog, Running, Idle
    <3>2. Anchor(chain, slot) \in Known
      BY <3>1, AnchorIsKnown
    <3>3. QED
      BY <3>2, KnownBlock
  <2>4. Past(registry, k) # {}
    BY DEF Past
  <2> HIDE DEF k
  <2>5. SameMap(ValidatorsAt(registry, k), ValidatorsAt(Executed.reg, k))
    BY <2>2, <2>3, <2>4 DEF SameRecord
  <2>6. QED
    BY <2>5, LeaderAlike DEF k
<1>2. QED
  BY <1>1, LedgerIsHeld, PTL

\* Without snapshots the node holds exactly the state of its chain.
LEMMA ExactLedger ==
  ASSUME RInv, Unsnapped
  PROVE  /\ phase \in Running \cup {"replay"} => StateIn(node) = StateOf(chain)
         /\ phase # "snapshot"
BY DEF RInv, Replayed, Stands

\* validator_registry.py:239-273, whitepaper.md:234-236. Two nodes with the same
\* chain expect the same leaders, however many rollbacks, branches and restarts
\* lie behind them, as long as no snapshot, vote or slashing came between.
THEOREM LeaderIsTheChains ==
  ASSUME CalmBlocks, SafeCrashes, Unsnapped
  PROVE  Spec => []SameLeader
<1>1. RInv => SameLeader
  <2> SUFFICES ASSUME RInv, Idle PROVE SameLeader
    BY DEF SameLeader
  <2>1. StateIn(node) = StateOf(chain)
    BY ExactLedger DEF Idle, Running
  <2>2. registry = Executed.reg
    BY <2>1, HeldLedger DEF Executed
  <2>3. QED
    BY <2>2 DEF SameLeader
<1>2. QED
  BY <1>1, LedgerIsHeld, PTL

-----------------------------------------------------------------------------
(* The node implements the atomic ledger                                    *)

\* The abstract ledger executes blocks as the node does.
LEMMA AtomicStateOf == \A blocks : Atomic!StateOf(blocks) = StateOf(blocks)
BY Zenon DEF StateOf, Atomic!StateOf

\* What the node shows in each phase.
LEMMA Shown ==
  /\ phase \in Running  => AtomicLog = chain /\ AtomicState = StateIn(node)
  /\ phase \in Rebuilds => AtomicLog = kept /\ AtomicState = Atomic!Away
  /\ phase = "down" => AtomicLog = StoredChain /\ AtomicState = Atomic!Away
BY DEF AtomicLog, AtomicState, Atomic!Away, Running, Rebuilds

LEMMA ShownNext ==
  /\ phase' \in Running  => AtomicLog' = chain' /\ AtomicState' = StateIn(node)'
  /\ phase' \in Rebuilds => AtomicLog' = kept' /\ AtomicState' = Atomic!Away
  /\ phase' = "down" => AtomicLog' = StoredChain' /\ AtomicState' = Atomic!Away
BY DEF AtomicLog, AtomicState, Atomic!Away, Running, Rebuilds

LEMMA Answers == StateIn(node) # Atomic!Away /\ StateIn(node)' # Atomic!Away
<1>1. StateIn(node).ok = TRUE /\ StateIn(node)'.ok = TRUE /\ Atomic!Away.ok = FALSE
  BY DEF StateIn, Atomic!Away
<1>2. QED
  BY <1>1

LEMMA CommitExtends ==
  ASSUME RInv, Unsnapped, phase \in {"idle", "extend"},
         NEW b \in Known, NEW rest \in Seq(Known), NEW full,
         Adds(node, b, now, full), Commit(b, rest)
  PROVE  Atomic!Extend
<1> DEFINE s == ExecBlock(StateIn(node), b)
<1>1. /\ chain' = Append(chain, b) /\ balances' = s.bal /\ contracts' = s.con
      /\ registry' = s.reg
      /\ phase' = IF b.idx % SnapEvery = 0 THEN "snapshot" ELSE Then(rest)
  BY DEF Commit, After, node
<1>2. s.ok /\ b.idx = Last(chain).idx + 1 /\ b.prev = Last(chain).hash
  BY DEF Adds, Accepts, Follows, node
<1>3. IsLedger(s)
  BY HeldLedger, KnownBlock, ExecShape
<1>4. GoodLog(chain)
  BY LogAtHand DEF RInv, Running
<1> HIDE DEF s
<1>5. StateIn(node)' = s
  <2>1. s = [ok |-> TRUE, bal |-> s.bal, con |-> s.con, reg |-> s.reg]
    BY <1>2, <1>3, Whole
  <2>2. QED
    BY <1>1, <2>1 DEF StateIn, node
<1>6. phase' \in Running
  BY <1>1, ThenExtend DEF Running
<1>7. /\ AtomicLog = chain /\ AtomicLog' = Append(chain, b)
      /\ AtomicState = StateIn(node) /\ AtomicState' = s
  BY <1>1, <1>5, <1>6, Shown, ShownNext DEF Running
<1>8. chain \in Seq(Known) /\ chain # <<>> /\ Last(Append(chain, b)) = b
  BY <1>4 DEF GoodLog, Last
<1>9. b \in Blocks
  <2>1. Last(chain) \in Known
    BY <1>8, EmptySeq DEF Last
  <2>2. b.idx # 0
    BY <1>2, <2>1, KnownBlock
  <2>3. QED
    BY <2>2, ChainConstants DEF ChainConstants, Known
<1>10. QED
  BY <1>2, <1>7, <1>8, <1>9, Answers DEF Atomic!Extend, s, Last, Atomic!Last

LEMMA StartRollbackReverts ==
  ASSUME RInv, phase = "idle", NEW target \in Int, NEW branch,
         StartRollback(target, branch)
  PROVE  Atomic!Revert
<1>1. GoodLog(chain)
  BY LogAtHand DEF RInv, Running
<1>2. /\ target + 1 \in 1 .. Len(chain) - 1 /\ Len(chain) - (target + 1) <= MaxReorg
      /\ Len(chain) \in Nat /\ chain \in Seq(Known)
  BY <1>1, EmptySeq, ChainConstants DEF StartRollback, Tip, GoodLog, ChainConstants
<1>3. kept' = SubSeq(chain, 1, target + 1) /\ phase' = "clear"
  BY DEF StartRollback
<1>4. Len(kept') = target + 1
  BY <1>2, <1>3
<1>5. /\ AtomicLog = chain /\ AtomicLog' = kept'
      /\ AtomicState = StateIn(node) /\ AtomicState' = Atomic!Away
  BY <1>3, Shown, ShownNext DEF Running, Rebuilds
<1>6. QED
  BY <1>2, <1>3, <1>4, <1>5, Answers DEF Atomic!Revert

\* Between two phases that show the same nothing happens to the abstract ledger.
LEMMA NothingShown ==
  ASSUME AtomicLog' = AtomicLog, AtomicState' = AtomicState
  PROVE  [Atomic!Move]_(Atomic!avars)
BY DEF Atomic!avars

LEMMA ReplaceChainMoves ==
  ASSUME RInv, NEW offer \in Offers, ReplaceChain(offer)
  PROVE  [Atomic!Move]_(Atomic!avars)
<1> DEFINE cand   == Candidate(offer)
           common == CommonLength(cand)
           branch == SubSeq(cand, common + 1, Len(cand))
<1>1. common \in Nat /\ phase = "idle"
  BY CandidateShape DEF ReplaceChain, Adopts, RInv, IInv, Shapes
<1>2. CASE common < Len(chain)
  <2>1. StartRollback(common - 1, branch)
    BY <1>2 DEF ReplaceChain
  <2>2. Atomic!Revert
    BY <1>1, <2>1, StartRollbackReverts
  <2>3. QED
    BY <2>2 DEF Atomic!Move
<1>3. CASE ~(common < Len(chain))
  <2>1. phase' = Then(branch) /\ UNCHANGED <<ram, disk>>
    BY <1>3 DEF ReplaceChain
  <2>2. phase' \in Running /\ chain' = chain /\ StateIn(node)' = StateIn(node)
    BY <2>1, ThenExtend DEF Running, StateIn, node, ram, disk
  <2>3. QED
    BY <1>1, <2>2, Shown, ShownNext, NothingShown DEF Running
<1>4. QED
  BY <1>2, <1>3

LEMMA AtomicNext ==
  ASSUME Unsnapped, SafeCrashes
  PROVE  RInv /\ RInv' /\ [Next]_vars => [Atomic!Move]_(Atomic!avars)
<1> SUFFICES ASSUME RInv, RInv', [Next]_vars PROVE [Atomic!Move]_(Atomic!avars)
  OBVIOUS
<1>0. IInv
  BY DEF RInv
<1>1. ASSUME UNCHANGED <<ram, disk, job>> PROVE [Atomic!Move]_(Atomic!avars)
  <2>1. /\ StoredChain' = StoredChain /\ StateIn(node)' = StateIn(node) /\ phase' = phase
        /\ chain' = chain /\ kept' = kept
    BY <1>1 DEF ram, disk, job, StoredChain, StateIn, node
  <2>2. AtomicLog' = AtomicLog /\ AtomicState' = AtomicState
    BY <2>1 DEF AtomicLog, AtomicState
  <2>3. QED
    BY <2>2, NothingShown
<1>2. CASE Tick
  BY <1>1, <1>2 DEF Tick
<1>3. ASSUME NEW b \in Blocks, AddBlock(b) PROVE [Atomic!Move]_(Atomic!avars)
  <2>1. b \in Known /\ <<>> \in Seq(Known)
    BY DEF Known
  <2>2. phase = "idle" /\ Adds(node, b, now, TRUE) /\ Commit(b, <<>>)
    BY <1>3 DEF AddBlock
  <2>3. Atomic!Extend
    BY <2>1, <2>2, CommitExtends
  <2>4. QED
    BY <2>3 DEF Atomic!Move
<1>4. CASE SaveSnapshot
  BY <1>4, ExactLedger DEF SaveSnapshot
<1>5. ASSUME NEW target \in 0 .. Tip, Rollback(target) PROVE [Atomic!Move]_(Atomic!avars)
  <2>1. target \in Int /\ phase = "idle" /\ StartRollback(target, <<>>)
    BY <1>5 DEF Rollback
  <2>2. Atomic!Revert
    BY <2>1, StartRollbackReverts
  <2>3. QED
    BY <2>2 DEF Atomic!Move
<1>6. ASSUME phase \in Rebuilds, phase' \in Rebuilds, kept' = kept
      PROVE  [Atomic!Move]_(Atomic!avars)
  BY <1>6, Shown, ShownNext, NothingShown
<1>7. CASE ClearState
  BY <1>6, <1>7 DEF ClearState, Rebuilds
<1>8. CASE Restore
  BY <1>6, <1>8 DEF Restore, Rebuilds
<1>9. CASE Replay
  BY <1>6, <1>9 DEF Replay, Rebuilds, job
<1>10. CASE FinishRollback
  <2>1. /\ phase = "replay" /\ phase' = Then(todo) /\ chain' = chain
        /\ Len(chain) = Len(kept)
    BY <1>10 DEF FinishRollback
  <2>2. phase' \in Running
    BY <2>1, ThenExtend DEF Running
  <2>3. chain = kept
    <3>1. kept \in Seq(Known) /\ chain = SubSeq(kept, 1, Len(kept))
      BY <1>0, <2>1 DEF IInv, Shapes, AtHand
    <3>2. QED
      BY <3>1, PrefixFacts
  <2>4. StateIn(node)' = StateOf(kept)
    <3>1. StateIn(node)' = StateOf(chain')
      BY <2>2 DEF RInv, Replayed, Stands
    <3>2. QED
      BY <2>1, <2>3, <3>1
  <2>5. Atomic!Return
    BY <2>1, <2>2, <2>3, <2>4, Shown, ShownNext, AtomicStateOf
       DEF Atomic!Return, Rebuilds
  <2>6. QED
    BY <2>5 DEF Atomic!Move
<1>11. ASSUME NEW offer \in Offers, ReplaceChain(offer)
       PROVE  [Atomic!Move]_(Atomic!avars)
  BY <1>11, ReplaceChainMoves
<1>12. CASE ExtendBranch
  <2>1. phase = "extend" /\ todo \in Seq(Known) /\ todo # <<>>
    BY <1>0, <1>12 DEF ExtendBranch, IInv, Shapes, AtHand
  <2>2. todo[1] \in Known /\ Tail(todo) \in Seq(Known)
    BY <2>1, HeadTailProperties
  <2>3. Adds(node, todo[1], now, FALSE) /\ Commit(todo[1], Tail(todo))
    BY <1>12 DEF ExtendBranch
  <2>4. Atomic!Extend
    BY <2>1, <2>2, <2>3, CommitExtends
  <2>5. QED
    BY <2>4 DEF Atomic!Move
<1>13. CASE BranchRefused
  <2>1. phase = "extend" /\ phase' = "idle" /\ UNCHANGED <<ram, disk>>
    BY <1>13 DEF BranchRefused
  <2>2. chain' = chain /\ StateIn(node)' = StateIn(node)
    BY <2>1 DEF StateIn, node, ram, disk
  <2>3. QED
    BY <2>1, <2>2, Shown, ShownNext, NothingShown DEF Running
<1>14. CASE Crash
  <2>1. phase \in Running /\ phase' = "down" /\ stored' = stored
    BY <1>14 DEF Crash, Die, SafeCrashes, disk
  <2>2. StoredChain' = chain
    <3>1. StoredChain' = StoredChain
      BY <2>1 DEF StoredChain
    <3>2. QED
      BY <1>0, <2>1, <3>1, LogAtHand
  <2>3. Atomic!Stop
    BY <2>1, <2>2, Shown, ShownNext, Answers DEF Atomic!Stop
  <2>4. QED
    BY <2>3 DEF Atomic!Move
<1>15. ASSUME CrashInClear \/ \E m \in 0 .. MaxTxs : CrashInReplay(m)
       PROVE  [Atomic!Move]_(Atomic!avars)
  BY <1>15 DEF CrashInClear, CrashInReplay, SafeCrashes, Running
<1>16. CASE Restart
  <2>1. phase = "down" /\ phase' = "idle" /\ chain' = StoredChain
    BY <1>16 DEF Restart, Loaded
  <2>2. StateIn(node)' = StateOf(chain')
    BY <2>1 DEF RInv, Replayed, Stands, Running
  <2>3. Atomic!Return
    BY <2>1, <2>2, Shown, ShownNext, AtomicStateOf DEF Atomic!Return, Running
  <2>4. QED
    BY <2>3 DEF Atomic!Move
<1>17. CASE UNCHANGED vars
  BY <1>1, <1>17 DEF vars
<1>18. QED
  BY <1>2, <1>3, <1>4, <1>5, <1>7, <1>8, <1>9, <1>10, <1>11, <1>12, <1>13, <1>14,
     <1>15, <1>16, <1>17 DEF Next

\* chain.py:504-533, 555-650, 718-723. Every step of the node is a step of the
\* atomic ledger or none: a block enters with all its effects, a reorganisation
\* takes back a bounded number with all of theirs, and the state that a
\* rollback or a restart comes back with depends on the log alone.
THEOREM NodeIsAtomicLedger ==
  ASSUME CalmBlocks, SafeCrashes, Unsnapped
  PROVE  Spec => ImplementsAtomicLedger
<1>1. Init => Atomic!Start
  BY Shown DEF Init, Atomic!Start, GenesisState, StateIn, node, Running
<1>2. QED
  BY <1>1, AtomicNext, LedgerIsHeld, PTL DEF Spec, ImplementsAtomicLedger, Atomic!Ledger

-----------------------------------------------------------------------------
(* A branch and its staged copy                                             *)

\* A node that holds a chain and has executed it
NodeOf(c) == [chain |-> c, confirmed |-> Ids(c), bal |-> StateOf(c).bal,
              con |-> StateOf(c).con, reg |-> StateOf(c).reg]

AdmitsAt(n, b, t) == ReorgValid(n, b, t) /\ Adds(n, b, t, FALSE)

StagedStep(r, b, t) ==
  IF r.ok /\ AdmitsAt(r.n, b, t) THEN [ok |-> TRUE, n |-> After(r.n, b)]
  ELSE [r EXCEPT !.ok = FALSE]

KeptStep(s, b, c) == ReplayBlock(s, b)

ReplayedFrom(s, blocks) == FoldLeft(ReplayBlock, s, blocks)

Staging  == INSTANCE FoldTheorems WITH Op <- StagedStep
Keeping  == INSTANCE FoldTheorems WITH Op <- KeptStep

\* Every block of d beyond the first m passes the checks of a branch on the node that
\* executed the blocks before it
Admitted(d, m, t) ==
  \A k \in m + 1 .. Len(d) : AdmitsAt(NodeOf(SubSeq(d, 1, k - 1)), d[k], t)

\* The chain that the operation in progress is to end with
Target(log) == log \o todo

Staged ==
  /\ phase \in Rebuilds  => Admitted(Target(kept), Len(kept), now)
  /\ phase = "extend"    => Admitted(Target(chain), Len(chain), now)

LEMMA NodeOfChain ==
  ASSUME RInv, Unsnapped, phase \in Running
  PROVE  node = NodeOf(chain)
<1>1. StateIn(node) = StateOf(chain) /\ confirmed = Ids(chain)
  BY ExactLedger DEF RInv, IInv, AtHand
<1>2. balances = StateOf(chain).bal /\ contracts = StateOf(chain).con
      /\ registry = StateOf(chain).reg
  BY <1>1, HeldLedger
<1>3. QED
  BY <1>1, <1>2 DEF node, NodeOf

\* The state a node holds that executed its chain.
LEMMA NodeOfState ==
  ASSUME NEW c \in Seq(Known), c # <<>>, c[1] = Genesis, Executable(c)
  PROVE  StateIn(NodeOf(c)) = StateOf(c)
<1>1. StateOf(c).ok /\ IsLedger(StateOf(c))
  BY ExecutableEnd, StateOfShape
<1> DEFINE s == StateOf(c)
<1>2. s = [ok |-> TRUE, bal |-> s.bal, con |-> s.con, reg |-> s.reg]
  BY <1>1, Whole
<1> HIDE DEF s
<1>3. QED
  BY <1>2 DEF StateIn, NodeOf, s

\* Adding a block to such a node makes the node of the longer chain.
LEMMA NodeOfMore ==
  ASSUME NEW c, GoodLog(c), Executable(c), NEW b \in Known, NEW t,
         Adds(NodeOf(c), b, t, FALSE)
  PROVE  /\ After(NodeOf(c), b) = NodeOf(Append(c, b))
         /\ GoodLog(Append(c, b)) /\ Executable(Append(c, b))
<1>1. c \in Seq(Known) /\ c # <<>> /\ c[1] = Genesis
  BY DEF GoodLog
<1>2. /\ NodeOf(c).chain = c /\ NodeOf(c).confirmed = Ids(c)
      /\ StateIn(NodeOf(c)) = StateOf(c)
  BY <1>1, NodeOfState DEF NodeOf
<1>3. /\ b.idx = Last(c).idx + 1 /\ b.prev = Last(c).hash /\ b.intact
      /\ SenderIds(b) \cap Ids(c) = {} /\ ExecBlock(StateOf(c), b).ok
  BY <1>2 DEF Adds, Accepts, Follows, AllNew
<1>4. GoodLog(Append(c, b)) /\ Ids(Append(c, b)) = Ids(c) \cup SenderIds(b)
  BY <1>3, GoodAppend
<1>5. Executable(Append(c, b))
  BY <1>1, <1>3, ExecutableAppend
<1>6. StateOf(Append(c, b)) = ExecBlock(StateOf(c), b)
  BY <1>1, StateOfAppend
<1>7. After(NodeOf(c), b) = NodeOf(Append(c, b))
  BY <1>2, <1>4, <1>6 DEF After, NodeOf
<1>8. QED
  BY <1>4, <1>5, <1>7

\* A block that is admitted stays so as time goes by.
LEMMA LaterStillAdmits ==
  ASSUME NEW n, NEW b \in Blocks, NEW t \in Nat, NEW u \in Nat, t <= u,
         AdmitsAt(n, b, t)
  PROVE  AdmitsAt(n, b, u)
<1>1. b.slot <= t + FutureSlots => b.slot <= u + FutureSlots
  BY ChainConstants DEF ChainConstants
<1>2. CoinbaseOK(n, b, t)
  BY DEF AdmitsAt, Adds, Accepts
<1>3. CoinbaseOK(n, b, u)
  BY <1>1, <1>2, Zenon DEF CoinbaseOK
<1>4. QED
  BY <1>3 DEF AdmitsAt, ReorgValid, Adds, Accepts

-----------------------------------------------------------------------------
(* What the staged copy starts from                                         *)

\* Without snapshots a rollback makes the node of the blocks it keeps.
LEMMA RebuiltIsNode ==
  ASSUME CalmBlocks, snapshots = <<>>, NEW c, GoodLog(c), Executable(c)
  PROVE  Rebuilt(c) = NodeOf(c)
<1> DEFINE rest == SubSeq(c, 2, Len(c))
           At(n) == Keeping!Fold(GenesisState, SubSeq(rest, 1, n), 0)
           T == {n \in Nat : At(n) = StateOf(SubSeq(c, 1, n + 1))}
<1>1. /\ c \in Seq(Known) /\ c # <<>> /\ c[1] = Genesis
      /\ Len(c) \in Nat /\ Len(c) >= 1
  BY EmptySeq DEF GoodLog
<1>2. UsableSnapshot(c) = {}
  BY DEF UsableSnapshot, LatestSnapshot
<1>3. /\ Base(c).chain = <<c[1]>> /\ Base(c).bal = NoBalances
      /\ Base(c).con = NoContracts /\ Base(c).reg = EmptyRegistry
  BY <1>2 DEF Base
<1>4. Len(Base(c).chain) + 1 = 2
  BY <1>3
<1>5. /\ rest \in Seq(Known) /\ Len(rest) = Len(c) - 1
      /\ \A n \in 1 .. Len(rest) : rest[n] = c[n + 1]
  <2>1. 2 \in Int /\ Len(c) \in Int /\ \A n \in 2 .. Len(c) : c[n] \in Known
    BY <1>1
  <2>2. /\ rest \in Seq(Known) /\ Len(rest) = IF 2 <= Len(c) THEN Len(c) - 2 + 1 ELSE 0
        /\ \A n \in 1 .. Len(c) - 2 + 1 : rest[n] = c[2 + n - 1]
    BY <2>1, SubSeqProperties
  <2> HIDE DEF rest
  <2>3. Len(rest) = Len(c) - 1
    <3>1. PICK m \in Nat : m = Len(c) /\ m >= 1
      BY <1>1
    <3>2. Len(rest) = IF 2 <= m THEN m - 2 + 1 ELSE 0
      BY <2>2, <3>1
    <3>3. (IF 2 <= m THEN m - 2 + 1 ELSE 0) = m - 1
      BY <3>1
    <3>4. QED
      BY <3>1, <3>2, <3>3
  <2>4. ASSUME NEW n \in 1 .. Len(c) - 1 PROVE rest[n] = c[n + 1]
    <3>1. n \in 1 .. Len(c) - 2 + 1 /\ 2 + n - 1 = n + 1
      BY <1>1
    <3>2. rest[n] = c[2 + n - 1]
      BY <2>2, <3>1
    <3>3. QED
      BY <3>1, <3>2
  <2>5. QED
    BY <2>2, <2>3, <2>4
<1> DEFINE s == ReplayedFrom(GenesisState, rest)
<1>6. Rebuilt(c) = [chain |-> c, confirmed |-> Ids(c), bal |-> s.bal,
                    con |-> s.con, reg |-> s.reg]
  <2> DEFINE base  == Base(c)
             from  == [ok |-> TRUE, bal |-> base.bal, con |-> base.con, reg |-> base.reg]
             again == SubSeq(c, Len(base.chain) + 1, Len(c))
  <2>1. Rebuilt(c) = [chain |-> c, confirmed |-> Ids(c),
                      bal |-> ReplayedFrom(from, again).bal,
                      con |-> ReplayedFrom(from, again).con,
                      reg |-> ReplayedFrom(from, again).reg]
    BY Zenon DEF Rebuilt, ReplayedFrom
  <2>2. from = GenesisState
    BY <1>3 DEF GenesisState
  <2>3. again = rest
    BY <1>4
  <2> HIDE DEF from, again, rest
  <2>4. QED
    BY <2>1, <2>2, <2>3
<1>7. s = Keeping!Fold(GenesisState, rest, 0)
  BY Zenon DEF ReplayedFrom, KeptStep, Keeping!Fold, FoldLeft, Keeping!FoldLeft,
               MapThenFoldSet, Keeping!MapThenFoldSet, Max, Keeping!Max
<1>8. SubSeq(rest, 1, Len(rest)) = rest /\ SubSeq(rest, 1, 0) = <<>> /\ Len(rest) \in Nat
  BY <1>1, <1>5, PrefixFacts
<1>9. At(0) = StateOf(SubSeq(c, 1, 0 + 1))
  <2>1. At(0) = GenesisState
    BY <1>8, Keeping!FoldEmpty
  <2>2. 1 \in 0 .. Len(c)
    BY <1>1
  <2>3. Len(SubSeq(c, 1, 1)) = 1
    BY <1>1, <2>2, PrefixFacts
  <2>4. StateOf(SubSeq(c, 1, 1)) = GenesisState
    BY <2>3, StateOfOne
  <2>5. QED
    BY <2>1, <2>4
<1>10. ASSUME NEW n \in Nat, n < Len(rest)
       PROVE  At(n + 1) = ReplayBlock(At(n), rest[n + 1])
  <2>1. At(n + 1) = KeptStep(At(n), rest[n + 1], 0)
    <3>1. rest \in Seq(Known)
      BY <1>5
    <3> HIDE DEF rest
    <3>2. QED
      BY <1>10, <3>1, Keeping!FoldPrefix
  <2>2. QED
    BY <2>1 DEF KeptStep
<1> HIDE DEF At, rest, s
<1>11. ASSUME NEW n \in Nat, n < Len(rest), n \in T PROVE n + 1 \in T
  <2>1. PICK m \in Nat : m = n + 1
    OBVIOUS
  <2>2. m \in 1 .. Len(c) - 1 /\ m + 1 \in 1 .. Len(c) /\ m \in 1 .. Len(c)
        /\ m \in 1 .. Len(rest)
    BY <1>1, <1>5, <1>11, <2>1
  <2> DEFINE p == SubSeq(c, 1, m)
             b == c[m + 1]
  <2>3. /\ At(n) = StateOf(p) /\ rest[m] = b /\ b \in Known
        /\ At(m) = ReplayBlock(At(n), rest[m])
    BY <1>1, <1>5, <1>10, <1>11, <2>1, <2>2
  <2>4. StateOf(SubSeq(c, 1, m + 1)) = ExecBlock(StateOf(p), b)
    BY <1>1, <2>2, StateOfMore
  <2>5. StateOf(SubSeq(c, 1, m + 1)).ok
    BY <2>2 DEF Executable
  <2>6. GoodLog(p)
    BY <2>2, GoodPrefix
  <2>7. IsLedger(StateOf(p)) /\ IsBlock(b)
    BY <2>3, <2>6, StateOfShape, KnownBlock DEF GoodLog
  <2> HIDE DEF p, b
  <2>8. ReplayBlock(StateOf(p), b) = ExecBlock(StateOf(p), b)
    BY <2>4, <2>5, <2>7, ReplayIsExec
  <2>9. At(m) = StateOf(SubSeq(c, 1, m + 1))
    BY <2>3, <2>4, <2>8
  <2>10. QED
    BY <2>1, <2>9
<1>12. Len(rest) \in T
  <2>1. 0 \in T
    BY <1>9
  <2> HIDE DEF T
  <2>2. QED
    BY <1>8, <1>11, <2>1, UpTo
<1>13. At(Len(rest)) = StateOf(c)
  <2>1. At(Len(rest)) = StateOf(SubSeq(c, 1, Len(rest) + 1))
    BY <1>12
  <2>2. Len(rest) + 1 = Len(c) /\ SubSeq(c, 1, Len(c)) = c
    BY <1>1, <1>5, PrefixFacts
  <2>3. QED
    BY <2>1, <2>2
<1>14. s = StateOf(c)
  BY <1>7, <1>8, <1>13 DEF At
<1>15. QED
  BY <1>6, <1>14 DEF NodeOf

\* A restart makes the node of the table.
LEMMA LoadedIsNode ==
  ASSUME RInv, CalmBlocks, Unsnapped, phase = "idle"
  PROVE  Loaded = NodeOf(chain)
<1>1. StoredChain = chain /\ GoodLog(chain) /\ node = NodeOf(chain)
  BY LogAtHand, NodeOfChain DEF RInv, Running
<1>2. chain \in Seq(Known) /\ chain # <<>> /\ chain[1] = Genesis
  BY <1>1 DEF GoodLog
<1>3. StateOf(chain).reg = LoadedRegistry(chain)
  BY <1>2, StateOfShape
<1>4. QED
  BY <1>1, <1>3 DEF Loaded, node, NodeOf

-----------------------------------------------------------------------------
(* What the staged copy accepts                                             *)

\* The parts of two sequences put one behind the other.
LEMMA JoinFacts ==
  ASSUME NEW p \in Seq(Known), NEW q \in Seq(Known)
  PROVE  /\ p \o q \in Seq(Known) /\ Len(p \o q) = Len(p) + Len(q)
         /\ Len(p) \in Nat /\ Len(q) \in Nat
         /\ SubSeq(p \o q, 1, Len(p)) = p
         /\ \A i \in 1 .. Len(q) : (p \o q)[Len(p) + i] = q[i]
         /\ p \o <<>> = p
<1>1. /\ p \o q \in Seq(Known) /\ Len(p \o q) = Len(p) + Len(q)
      /\ Len(p) \in Nat /\ Len(q) \in Nat
      /\ \A i \in 1 .. Len(p) : (p \o q)[i] = p[i]
      /\ \A i \in 1 .. Len(q) : (p \o q)[Len(p) + i] = q[i]
  OBVIOUS
<1> DEFINE d == p \o q
           e == SubSeq(d, 1, Len(p))
<1>2. e = p
  <2>1. d \in Seq(Known) /\ Len(p) \in 0 .. Len(d) /\ Len(p) \in Nat
    BY <1>1
  <2>2. \A i \in 1 .. Len(p) : d[i] = p[i]
    BY <1>1
  <2> HIDE DEF d
  <2>3. e \in Seq(Known) /\ Len(e) = Len(p) /\ \A i \in 1 .. Len(p) : e[i] = d[i]
    BY <2>1
  <2> HIDE DEF e
  <2>4. QED
    BY <2>1, <2>2, <2>3
<1>3. p \o <<>> = p
  OBVIOUS
<1>4. QED
  BY <1>1, <1>2, <1>3

LEMMA PrefixMore ==
  ASSUME NEW d \in Seq(Known), NEW n \in Nat, n < Len(d)
  PROVE  Append(SubSeq(d, 1, n), d[n + 1]) = SubSeq(d, 1, n + 1)
<1> DEFINE p == SubSeq(d, 1, n)
           q == SubSeq(d, 1, n + 1)
<1>1. /\ p \in Seq(Known) /\ Len(p) = n /\ \A i \in 1 .. n : p[i] = d[i]
      /\ q \in Seq(Known) /\ Len(q) = n + 1 /\ \A i \in 1 .. n + 1 : q[i] = d[i]
      /\ d[n + 1] \in Known
  OBVIOUS
<1> HIDE DEF p, q
<1>2. Append(p, d[n + 1]) = q
  BY <1>1
<1>3. QED
  BY <1>2 DEF p, q

LEMMA OneAhead ==
  ASSUME NEW p \in Seq(Known), NEW q \in Seq(Known), q # <<>>
  PROVE  Append(p, q[1]) \o Tail(q) = p \o q
<1> DEFINE h == q[1]
           r == Tail(q)
<1>0. Len(q) \in Nat \ {0}
  BY EmptySeq
<1>1. /\ h \in Known /\ r \in Seq(Known) /\ Len(r) = Len(q) - 1 /\ Len(q) \in Nat \ {0}
      /\ \A i \in 1 .. Len(r) : r[i] = q[i + 1]
  BY EmptySeq
<1>2. Len(p) \in Nat /\ Append(p, h) \in Seq(Known) /\ Len(Append(p, h)) = Len(p) + 1
  BY <1>1
<1> DEFINE a == Append(p, h) \o r
           b == p \o q
<1>3. /\ a \in Seq(Known) /\ b \in Seq(Known)
      /\ Len(a) = Len(p) + 1 + Len(r) /\ Len(b) = Len(p) + Len(q)
  BY <1>1, <1>2
<1>4. ASSUME NEW i \in 1 .. Len(b) PROVE a[i] = b[i]
  <2>1. CASE i <= Len(p)
    BY <1>1, <1>2, <1>3, <1>4, <2>1
  <2>2. CASE i = Len(p) + 1
    BY <1>1, <1>2, <1>3, <1>4, <2>2
  <2>3. CASE i > Len(p) + 1
    <3>1. PICK j \in 1 .. Len(r) : i = Len(p) + 1 + j
      <4>1. PICK l \in Nat : l = Len(p)
        BY <1>2
      <4>2. PICK u \in Nat : u = Len(r) /\ u + 1 = Len(q)
        <5>1. PICK v \in Nat : v = Len(q) /\ v # 0
          BY <1>0
        <5>2. Len(r) = Len(q) - 1
          BY <1>1
        <5>3. v - 1 \in Nat /\ v - 1 = Len(r) /\ (v - 1) + 1 = v
          BY <5>1, <5>2
        <5>4. QED
          BY <5>1, <5>3
      <4>3. i \in 1 .. l + (u + 1) /\ i > l + 1
        BY <1>3, <2>3, <4>1, <4>2
      <4>4. i - (l + 1) \in 1 .. u /\ i = l + 1 + (i - (l + 1))
        BY <4>3
      <4>5. QED
        BY <4>1, <4>2, <4>4
    <3>2. a[i] = r[j]
      BY <1>1, <1>2, <3>1
    <3>3. b[i] = q[j + 1]
      BY <1>1, <1>2, <3>1
    <3>4. QED
      BY <1>1, <3>2, <3>3
  <2>4. QED
    BY <1>2, <1>3, <2>1, <2>2, <2>3
<1>5. Len(a) = Len(b)
  BY <1>1, <1>2, <1>3
<1> HIDE DEF a, b
<1>6. a = b
  BY <1>3, <1>4, <1>5
<1>7. QED
  BY <1>6 DEF a, b

\* A branch that the staged copy executes to its end is admitted block by block.
LEMMA StagingAdmits ==
  ASSUME NEW p, GoodLog(p), Executable(p), NEW branch \in Seq(Known), NEW t,
         Staging!Fold([ok |-> TRUE, n |-> NodeOf(p)], branch, t).ok
  PROVE  Admitted(p \o branch, Len(p), t)
<1> DEFINE d == p \o branch
           m == Len(p)
           base  == [ok |-> TRUE, n |-> NodeOf(p)]
           At(j) == Staging!Fold(base, SubSeq(branch, 1, j), t)
           Up(j) == SubSeq(d, 1, m + j)
           Good(j) == /\ At(j) = [ok |-> TRUE, n |-> NodeOf(Up(j))]
                      /\ GoodLog(Up(j)) /\ Executable(Up(j))
                      /\ \A k \in m + 1 .. m + j :
                            AdmitsAt(NodeOf(SubSeq(d, 1, k - 1)), d[k], t)
           Bad(j) == At(j) \in [ok : {FALSE}, n : {At(j).n}]
           T == {j \in Nat : Good(j) \/ Bad(j)}
<1>1. /\ p \in Seq(Known) /\ d \in Seq(Known) /\ Len(d) = m + Len(branch)
      /\ m \in Nat /\ Len(branch) \in Nat /\ SubSeq(d, 1, m) = p
      /\ \A i \in 1 .. Len(branch) : d[m + i] = branch[i] /\ branch[i] \in Known
  BY JoinFacts DEF GoodLog
<1>2. At(Len(branch)).ok
  BY PrefixFacts
<1>3. At(0) = base
  BY PrefixFacts, Staging!FoldEmpty
<1>4. ASSUME NEW j \in Nat, j < Len(branch)
      PROVE  At(j + 1) = StagedStep(At(j), branch[j + 1], t)
  BY <1>4, Staging!FoldPrefix
<1> HIDE DEF At, d, m
<1>5. Good(0)
  <2>1. Up(0) = p
    BY <1>1
  <2>2. \A k \in m + 1 .. m + 0 : FALSE
    BY <1>1
  <2>3. QED
    BY <1>3, <2>1, <2>2
<1>6. ASSUME NEW j \in Nat, j < Len(branch), Good(j) \/ Bad(j)
      PROVE  Good(j + 1) \/ Bad(j + 1)
  <2> DEFINE b == branch[j + 1]
  <2>1. At(j + 1) = StagedStep(At(j), b, t)
    BY <1>4, <1>6
  <2>2. CASE Bad(j)
    <3>1. At(j) \in [ok : {FALSE}, n : {At(j).n}] /\ ~At(j).ok
      BY <2>2
    <3>2. At(j + 1) = [At(j) EXCEPT !.ok = FALSE]
      BY <2>1, <3>1 DEF StagedStep
    <3>3. At(j + 1) \in [ok : {FALSE}, n : {At(j).n}]
      BY <3>1, <3>2
    <3>4. Bad(j + 1)
      BY <3>3
    <3> HIDE DEF Good, Bad
    <3>5. QED
      BY <3>4
  <2>3. CASE Good(j)
    <3> DEFINE q == Up(j)
    <3>1. At(j) = [ok |-> TRUE, n |-> NodeOf(q)] /\ GoodLog(q) /\ Executable(q)
      BY <2>3
    <3>2. At(j).ok /\ At(j).n = NodeOf(q)
      BY <3>1
    <3>3. PICK i \in 1 .. Len(branch) : i = j + 1 /\ m + i = m + j + 1
      <4>1. j + 1 \in 1 .. Len(branch)
        BY <1>1, <1>6
      <4>2. m + (j + 1) = m + j + 1
        BY <1>1
      <4>3. QED
        BY <4>1, <4>2
    <3>4. PICK n \in Nat : n = m + j /\ n + 1 = m + (j + 1) /\ n < Len(d) /\ n + 1 = m + i
      BY <1>1, <1>6, <3>3
    <3>5. b \in Known /\ d[n + 1] = b
      BY <1>1, <3>3, <3>4
    <3>6. Append(q, b) = Up(j + 1)
      <4>1. Append(SubSeq(d, 1, n), d[n + 1]) = SubSeq(d, 1, n + 1)
        BY <1>1, <3>4, PrefixMore
      <4>2. QED
        BY <3>4, <3>5, <4>1
    <3>7. q = SubSeq(d, 1, (n + 1) - 1)
      BY <3>4
    <3> HIDE DEF b, q
    <3>8. CASE AdmitsAt(NodeOf(q), b, t)
      <4>1. Adds(NodeOf(q), b, t, FALSE)
        BY <3>8 DEF AdmitsAt
      <4>2. At(j + 1) = [ok |-> TRUE, n |-> After(NodeOf(q), b)]
        BY <2>1, <3>2, <3>8 DEF StagedStep
      <4>3. /\ After(NodeOf(q), b) = NodeOf(Append(q, b))
            /\ GoodLog(Append(q, b)) /\ Executable(Append(q, b))
        BY <3>1, <3>5, <4>1, NodeOfMore
      <4>4. ASSUME NEW k \in m + 1 .. m + (j + 1)
            PROVE  AdmitsAt(NodeOf(SubSeq(d, 1, k - 1)), d[k], t)
        <5>1. CASE k = n + 1
          BY <3>5, <3>7, <3>8, <5>1
        <5>2. CASE k # n + 1
          <6>1. k \in m + 1 .. m + j
            BY <1>1, <3>4, <5>2
          <6>2. QED
            BY <2>3, <6>1
        <5>3. QED
          BY <5>1, <5>2
      <4> HIDE DEF Up
      <4>5. /\ At(j + 1) = [ok |-> TRUE, n |-> NodeOf(Up(j + 1))]
            /\ GoodLog(Up(j + 1)) /\ Executable(Up(j + 1))
        BY <3>6, <4>2, <4>3
      <4>6. Good(j + 1)
        BY <4>4, <4>5
      <4> HIDE DEF Good, Bad
      <4>7. QED
        BY <4>6
    <3>9. CASE ~AdmitsAt(NodeOf(q), b, t)
      <4>1. At(j + 1) = [At(j) EXCEPT !.ok = FALSE]
        BY <2>1, <3>2, <3>9 DEF StagedStep
      <4>2. At(j) \in [ok : {TRUE}, n : {At(j).n}]
        BY <3>1
      <4>3. At(j + 1) \in [ok : {FALSE}, n : {At(j).n}]
        BY <4>1, <4>2
      <4>4. Bad(j + 1)
        BY <4>3
      <4> HIDE DEF Good, Bad
      <4>5. QED
        BY <4>4
    <3>10. QED
      BY <3>8, <3>9
  <2>4. QED
    BY <1>6, <2>2, <2>3
<1>7. Good(Len(branch)) \/ Bad(Len(branch))
  <2> HIDE DEF Good, Bad
  <2>1. 0 \in T
    BY <1>5
  <2>2. \A j \in Nat : j < Len(branch) /\ j \in T => j + 1 \in T
    BY <1>6
  <2> HIDE DEF T
  <2>3. Len(branch) \in T
    BY <1>1, <2>1, <2>2, UpTo
  <2>4. QED
    BY <2>3 DEF T
<1>8. ~Bad(Len(branch))
  BY <1>2
<1>9. \A k \in m + 1 .. m + Len(branch) : AdmitsAt(NodeOf(SubSeq(d, 1, k - 1)), d[k], t)
  BY <1>7, <1>8
<1>10. Admitted(d, m, t)
  BY <1>1, <1>9 DEF Admitted
<1>11. QED
  BY <1>10 DEF d, m

-----------------------------------------------------------------------------
(* The branch of a reorganisation stays admitted                            *)

\* An admitted branch stays so as time goes by.
LEMMA StaysAdmitted ==
  ASSUME NEW d \in Seq(Known), NEW m \in Nat, m >= 1,
         NEW t \in Nat, NEW u \in Nat, t <= u, Admitted(d, m, t)
  PROVE  Admitted(d, m, u)
<1> SUFFICES ASSUME NEW k \in m + 1 .. Len(d)
             PROVE  AdmitsAt(NodeOf(SubSeq(d, 1, k - 1)), d[k], u)
  BY DEF Admitted
<1> DEFINE p == SubSeq(d, 1, k - 1)
           b == d[k]
<1>1. PICK n \in Nat : n = k - 1 /\ n >= 1 /\ n \in 0 .. Len(d) /\ k \in 1 .. Len(d)
  OBVIOUS
<1>2. p \in Seq(Known) /\ Len(p) = n /\ b \in Known
  BY <1>1, PrefixFacts
<1>3. AdmitsAt(NodeOf(p), b, t)
  BY DEF Admitted
<1> HIDE DEF p, b
<1>4. b.idx = Last(p).idx + 1
  BY <1>3 DEF AdmitsAt, Adds, Accepts, Follows, NodeOf
<1>5. Last(p) \in Known
  BY <1>1, <1>2 DEF Last
<1>6. b \in Blocks
  <2>1. b.idx # 0
    BY <1>4, <1>5, KnownBlock
  <2>2. QED
    BY <1>2, <2>1, ChainConstants DEF ChainConstants, Known
<1>7. AdmitsAt(NodeOf(p), b, u)
  BY <1>3, <1>6, LaterStillAdmits
<1>8. QED
  BY <1>7 DEF p, b

\* The candidate has genesis in common with the chain, and no more than all of it.
LEMMA CommonBounds ==
  ASSUME chain \in Seq(Known), chain # <<>>, chain[1] = Genesis,
         NEW cand, Len(cand) \in Nat, Len(cand) > 0, cand[1] = Genesis
  PROVE  CommonLength(cand) \in 1 .. Len(chain)
<1> DEFINE agreeing == {n \in 1 .. Len(chain) :
                 n <= Len(cand) /\ \A i \in 1 .. n : cand[i].hash = chain[i].hash}
<1>1. Len(chain) \in Nat \ {0}
  BY EmptySeq
<1>2. 1 \in agreeing
  <2>1. \A i \in 1 .. 1 : i = 1
    OBVIOUS
  <2>2. \A i \in 1 .. 1 : cand[i].hash = chain[i].hash
    BY <2>1
  <2>3. 1 \in 1 .. Len(chain) /\ 1 <= Len(cand)
    BY <1>1
  <2>4. QED
    BY <2>2, <2>3
<1>3. IsFiniteSet(1 .. Len(chain)) /\ agreeing \subseteq 1 .. Len(chain)
      /\ Cardinality(1 .. Len(chain)) = Len(chain)
  <2>1. PICK n \in Nat \ {0} : n = Len(chain)
    BY <1>1
  <2>2. IsFiniteSet(1 .. n) /\ Cardinality(1 .. n) = IF 1 > n THEN 0 ELSE n - 1 + 1
    <3>1. 1 \in Int /\ n \in Int
      OBVIOUS
    <3>2. QED
      BY <3>1, FS_Interval, Zenon
  <2>3. (IF 1 > n THEN 0 ELSE n - 1 + 1) = n
    OBVIOUS
  <2>4. QED
    BY <2>1, <2>2, <2>3
<1> HIDE DEF agreeing
<1>4. IsFiniteSet(agreeing) /\ Cardinality(agreeing) <= Len(chain)
      /\ Cardinality(agreeing) \in Nat
  BY <1>3, FS_Subset, FS_CardinalityType
<1>5. Cardinality(agreeing) # 0
  BY <1>2, <1>4, FS_EmptySet
<1>6. Cardinality(agreeing) \in 1 .. Len(chain)
  BY <1>1, <1>4, <1>5
<1>7. QED
  BY <1>6 DEF CommonLength, agreeing

\* A candidate that is adopted has a branch that is admitted.
LEMMA AdoptsAdmitted ==
  ASSUME RInv, CalmBlocks, Unsnapped, phase = "idle", NEW offer \in Offers, Adopts(offer)
  PROVE  LET cand   == Candidate(offer)
             common == CommonLength(cand)
             branch == SubSeq(cand, common + 1, Len(cand))
         IN /\ common \in 1 .. Len(chain) /\ branch \in Seq(Known)
            /\ Admitted(SubSeq(chain, 1, common) \o branch, common, now)
<1> DEFINE cand   == Candidate(offer)
           common == CommonLength(cand)
           branch == SubSeq(cand, common + 1, Len(cand))
           p      == SubSeq(chain, 1, common)
<1>1. /\ chain \in Seq(Known) /\ chain # <<>> /\ chain[1] = Genesis
      /\ GoodLog(chain) /\ StoredChain = chain /\ Executable(chain)
      /\ snapshots = <<>>
  BY LogAtHand DEF RInv, Replayed, Running, GoodLog
<1>2. cand \in Seq(Known) /\ common \in Nat /\ branch \in Seq(Known)
  BY <1>1, CandidateShape DEF Adopts
<1>3. common \in 1 .. Len(chain)
  <2>1. Len(cand) > 0 /\ cand[1] = Genesis
    BY DEF Adopts, Sound
  <2> HIDE DEF cand
  <2>2. QED
    BY <1>1, <1>2, <2>1, CommonBounds
<1> DEFINE base == IF common = Len(chain) THEN Loaded
                   ELSE Rebuilt(SubSeq(StoredChain, 1, common))
<1>4. Staging!Fold([ok |-> TRUE, n |-> base], branch, now).ok
  <2>1. StagedAccepts(cand, common)
    BY DEF Adopts
  <2>2. StagedAccepts(cand, common)
          = Staging!Fold([ok |-> TRUE, n |-> base], branch, now).ok
    BY Zenon DEF StagedAccepts, Admits, AdmitsAt, StagedStep, Staging!Fold, FoldLeft,
                 Staging!FoldLeft, MapThenFoldSet, Staging!MapThenFoldSet, Max, Staging!Max
  <2>3. QED
    BY <2>1, <2>2
<1> HIDE DEF cand, common, branch
<1>5. GoodLog(p) /\ Executable(p) /\ Len(p) = common
  <2>1. GoodLog(p)
    BY <1>1, <1>3, GoodPrefix
  <2>2. Executable(p)
    BY <1>1, <1>3, ExecutablePrefix
  <2>3. common \in 0 .. Len(chain)
    BY <1>3
  <2>4. Len(p) = common
    BY <1>1, <2>3, PrefixFacts
  <2>5. QED
    BY <2>1, <2>2, <2>4
<1>6. base = NodeOf(p)
  <2>1. CASE common = Len(chain)
    <3>1. p = chain
      BY <1>1, <2>1, PrefixFacts
    <3>2. QED
      BY <2>1, <3>1, LoadedIsNode
  <2>2. CASE common # Len(chain)
    <3>1. Rebuilt(p) = NodeOf(p)
      BY <1>1, <1>5, RebuiltIsNode
    <3>2. QED
      BY <1>1, <2>2, <3>1
  <2>3. QED
    BY <2>1, <2>2
<1> HIDE DEF base, p
<1>7. Admitted(p \o branch, common, now)
  BY <1>2, <1>4, <1>5, <1>6, StagingAdmits
<1>8. QED
  BY <1>2, <1>3, <1>7 DEF cand, common, branch, p

SInv == RInv /\ Staged

LEMMA StagedNext ==
  ASSUME CalmBlocks, SafeCrashes, Unsnapped
  PROVE  SInv /\ [Next]_vars => SInv'
<1> SUFFICES ASSUME SInv, [Next]_vars PROVE Staged'
  BY RNext DEF SInv
<1>0. /\ RInv /\ IInv /\ IInv' /\ Staged /\ now \in Nat
      /\ chain \in Seq(Known) /\ kept \in Seq(Known) /\ todo \in Seq(Known)
  BY NextKeeps DEF SInv, RInv, Ledgers, IInv, Shapes
<1>1. ASSUME phase' \in {"idle", "snapshot", "down"} PROVE Staged'
  BY <1>1 DEF Staged, Rebuilds
<1>2. ASSUME phase' \in Rebuilds, phase \in Rebuilds, kept' = kept, todo' = todo,
             now' = now
      PROVE  Staged'
  BY <1>0, <1>2 DEF Staged, Rebuilds, Target
<1>3. CASE Tick
  <2>1. /\ chain' = chain /\ kept' = kept /\ todo' = todo /\ phase' = phase
        /\ now' = now + 1
    BY <1>3 DEF Tick, ram, job
  <2>2. now' \in Nat /\ now <= now'
    BY <1>0, <2>1
  <2>3. ASSUME phase \in Rebuilds PROVE Admitted(kept \o todo, Len(kept), now')
    <3>1. Len(kept) \in Nat /\ Len(kept) >= 1 /\ kept \o todo \in Seq(Known)
      BY <1>0, <2>3, EmptySeq DEF IInv, AtHand
    <3>2. Admitted(kept \o todo, Len(kept), now)
      BY <1>0, <2>3 DEF Staged, Target
    <3>3. QED
      BY <1>0, <2>2, <3>1, <3>2, StaysAdmitted
  <2>4. ASSUME phase = "extend" PROVE Admitted(chain \o todo, Len(chain), now')
    <3>1. Len(chain) \in Nat /\ Len(chain) >= 1 /\ chain \o todo \in Seq(Known)
      BY <1>0, <2>4, EmptySeq DEF IInv, AtHand, Running
    <3>2. Admitted(chain \o todo, Len(chain), now)
      BY <1>0, <2>4 DEF Staged, Target
    <3>3. QED
      BY <1>0, <2>2, <3>1, <3>2, StaysAdmitted
  <2>5. QED
    BY <2>1, <2>3, <2>4 DEF Staged, Target
<1>4. ASSUME NEW b \in Blocks, AddBlock(b) PROVE Staged'
  <2>1. phase' \in {"idle", "snapshot"}
    BY <1>4 DEF AddBlock, Commit, Then
  <2>2. QED
    BY <1>1, <2>1
<1>5. CASE SaveSnapshot
  BY <1>0, <1>5, ExactLedger DEF SaveSnapshot
<1>6. ASSUME NEW target \in 0 .. Tip, Rollback(target) PROVE Staged'
  <2>1. phase' = "clear" /\ todo' = <<>> /\ kept' \in Seq(Known)
    BY <1>0, <1>6 DEF Rollback, StartRollback, IInv, Shapes
  <2>2. kept' \o todo' = kept' /\ Len(kept') \in Nat
    BY <2>1
  <2>3. Admitted(kept' \o todo', Len(kept'), now')
    BY <2>2 DEF Admitted
  <2>4. QED
    BY <2>1, <2>3 DEF Staged, Target
<1>7. CASE ClearState
  BY <1>2, <1>7 DEF ClearState, Rebuilds, env
<1>8. CASE Restore
  BY <1>2, <1>8 DEF Restore, Rebuilds, env
<1>9. CASE Replay
  BY <1>2, <1>9 DEF Replay, Rebuilds, env, job
<1>10. CASE FinishRollback
  <2>1. /\ phase = "replay" /\ phase' = Then(todo) /\ chain' = chain /\ todo' = todo
        /\ now' = now /\ Len(chain) = Len(kept)
    BY <1>10 DEF FinishRollback, env
  <2>2. chain = kept
    <3>1. chain = SubSeq(kept, 1, Len(kept))
      BY <1>0, <2>1 DEF IInv, AtHand
    <3>2. QED
      BY <1>0, <3>1, PrefixFacts
  <2>3. Admitted(chain' \o todo', Len(chain'), now')
    BY <1>0, <2>1, <2>2 DEF Staged, Target, Rebuilds
  <2>4. phase' \in {"idle", "extend"}
    BY <2>1, ThenExtend
  <2>5. QED
    BY <2>3, <2>4 DEF Staged, Target, Rebuilds
<1>11. ASSUME NEW offer \in Offers, ReplaceChain(offer) PROVE Staged'
  <2> DEFINE cand   == Candidate(offer)
             common == CommonLength(cand)
             branch == SubSeq(cand, common + 1, Len(cand))
  <2>1. phase = "idle" /\ Adopts(offer)
    BY <1>11 DEF ReplaceChain
  <2>2. /\ common \in 1 .. Len(chain) /\ branch \in Seq(Known)
        /\ Admitted(SubSeq(chain, 1, common) \o branch, common, now)
    BY <1>0, <2>1, AdoptsAdmitted
  <2>3. IF common < Len(chain) THEN StartRollback(common - 1, branch)
        ELSE /\ todo' = branch /\ phase' = Then(branch) /\ UNCHANGED <<ram, disk, kept, env>>
    BY <1>11 DEF ReplaceChain
  <2> HIDE DEF cand, common, branch
  <2>4. CASE common < Len(chain)
    <3>1. /\ kept' = SubSeq(chain, 1, (common - 1) + 1) /\ todo' = branch
          /\ phase' = "clear" /\ now' = now
      BY <2>3, <2>4 DEF StartRollback, env
    <3>2. (common - 1) + 1 = common /\ common \in 0 .. Len(chain)
      BY <2>2
    <3>3. Len(kept') = common
      BY <1>0, <3>1, <3>2, PrefixFacts
    <3>4. Admitted(kept' \o todo', Len(kept'), now')
      BY <2>2, <3>1, <3>2, <3>3
    <3>5. QED
      BY <3>1, <3>4 DEF Staged, Target
  <2>5. CASE ~(common < Len(chain))
    <3>1. /\ todo' = branch /\ phase' = Then(branch) /\ chain' = chain /\ now' = now
      BY <2>3, <2>5 DEF ram, env
    <3>2. Len(chain) \in Nat /\ SubSeq(chain, 1, Len(chain)) = chain
      BY <1>0, PrefixFacts
    <3>3. common < Len(chain) \/ common = Len(chain)
      <4>1. Len(chain) \in Nat
        BY <1>0, PrefixFacts
      <4>2. PICK n \in Nat : n = Len(chain)
        BY <4>1
      <4>3. common \in 1 .. n
        BY <2>2, <4>2
      <4>4. common < n \/ common = n
        BY <4>3
      <4>5. QED
        BY <4>2, <4>4
    <3>4. Admitted(chain' \o todo', Len(chain'), now')
      <4>1. common = Len(chain)
        BY <2>5, <3>3
      <4>2. QED
        BY <2>2, <3>1, <3>2, <4>1
    <3>5. phase' \in {"idle", "extend"}
      BY <3>1, ThenExtend
    <3>6. QED
      BY <3>4, <3>5 DEF Staged, Target, Rebuilds
  <2>6. QED
    BY <2>4, <2>5
<1>12. CASE ExtendBranch
  <2> DEFINE h == todo[1]
             r == Tail(todo)
  <2>1. phase = "extend" /\ Commit(h, r) /\ todo # <<>>
    BY <1>0, <1>12 DEF ExtendBranch, IInv, AtHand
  <2>2. /\ chain' = Append(chain, h) /\ todo' = r /\ now' = now
        /\ phase' \in {"snapshot", Then(r)}
    BY <2>1 DEF Commit, After, node, env
  <2>3. chain' \o todo' = chain \o todo
    BY <1>0, <2>1, <2>2, OneAhead
  <2>4. Len(chain') = Len(chain) + 1 /\ Len(chain) \in Nat
    BY <1>0, <2>2
  <2>5. Admitted(chain \o todo, Len(chain), now)
    BY <1>0, <2>1 DEF Staged, Target
  <2> HIDE DEF h, r
  <2>6. Admitted(chain' \o todo', Len(chain'), now')
    <3> DEFINE d == chain \o todo
    <3>1. Len(d) \in Nat
      BY <1>0, JoinFacts
    <3> HIDE DEF d
    <3>2. Admitted(d, Len(chain), now)
      BY <2>5 DEF d
    <3>3. Admitted(d, Len(chain) + 1, now)
      <4>1. PICK m \in Nat, n \in Nat : m = Len(chain) /\ n = Len(d)
        BY <2>4, <3>1
      <4>2. \A k \in (m + 1) + 1 .. n : k \in m + 1 .. n
        OBVIOUS
      <4>3. QED
        BY <3>2, <4>1, <4>2 DEF Admitted
    <3>4. QED
      BY <2>2, <2>3, <2>4, <3>3 DEF d
  <2>7. phase' \in {"snapshot", "idle", "extend"}
    BY <2>2, ThenExtend
  <2>8. QED
    BY <2>6, <2>7 DEF Staged, Target, Rebuilds
<1>13. CASE BranchRefused
  BY <1>1, <1>13 DEF BranchRefused
<1>14. CASE Crash \/ CrashInClear
  BY <1>1, <1>14 DEF Crash, CrashInClear, Die
<1>15. ASSUME NEW m \in 0 .. MaxTxs, CrashInReplay(m) PROVE Staged'
  BY <1>1, <1>15 DEF CrashInReplay, Die
<1>16. CASE Restart
  BY <1>1, <1>16 DEF Restart
<1>17. CASE UNCHANGED vars
  BY <1>0, <1>17 DEF vars, ram, job, env, Staged, Target
<1>18. QED
  BY <1>3, <1>4, <1>5, <1>6, <1>7, <1>8, <1>9, <1>10, <1>11, <1>12, <1>13, <1>14,
     <1>15, <1>16, <1>17 DEF Next

LEMMA StagedIsHeld ==
  ASSUME CalmBlocks, SafeCrashes, Unsnapped
  PROVE  Spec => []SInv
<1>1. Init => Staged
  BY DEF Init, Staged, Rebuilds
<1>2. Init /\ RInv => SInv
  BY <1>1 DEF SInv
<1>3. Spec => []RInv
  BY LedgerIsHeld
<1>4. QED
  BY <1>2, <1>3, StagedNext, PTL DEF Spec

\* The next block of a branch passes the checks of a branch on the live node.
LEMMA NextIsAdmitted ==
  ASSUME SInv, Unsnapped, phase = "extend"
  PROVE  AdmitsAt(NodeOf(chain), todo[1], now) /\ node = NodeOf(chain)
<1>1. /\ node = NodeOf(chain) /\ chain \in Seq(Known) /\ todo \in Seq(Known)
      /\ todo # <<>> /\ Admitted(chain \o todo, Len(chain), now)
  BY NodeOfChain DEF SInv, RInv, IInv, Shapes, AtHand, Staged, Target, Running
<1> DEFINE d == chain \o todo
           m == Len(chain)
<1>2. /\ m \in Nat /\ Len(d) = m + Len(todo) /\ Len(todo) \in Nat \ {0}
      /\ SubSeq(d, 1, m) = chain /\ \A i \in 1 .. Len(todo) : d[m + i] = todo[i]
  BY <1>1, JoinFacts, EmptySeq
<1>3. Admitted(d, m, now)
  BY <1>1
<1> HIDE DEF d, m
<1>4. m + 1 \in m + 1 .. Len(d) /\ (m + 1) - 1 = m /\ d[m + 1] = todo[1]
  BY <1>2
<1>5. AdmitsAt(NodeOf(SubSeq(d, 1, (m + 1) - 1)), d[m + 1], now)
  BY <1>3, <1>4 DEF Admitted
<1>6. QED
  BY <1>1, <1>2, <1>4, <1>5

\* chain.py:694-723. A branch that the staged copy accepted is never refused
\* halfway by the live node: the rollback in between rebuilds the very state the
\* copy started from, and what a restart or the passing of time changes makes
\* no block unacceptable. Hence BranchRefused, the RuntimeError of the code, never
\* happens.
THEOREM StagedBranchApplies ==
  ASSUME CalmBlocks, SafeCrashes, Unsnapped
  PROVE  Spec => []ValidatedBranchApplies
<1>1. SInv => ValidatedBranchApplies
  <2> SUFFICES ASSUME SInv, phase = "extend" PROVE Adds(node, todo[1], now, FALSE)
    BY DEF ValidatedBranchApplies
  <2>1. QED
    BY NextIsAdmitted DEF AdmitsAt
<1>2. Spec => []SInv
  BY StagedIsHeld
<1>3. QED
  BY <1>1, <1>2, PTL

-----------------------------------------------------------------------------
(* What any node accepts                                                    *)

\* The times that the wall clock shows
Clocks == StartClock .. MaxClock \cup {StartClock}

\* The payments whose sender validate_transaction asks for the money before the block.
Spends(tx) == tx.from # NoAcct /\ tx.op \notin ProtocolOps

\* On every chain that a block follows and executes on, what it spends is there before it.
Prefunded(b) ==
  \A c : GoodLog(c) /\ Executable(c) /\ Follows(NodeOf(c), b)
          /\ ExecBlock(StateOf(c), b).ok =>
     \A i \in DOMAIN b.txs : LET tx == b.txs[i] IN
        Spends(tx) => StateOf(c).bal[tx.from] >= tx.amt + tx.fee

\* What add_block asks of the transactions of a block and replace_chain does not: that a
\* coinbase is a payment without fee, that a signature labelled a coinbase's is read, that
\* a payment is recent, and that its sender has the money before the block.
FairBranches ==
  \A b \in Known :
     /\ Prefunded(b)
     /\ \A i \in DOMAIN b.txs : LET tx == b.txs[i] IN
          /\ tx.from = NoAcct => tx.op \in Payments /\ tx.fee = 0
          /\ Spends(tx) => /\ tx.label = "COINBASE" => tx.signed
                           /\ \A t \in Clocks : Fresh(tx, t)

\* Every block of the table passes the checks of a branch on the blocks before it.
TableAdmitted == now \in Clocks /\ Admitted(StoredChain, 1, now)

\* Enough for that is that no transaction of the block pays the sender of a later one.
LEMMA OwnMoneyIsPrefunded ==
  ASSUME CalmBlocks, NEW b \in Known,
         \A i \in DOMAIN b.txs : Spends(b.txs[i]) =>
            \A j \in 1 .. i - 1 : ~Income(b.txs[j], b.txs[i].from)
  PROVE  Prefunded(b)
<1> SUFFICES ASSUME NEW c, GoodLog(c), Executable(c), Follows(NodeOf(c), b),
                    ExecBlock(StateOf(c), b).ok, NEW i \in DOMAIN b.txs, Spends(b.txs[i])
             PROVE  StateOf(c).bal[b.txs[i].from] >= b.txs[i].amt + b.txs[i].fee
  BY DEF Prefunded
<1>1. IsLedger(StateOf(c))
  BY StateOfShape DEF GoodLog
<1>2. /\ b.txs \in Seq(Range(b.txs)) /\ AllTyped(b.txs)
      /\ NoVotes(b.txs) /\ NoSlash(b.txs)
  BY KnownBlock DEF CalmBlocks, Calm, IsBlock
<1>3. ApplyAll(StateOf(c), b.txs, b.idx).ok
  BY <1>1, <1>2, KnownBlock, ApplyAllShape, ProcessedShape DEF ExecBlock
<1>4. b.txs[i].op \in Payments
  <2>1. FullyTyped(b.txs[i])
    BY <1>2 DEF AllTyped
  <2>2. b.txs[i].op # "VALIDATOR_GOVERNANCE_EXIT" /\ b.txs[i].op # "VALIDATOR_SLASH"
    BY <1>2 DEF NoVotes, NoSlash
  <2>3. QED
    BY <2>1, <2>2 DEF FullyTyped, Typed, Spends, ProtocolOps
<1>5. b.txs[i].from # NoAcct /\ \A j \in 1 .. i - 1 : ~Income(b.txs[j], b.txs[i].from)
  BY DEF Spends
<1>6. QED
  BY <1>1, <1>2, <1>3, <1>4, <1>5, BlockGoesThrough

\* What add_block checks is more than what a branch is checked for.
LEMMA FullIsAdmitted ==
  ASSUME NEW n, NEW b, NEW t, Adds(n, b, t, TRUE)
  PROVE  AdmitsAt(n, b, t)
<1>1. Adds(n, b, t, FALSE) /\ b.intact /\ CoinbaseOK(n, b, t)
  BY DEF Adds, Accepts
<1>2. ASSUME NEW i \in DOMAIN b.txs
      PROVE  LET tx == b.txs[i] IN
             /\ InMoneyRange(tx)
             /\ tx.from # NoAcct =>
                  IF tx.op \in ProtocolOps THEN ProtocolOpOK(n, tx, b.idx)
                  ELSE SignatureOnly(tx)
  <2>1. ValidTransaction(n, b.txs[i], b.idx, t)
    BY DEF Adds, Accepts
  <2>2. QED
    BY <2>1, Zenon DEF ValidTransaction, SignatureOnly
<1>3. QED
  BY <1>1, <1>2 DEF AdmitsAt, ReorgValid

\* A fair block that a branch may bring is one that add_block accepts.
LEMMA AdmittedIsFull ==
  ASSUME FairBranches, CalmBlocks, NEW c, GoodLog(c), Executable(c), NEW b \in Known,
         NEW t \in Clocks, AdmitsAt(NodeOf(c), b, t)
  PROVE  Adds(NodeOf(c), b, t, TRUE)
<1> DEFINE n == NodeOf(c)
           s == StateIn(n)
<1>1. /\ Adds(n, b, t, FALSE) /\ ReorgValid(n, b, t)
      /\ n.bal = s.bal
  BY DEF AdmitsAt, StateIn
<1>2. IsLedger(s) /\ s.ok /\ s = StateOf(c)
  <2>1. c \in Seq(Known) /\ c # <<>> /\ c[1] = Genesis
    BY DEF GoodLog
  <2>2. s = StateOf(c)
    BY <2>1, NodeOfState
  <2> HIDE DEF s
  <2>3. QED
    BY <2>1, <2>2, StateOfShape, ExecutableEnd
<1>3. IsBlock(b) /\ Calm(b)
  BY KnownBlock DEF CalmBlocks
<1>4. ExecBlock(s, b).ok /\ Follows(NodeOf(c), b)
  BY <1>1 DEF Adds, Accepts
<1> HIDE DEF n, s
<1>5. ApplyAll(s, b.txs, b.idx).ok /\ b.txs \in Seq(Range(b.txs)) /\ AllTyped(b.txs)
  <2>1. b.txs \in Seq(Range(b.txs)) /\ AllTyped(b.txs)
    BY <1>3 DEF IsBlock
  <2>2. IsLedger(ApplyAll(s, b.txs, b.idx))
    BY <1>2, <2>1, ApplyAllShape
  <2>3. QED
    BY <1>3, <1>4, <2>1, <2>2, ProcessedShape DEF ExecBlock
<1>6. ASSUME NEW i \in DOMAIN b.txs PROVE ValidTransaction(n, b.txs[i], b.idx, t)
  <2> DEFINE tx == b.txs[i]
  <2>1. /\ InMoneyRange(tx)
        /\ tx.from # NoAcct =>
             IF tx.op \in ProtocolOps THEN ProtocolOpOK(n, tx, b.idx) ELSE SignatureOnly(tx)
    BY <1>1 DEF ReorgValid
  <2>2. tx.op \in Payments => tx.amt > 0
    <3> DEFINE txs == b.txs
               V == Range(b.txs)
    <3>1. txs \in Seq(V) /\ AllTyped(txs) /\ ApplyAll(s, txs, b.idx).ok /\ i \in DOMAIN txs
      BY <1>5
    <3> HIDE DEF V, txs
    <3>2. txs[i].op \in Payments => txs[i].amt > 0
      BY <1>2, <3>1, BlockGoesThrough
    <3>3. QED
      BY <3>2 DEF txs
  <2>3. /\ tx.from = NoAcct => tx.op \in Payments /\ tx.fee = 0
        /\ Spends(tx) => /\ tx.label = "COINBASE" => tx.signed
                         /\ Fresh(tx, t)
                         /\ n.bal[tx.from] >= tx.amt + tx.fee
    <3>1. Spends(tx) => StateOf(c).bal[tx.from] >= tx.amt + tx.fee
      BY <1>2, <1>4 DEF FairBranches, Prefunded
    <3>2. QED
      BY <1>1, <1>2, <3>1 DEF FairBranches
  <2> SUFFICES ValidTransaction(n, tx, b.idx, t)
    OBVIOUS
  <2>4. FullyTyped(tx) /\ tx.op # "VALIDATOR_GOVERNANCE_EXIT" /\ tx.op # "VALIDATOR_SLASH"
    BY <1>3, <1>5 DEF AllTyped, Calm, NoVotes, NoSlash
  <2> HIDE DEF tx
  <2>5. \/ tx.op \in Payments
        \/ tx.op \in ProtocolOps \ {"VALIDATOR_REGISTER"}
    BY <2>4 DEF FullyTyped, Typed, ProtocolOps
  <2>6. CASE tx.from = NoAcct
    BY <2>1, <2>2, <2>3, <2>6 DEF ValidTransaction
  <2>7. CASE tx.from # NoAcct
    <3>1. tx.amt = 0 => tx.op \in ProtocolOps \ {"VALIDATOR_REGISTER"}
      <4>1. tx.amt = 0 => ~(tx.amt > 0)
        OBVIOUS
      <4>2. QED
        BY <2>2, <2>5, <4>1
    <3>2. CASE tx.op \in ProtocolOps
      BY <2>1, <2>7, <3>1, <3>2 DEF ValidTransaction
    <3>3. CASE tx.op \notin ProtocolOps
      <4>1. Spends(tx)
        BY <2>7, <3>3 DEF Spends
      <4>2. tx.signed
        BY <2>1, <2>3, <2>7, <3>3, <4>1 DEF SignatureOnly
      <4>3. QED
        BY <2>1, <2>3, <2>7, <3>1, <3>3, <4>1, <4>2 DEF ValidTransaction
    <3>4. QED
      BY <3>2, <3>3
  <2>8. QED
    BY <2>6, <2>7
<1>7. Adds(n, b, t, TRUE)
  BY <1>1, <1>6 DEF Adds, Accepts
<1>8. QED
  BY <1>7 DEF n

\* What is admitted from genesis is so up to every block,
LEMMA AdmittedPrefix ==
  ASSUME NEW d \in Seq(Known), NEW t, Admitted(d, 1, t), NEW n \in 1 .. Len(d)
  PROVE  Admitted(SubSeq(d, 1, n), 1, t)
<1> DEFINE p == SubSeq(d, 1, n)
<1>1. /\ Len(d) \in Nat /\ Len(p) = n /\ \A k \in 1 .. n : p[k] = d[k]
      /\ \A k \in 1 + 1 .. n : SubSeq(p, 1, k - 1) = SubSeq(d, 1, k - 1)
  OBVIOUS
<1> HIDE DEF p
<1>2. ASSUME NEW k \in 1 + 1 .. n PROVE AdmitsAt(NodeOf(SubSeq(p, 1, k - 1)), p[k], t)
  <2>1. k \in 1 .. n /\ k \in 1 + 1 .. Len(d)
    BY <1>1
  <2>2. AdmitsAt(NodeOf(SubSeq(d, 1, k - 1)), d[k], t)
    BY <2>1 DEF Admitted
  <2>3. QED
    BY <1>1, <2>1, <2>2
<1>3. QED
  BY <1>1, <1>2 DEF Admitted, p

\* and with a block more that is admitted.
LEMMA AdmittedAppend ==
  ASSUME NEW c \in Seq(Known), c # <<>>, NEW t, Admitted(c, 1, t), NEW b,
         AdmitsAt(NodeOf(c), b, t)
  PROVE  Admitted(Append(c, b), 1, t)
<1> DEFINE d == Append(c, b)
<1>1. /\ Len(c) \in Nat \ {0} /\ Len(d) = Len(c) + 1 /\ d[Len(c) + 1] = b
      /\ \A k \in 1 .. Len(c) : d[k] = c[k] /\ SubSeq(d, 1, k) = SubSeq(c, 1, k)
      /\ SubSeq(c, 1, Len(c)) = c
  BY EmptySeq
<1> HIDE DEF d
<1>2. ASSUME NEW k \in 1 + 1 .. Len(d) PROVE AdmitsAt(NodeOf(SubSeq(d, 1, k - 1)), d[k], t)
  <2>1. PICK n \in Nat \ {0} : n = Len(c)
    BY <1>1
  <2>2. k - 1 \in 1 .. n /\ (k = n + 1 \/ k \in 1 .. n)
    BY <1>1, <2>1
  <2>3. SubSeq(d, 1, k - 1) = SubSeq(c, 1, k - 1)
    BY <1>1, <2>1, <2>2
  <2>4. CASE k = n + 1
    <3>1. k - 1 = n /\ d[k] = b
      BY <1>1, <2>1, <2>4
    <3>2. QED
      BY <1>1, <2>1, <2>3, <3>1
  <2>5. CASE k \in 1 .. n
    <3>1. k \in 1 + 1 .. Len(c) /\ d[k] = c[k]
      BY <1>1, <2>1, <2>5
    <3>2. QED
      BY <2>3, <3>1 DEF Admitted
  <2>6. QED
    BY <2>2, <2>4, <2>5
<1>3. QED
  BY <1>2 DEF Admitted, d

\* Adding an admitted block leaves a table of admitted blocks.
LEMMA CommitAdmitted ==
  ASSUME IInv, IInv', TableAdmitted, phase \in {"idle", "extend"}, NEW b \in Known, NEW rest,
         rest \in Seq(Known), AdmitsAt(NodeOf(chain), b, now), Commit(b, rest)
  PROVE  TableAdmitted'
<1>1. /\ chain \in Seq(Known) /\ chain # <<>> /\ StoredChain = chain
  BY LogAtHand DEF Running, GoodLog
<1>2. /\ chain' = Append(chain, b) /\ now' = now
      /\ phase' = IF b.idx % SnapEvery = 0 THEN "snapshot" ELSE Then(rest)
  BY DEF Commit, After, node, env
<1>3. phase' \in Running
  BY <1>2, ThenExtend DEF Running
<1>4. StoredChain' = chain'
  <2>1. chain' \in Seq(Known) /\ chain' # <<>> /\ stored' = Rows(chain')
    BY <1>1, <1>2, <1>3 DEF IInv, DiskHoldsChain, Running
  <2>2. QED
    BY <2>1, ReadBackNext
<1>5. Admitted(Append(chain, b), 1, now)
  BY <1>1, AdmittedAppend DEF TableAdmitted
<1>6. QED
  BY <1>2, <1>4, <1>5 DEF TableAdmitted

\* So does taking blocks away.
LEMMA StartRollbackAdmitted ==
  ASSUME IInv, IInv', TableAdmitted, phase = "idle", NEW target \in Int, NEW branch,
         StartRollback(target, branch)
  PROVE  TableAdmitted'
<1>1. chain \in Seq(Known) /\ chain # <<>> /\ StoredChain = chain
  BY LogAtHand DEF Running, GoodLog
<1>2. target + 1 \in 1 .. Len(chain)
  BY <1>1, EmptySeq DEF StartRollback, Tip
<1>3. kept' = SubSeq(chain, 1, target + 1) /\ phase' = "clear" /\ now' = now
  BY DEF StartRollback, env
<1>4. StoredChain' = kept'
  <2>1. kept' \in Seq(Known) /\ kept' # <<>> /\ stored' = Rows(kept')
    BY <1>3 DEF IInv, Shapes, AtHand, Rebuilds, DiskHoldsChain
  <2>2. QED
    BY <2>1, ReadBackNext
<1>5. Admitted(SubSeq(chain, 1, target + 1), 1, now)
  BY <1>1, <1>2, AdmittedPrefix DEF TableAdmitted
<1>6. QED
  BY <1>3, <1>4, <1>5 DEF TableAdmitted

LEMMA TableStaysAdmitted ==
  ASSUME TableAdmitted, stored' = stored, now' = now
  PROVE  TableAdmitted'
BY DEF TableAdmitted, StoredChain

LEMMA TableAdmittedNext ==
  ASSUME CalmBlocks, SafeCrashes, Unsnapped
  PROVE  SInv /\ TableAdmitted /\ [Next]_vars => TableAdmitted'
<1> SUFFICES ASSUME SInv, TableAdmitted, [Next]_vars PROVE TableAdmitted'
  OBVIOUS
<1>0. RInv /\ IInv /\ IInv' /\ now \in Nat
  BY NextKeeps DEF SInv, RInv, Ledgers
<1>1. CASE Tick
  <2>1. now' = now + 1 /\ now < MaxClock /\ StoredChain' = StoredChain
    BY <1>1 DEF Tick, disk, StoredChain
  <2>2. now' \in Nat /\ now <= now' /\ now' \in Clocks
    BY <1>0, <2>1, ChainConstants DEF TableAdmitted, Clocks, ChainConstants
  <2>3. StoredChain \in Seq(Known)
    BY <1>0 DEF IInv, Table, GoodLog
  <2>4. Admitted(StoredChain, 1, now')
    BY <1>0, <2>2, <2>3, StaysAdmitted DEF TableAdmitted
  <2>5. QED
    BY <2>1, <2>2, <2>4 DEF TableAdmitted
<1>2. ASSUME NEW b \in Blocks, AddBlock(b) PROVE TableAdmitted'
  <2>1. phase = "idle" /\ Adds(node, b, now, TRUE) /\ Commit(b, <<>>)
    BY <1>2 DEF AddBlock
  <2>2. node = NodeOf(chain)
    BY <1>0, <2>1, NodeOfChain DEF Running
  <2>3. AdmitsAt(NodeOf(chain), b, now)
    BY <2>1, <2>2, FullIsAdmitted
  <2>4. b \in Known /\ <<>> \in Seq(Known)
    BY DEF Known
  <2>5. QED
    BY <1>0, <2>1, <2>3, <2>4, CommitAdmitted
<1>3. CASE SaveSnapshot
  BY <1>3, TableStaysAdmitted DEF SaveSnapshot, env
<1>4. ASSUME NEW target \in 0 .. Tip, Rollback(target) PROVE TableAdmitted'
  BY <1>0, <1>4, StartRollbackAdmitted DEF Rollback
<1>5. CASE ClearState
  BY <1>5, TableStaysAdmitted DEF ClearState, env
<1>6. CASE Restore
  BY <1>6, TableStaysAdmitted DEF Restore, env
<1>7. CASE Replay
  BY <1>7, TableStaysAdmitted DEF Replay, env
<1>8. CASE FinishRollback
  BY <1>8, TableStaysAdmitted DEF FinishRollback, disk, env
<1>9. ASSUME NEW offer \in Offers, ReplaceChain(offer) PROVE TableAdmitted'
  <2> DEFINE cand   == Candidate(offer)
             common == CommonLength(cand)
             branch == SubSeq(cand, common + 1, Len(cand))
  <2>1. phase = "idle" /\ Adopts(offer)
    BY <1>9 DEF ReplaceChain
  <2>2. common - 1 \in Int
    <3>1. common \in Nat
      BY <1>0, <2>1, CandidateShape DEF Adopts, IInv, Shapes
    <3> HIDE DEF common
    <3>2. QED
      BY <3>1
  <2>3. \/ StartRollback(common - 1, branch)
        \/ stored' = stored /\ now' = now
    BY <1>9 DEF ReplaceChain, disk, env
  <2> HIDE DEF cand, common, branch
  <2>4. QED
    BY <1>0, <2>1, <2>2, <2>3, StartRollbackAdmitted, TableStaysAdmitted
<1>10. CASE ExtendBranch
  <2>1. phase = "extend" /\ todo \in Seq(Known) /\ todo # <<>>
        /\ Commit(todo[1], Tail(todo))
    BY <1>0, <1>10 DEF ExtendBranch, IInv, Shapes, AtHand
  <2>2. todo[1] \in Known /\ Tail(todo) \in Seq(Known)
    BY <2>1, HeadTailProperties
  <2>3. AdmitsAt(NodeOf(chain), todo[1], now)
    BY <2>1, NextIsAdmitted
  <2>4. QED
    BY <1>0, <2>1, <2>2, <2>3, CommitAdmitted
<1>11. CASE BranchRefused
  BY <1>11, TableStaysAdmitted DEF BranchRefused, disk, env
<1>12. CASE Crash \/ CrashInClear
  BY <1>12, TableStaysAdmitted DEF Crash, CrashInClear, disk
<1>13. ASSUME NEW m \in 0 .. MaxTxs, CrashInReplay(m) PROVE TableAdmitted'
  BY <1>13, TableStaysAdmitted DEF CrashInReplay
<1>14. CASE Restart
  BY <1>14, TableStaysAdmitted DEF Restart, disk, env
<1>15. CASE UNCHANGED vars
  BY <1>15, TableStaysAdmitted DEF vars, disk, env
<1>16. QED
  BY <1>1, <1>2, <1>3, <1>4, <1>5, <1>6, <1>7, <1>8, <1>9, <1>10, <1>11, <1>12,
     <1>13, <1>14, <1>15 DEF Next

\* chain.py:427-457, 459-544, 697-721. A chain that came in branches, by whatever rollbacks
\* and restarts, is one that a node which only ever adds blocks accepts from genesis: of
\* what add_block checks, replace_chain leaves out nothing but what FairBranches says.
THEOREM AnyNodeAcceptsTheChain ==
  ASSUME CalmBlocks, SafeCrashes, Unsnapped, FairBranches
  PROVE  Spec => []AnyNodeAccepts
<1>1. Init => TableAdmitted
  <2> SUFFICES ASSUME Init PROVE TableAdmitted
    OBVIOUS
  <2>1. now \in Clocks
    BY DEF Init, Clocks
  <2>2. StoredChain = <<Genesis>>
    <3>1. <<Genesis>> \in Seq(Known) /\ <<Genesis>> # <<>>
      BY DEF Known
    <3>2. QED
      BY <3>1, ReadBack DEF Init
  <2>3. \A k \in 1 + 1 .. Len(<<Genesis>>) : FALSE
    OBVIOUS
  <2>4. QED
    BY <2>1, <2>2, <2>3 DEF TableAdmitted, Admitted
<1>2. SInv /\ TableAdmitted => AnyNodeAccepts
  <2> SUFFICES ASSUME SInv, TableAdmitted, Idle, NEW n \in 1 .. Len(chain) - 1
               PROVE  Adds(Witness(n), chain[n + 1], now, TRUE)
    BY DEF AnyNodeAccepts
  <2> DEFINE c == SubSeq(chain, 1, n)
  <2>1. StoredChain = chain /\ GoodLog(chain) /\ Executable(chain)
    BY LogAtHand DEF SInv, RInv, Running, Idle, Replayed
  <2>2. chain \in Seq(Known) /\ Len(chain) \in Nat /\ n \in 1 .. Len(chain)
        /\ n + 1 \in 1 .. Len(chain) /\ n + 1 \in 1 + 1 .. Len(chain) /\ (n + 1) - 1 = n
    BY <2>1 DEF GoodLog
  <2>3. GoodLog(c) /\ Executable(c) /\ chain[n + 1] \in Known
    <3>1. GoodLog(c)
      BY <2>1, <2>2, GoodPrefix
    <3>2. Executable(c)
      BY <2>1, <2>2, ExecutablePrefix
    <3>3. QED
      BY <2>2, <3>1, <3>2
  <2>4. AdmitsAt(NodeOf(c), chain[n + 1], now) /\ now \in Clocks
    BY <2>1, <2>2 DEF TableAdmitted, Admitted
  <2>5. Witness(n) = NodeOf(c)
    BY DEF Witness, NodeOf
  <2> HIDE DEF c
  <2>6. QED
    BY <2>3, <2>4, <2>5, AdmittedIsFull
<1>3. Spec => []SInv
  BY StagedIsHeld
<1>4. QED
  BY <1>1, <1>2, <1>3, TableAdmittedNext, PTL DEF Spec

-----------------------------------------------------------------------------
(* Money                                                                    *)

\* A chain that executes holds what its blocks created, less what they lost.
LEMMA ChainMoney ==
  ASSUME NEW c \in Seq(Known), c # <<>>, c[1] = Genesis, Executable(c)
  PROVE  Total(StateOf(c).bal) = SumOver(c, CoinbaseOf) - SumOver(c, FeesOf)
<1> DEFINE At(n) == StateOf(SubSeq(c, 1, n))
           made == [i \in DOMAIN c |-> MadeIn(c[i].txs)]
           lost == [i \in DOMAIN c |-> LostIn(c[i].txs)]
           Balanced(n) == Money(At(n)) = SumTo(n, made) - SumTo(n, lost)
           T == {n \in Nat : n >= 1 /\ n <= Len(c) => Balanced(n)}
<1>1. /\ Len(c) \in Nat /\ Len(c) >= 1 /\ DOMAIN c = 1 .. Len(c)
      /\ At(Len(c)) = StateOf(c)
  <2>1. Len(c) \in Nat /\ Len(c) >= 1 /\ DOMAIN c = 1 .. Len(c)
    BY EmptySeq
  <2>2. SubSeq(c, 1, Len(c)) = c
    BY PrefixFacts
  <2>3. QED
    BY <2>1, <2>2
<1>2. \A n \in 1 .. Len(c) : IsLedger(At(n)) /\ At(n).ok
  <2>1. ASSUME NEW n \in 1 .. Len(c) PROVE IsLedger(At(n))
    <3> DEFINE d == SubSeq(c, 1, n)
    <3>1. d \in Seq(Known) /\ Len(d) = n /\ d[1] = c[1] /\ d # <<>>
      BY <1>1
    <3> HIDE DEF d
    <3>2. IsLedger(StateOf(d))
      BY <3>1, StateOfShape
    <3>3. QED
      BY <3>2 DEF d
  <2>2. \A n \in 1 .. Len(c) : At(n).ok
    BY DEF Executable
  <2>3. QED
    BY <2>1, <2>2
<1>3. At(1) = GenesisState
  <2>1. 1 \in 0 .. Len(c)
    BY <1>1
  <2>2. Len(SubSeq(c, 1, 1)) = 1
    BY <2>1, PrefixFacts
  <2>3. QED
    BY <2>2, StateOfOne
<1>4. ASSUME NEW n \in Nat, n < Len(c), n >= 1
      PROVE  At(n + 1) = ExecBlock(At(n), c[n + 1])
  <2>1. n \in 1 .. Len(c) - 1
    BY <1>1, <1>4
  <2>2. QED
    BY <2>1, StateOfMore
<1>5. MadeIn(Genesis.txs) = 0 /\ LostIn(Genesis.txs) = 0
  <2>1. Genesis.txs = <<>> /\ DOMAIN <<>> = {}
    BY ChainConstants DEF ChainConstants
  <2>2. /\ DOMAIN [i \in DOMAIN Genesis.txs |-> Made(Genesis.txs[i])] = {}
        /\ DOMAIN [i \in DOMAIN Genesis.txs |-> Lost(Genesis.txs[i])] = {}
    BY <2>1
  <2>3. QED
    BY <2>2, SumOfNone DEF MadeIn, LostIn
<1>6. Money(GenesisState) = 0
  <2>1. GenesisState.bal = [a \in Acct |-> 0] /\ IsFiniteSet(Acct)
    BY RegistryConstants DEF GenesisState, NoBalances, RegistryConstants
  <2>2. QED
    BY <2>1, SumOfZeros DEF Money
<1>7. made[1] = 0 /\ lost[1] = 0 /\ 1 \in 1 .. Len(c)
  BY <1>1, <1>5
<1>8. \A i \in 1 .. Len(c) : made[i] = MadeIn(c[i].txs) /\ lost[i] = LostIn(c[i].txs)
  BY <1>1
<1> HIDE DEF At, made, lost
<1>9. ASSUME NEW n \in Nat, n < Len(c), n >= 1
      PROVE  /\ Money(At(n + 1)) = Money(At(n)) + made[n + 1] - lost[n + 1]
             /\ Money(At(n)) \in Int
             /\ made[n + 1] \in Int /\ lost[n + 1] \in Int
  <2> DEFINE b == c[n + 1]
  <2>1. n \in 1 .. Len(c) /\ n + 1 \in 1 .. Len(c)
    BY <1>1, <1>9
  <2>2. b \in Known
    BY <2>1, PrefixFacts
  <2>3. made[n + 1] = MadeIn(b.txs) /\ lost[n + 1] = LostIn(b.txs)
    BY <1>8, <2>1
  <2>4. IsLedger(At(n)) /\ At(n + 1).ok
    BY <1>2, <2>1
  <2>5. At(n + 1) = ExecBlock(At(n), b)
    BY <1>4, <1>9
  <2> HIDE DEF b
  <2>6. IsBlock(b)
    BY <2>2, KnownBlock
  <2>7. /\ Money(At(n + 1)) = Money(At(n)) + MadeIn(b.txs) - LostIn(b.txs)
        /\ MadeIn(b.txs) \in Int /\ LostIn(b.txs) \in Int
    BY <2>4, <2>5, <2>6, ExecMoney
  <2>8. Money(At(n)) \in Int
    BY <2>4, MoneyIsInt
  <2>9. QED
    BY <2>3, <2>7, <2>8
<1>10. \A i \in 1 .. Len(c) : made[i] \in Int /\ lost[i] \in Int
  <2>1. ASSUME NEW i \in 1 .. Len(c) PROVE made[i] \in Int /\ lost[i] \in Int
    <3>1. CASE i = 1
      BY <1>7, <3>1
    <3>2. CASE i # 1
      <4>1. PICK n \in Nat : i = n + 1 /\ n < Len(c) /\ n >= 1
        <5>1. i - 1 \in Nat /\ i = (i - 1) + 1 /\ i - 1 < Len(c) /\ i - 1 >= 1
          BY <1>1, <3>2
        <5>2. QED
          BY <5>1
      <4>2. QED
        BY <1>9, <4>1
    <3>3. QED
      BY <3>1, <3>2
  <2>2. QED
    BY <2>1
<1>11. Balanced(1)
  <2>1. 0 \in Nat /\ 0 + 1 = 1 /\ \A i \in 1 .. 0 + 1 : i = 1
    OBVIOUS
  <2>2. \A i \in 1 .. 0 + 1 : made[i] \in Int /\ lost[i] \in Int
    BY <1>7, <2>1
  <2>3. SumTo(0 + 1, made) = SumTo(0, made) + made[0 + 1]
    BY <2>1, <2>2, SumToMore
  <2>4. SumTo(0 + 1, lost) = SumTo(0, lost) + lost[0 + 1]
    BY <2>1, <2>2, SumToMore
  <2>5. SumTo(0, made) = 0 /\ SumTo(0, lost) = 0
    BY SumToNone
  <2>6. SumTo(1, made) = 0 /\ SumTo(1, lost) = 0
    BY <1>7, <2>1, <2>3, <2>4, <2>5
  <2>7. QED
    BY <1>3, <1>6, <2>6
<1>12. ASSUME NEW n \in Nat, n < Len(c), n \in T PROVE n + 1 \in T
  <2>1. CASE n = 0
    BY <1>11, <2>1
  <2>2. CASE n >= 1
    <3>1. Balanced(n)
      BY <1>12, <2>2
    <3>2. /\ Money(At(n + 1)) = Money(At(n)) + made[n + 1] - lost[n + 1]
          /\ made[n + 1] \in Int /\ lost[n + 1] \in Int
      BY <1>9, <1>12, <2>2
    <3>3. \A i \in 1 .. n + 1 : made[i] \in Int /\ lost[i] \in Int
      <4>1. \A i \in 1 .. n + 1 : i \in 1 .. Len(c)
        BY <1>1, <1>12
      <4>2. QED
        BY <1>10, <4>1
    <3>4. SumTo(n + 1, made) = SumTo(n, made) + made[n + 1] /\ SumTo(n, made) \in Int
      BY <3>3, SumToMore
    <3>5. SumTo(n + 1, lost) = SumTo(n, lost) + lost[n + 1] /\ SumTo(n, lost) \in Int
      BY <3>3, SumToMore
    <3>6. Balanced(n + 1)
      BY <3>1, <3>2, <3>4, <3>5
    <3> HIDE DEF Balanced
    <3>7. QED
      BY <3>6
  <2>3. QED
    BY <1>12, <2>1, <2>2
<1>13. Len(c) \in T
  <2>1. 0 \in T
    OBVIOUS
  <2> HIDE DEF T
  <2>2. QED
    BY <1>1, <1>12, <2>1, UpTo
<1>14. Balanced(Len(c))
  <2> HIDE DEF Balanced
  <2>1. QED
    BY <1>1, <1>13
<1>15. made \in [1 .. Len(c) -> Int] /\ lost \in [1 .. Len(c) -> Int]
  <2>1. made = [i \in 1 .. Len(c) |-> made[i]] /\ lost = [i \in 1 .. Len(c) |-> lost[i]]
    BY <1>1 DEF made, lost
  <2>2. QED
    BY <1>10, <2>1
<1>16. SumTo(Len(c), made) = SumFunction(made) /\ SumTo(Len(c), lost) = SumFunction(lost)
  BY <1>1, <1>15, SumToAll
<1>17. SumOver(c, CoinbaseOf) = SumFunction(made) /\ SumOver(c, FeesOf) = SumFunction(lost)
  BY Zenon DEF SumOver, CoinbaseOf, FeesOf, made, lost, MadeIn, LostIn, Made, Lost
<1>18. QED
  BY <1>1, <1>14, <1>16, <1>17 DEF Money, Total

\* storage.py:104-156, state.py:141-157. No reorganisation, snapshot or restart makes
\* or loses money: what the accounts hold together is what the coinbases of the
\* chain created, less the fees that its payments left to nobody.
THEOREM MoneyIsAccounted ==
  ASSUME CalmBlocks, HashIsContent \/ Unsnapped, SafeCrashes
  PROVE  Spec => []MoneyAccounted
<1>1. RInv => MoneyAccounted
  <2> SUFFICES ASSUME RInv, Idle PROVE MoneyAccounted
    BY DEF MoneyAccounted
  <2>1. phase \in Running
    BY DEF Running, Idle
  <2>2. SameLedger(StateIn(node), StateOf(chain))
    BY <2>1 DEF RInv, Replayed, Stands
  <2>3. balances = StateOf(chain).bal
    BY <2>2, HeldLedger DEF SameLedger
  <2>4. StoredChain = chain /\ GoodLog(chain)
    BY <2>1, LogAtHand DEF RInv
  <2>5. chain \in Seq(Known) /\ chain # <<>> /\ chain[1] = Genesis /\ Executable(chain)
    BY <2>4 DEF RInv, Replayed, GoodLog
  <2>6. Total(StateOf(chain).bal) = SumOver(chain, CoinbaseOf) - SumOver(chain, FeesOf)
    BY <2>5, ChainMoney
  <2>7. QED
    BY <2>3, <2>6 DEF MoneyAccounted
<1>2. QED
  BY <1>1, LedgerIsHeld, PTL
-----------------------------------------------------------------------------
(* Exponents apart                                                          *)

\* Nobody changes the exponent it registered with.
NoneUpdated == \A b \in Known : NoUpdates(b.txs)

ApartEverywhere ==
  /\ Apart(registry.validators)
  /\ \A i \in DOMAIN snapshots : Apart(snapshots[i].validators)

LEMMA NobodyIsApart == Apart(EmptyRegistry.validators)
BY DEF Apart, EmptyRegistry, NoValidators

LEMMA SeedIsApart ==
  ASSUME NEW snap, IsSnapshot(snap), Apart(snap.validators)
  PROVE  Apart(SeedHistory(snap).validators)
<1> DEFINE old == snap.validators
           map == [v \in DOMAIN old |-> [old[v] EXCEPT !.m3 = FALSE]]
<1>1. DOMAIN map = DOMAIN old /\ \A v \in DOMAIN old : map[v].lam = old[v].lam
  BY DEF IsSnapshot, IsMap, Entries
<1>2. SeedHistory(snap).validators \in {EmptyRegistry.validators, map}
  BY DEF SeedHistory
<1> HIDE DEF map
<1>3. Apart(map)
  BY <1>1, SameLamsApart
<1>4. QED
  BY <1>2, <1>3, NobodyIsApart

LEMMA BaseIsApart ==
  ASSUME NEW s, Ledgers, ApartEverywhere
  PROVE  Apart(Base(s).reg.validators)
<1>1. CASE UsableSnapshot(s) = {}
  BY <1>1, NobodyIsApart DEF Base
<1>2. CASE UsableSnapshot(s) # {}
  <2>1. PICK i \in UsableSnapshot(s) : Base(s).reg = SeedHistory(snapshots[i])
    BY <1>2 DEF Base
  <2>2. i \in DOMAIN snapshots
    BY DEF UsableSnapshot, LatestSnapshot
  <2>3. IsSnapshot(snapshots[i]) /\ Apart(snapshots[i].validators)
    BY <2>2 DEF Ledgers, ApartEverywhere
  <2>4. QED
    BY <2>1, <2>3, SeedIsApart
<1>3. QED
  BY <1>1, <1>2

LEMMA LoadedIsApart ==
  ASSUME NoneUpdated, NEW blocks \in Seq(Known)
  PROVE  Apart(LoadedRegistry(blocks).validators)
<1> DEFINE At(n) == LoadedRegistry(SubSeq(blocks, 1, n))
           T == {n \in Nat : IsRegistry(At(n)) /\ Apart(At(n).validators)}
<1>1. Len(blocks) \in Nat /\ At(Len(blocks)) = LoadedRegistry(blocks) /\ At(0) = EmptyRegistry
  BY PrefixFacts, LoadedNone
<1>2. ASSUME NEW n \in Nat, n < Len(blocks)
      PROVE  At(n + 1) = ProcessAll(At(n), blocks[n + 1].txs, blocks[n + 1].idx)
  BY <1>2, LoadedMore
<1> HIDE DEF At
<1>3. 0 \in T
  BY <1>1, EmptyIsRegistry, NobodyIsApart
<1>4. ASSUME NEW n \in Nat, n < Len(blocks), n \in T PROVE n + 1 \in T
  <2> DEFINE b == blocks[n + 1]
  <2>1. b \in Known
    <3>1. n + 1 \in 1 .. Len(blocks)
      BY <1>1, <1>4
    <3>2. QED
      BY <3>1, PrefixFacts
  <2>2. At(n + 1) = ProcessAll(At(n), b.txs, b.idx)
    BY <1>2, <1>4
  <2> HIDE DEF b
  <2>3. IsBlock(b) /\ NoUpdates(b.txs)
    BY <2>1, KnownBlock DEF NoneUpdated
  <2>4. IsRegistry(At(n)) /\ Apart(At(n).validators)
    BY <1>4
  <2>5. IsRegistry(At(n + 1)) /\ Apart(At(n + 1).validators)
    BY <2>2, <2>3, <2>4, ProcessAllShape, ProcessAllApart DEF IsBlock
  <2>6. QED
    BY <2>5
<1>5. Len(blocks) \in T
  <2> HIDE DEF T
  <2>1. QED
    BY <1>1, <1>3, <1>4, UpTo
<1>6. QED
  BY <1>1, <1>5

LEMMA CommitApart ==
  ASSUME NoneUpdated, Ledgers, ApartEverywhere, NEW b \in Known, NEW rest, Commit(b, rest)
  PROVE  ApartEverywhere'
<1> DEFINE s == StateIn(node)
<1>1. IsLedger(s) /\ s.reg = registry
  BY NodeLedger DEF node, Ledgers, StateIn
<1>2. IsBlock(b) /\ NoUpdates(b.txs)
  BY KnownBlock DEF NoneUpdated
<1>3. registry' = ExecBlock(s, b).reg /\ snapshots' = snapshots
  BY DEF Commit, After
<1> HIDE DEF s
<1>4. Apart(ExecBlock(s, b).reg.validators)
  BY <1>1, <1>2, ExecApart DEF ApartEverywhere
<1>5. QED
  BY <1>3, <1>4 DEF ApartEverywhere

LEMMA ApartStay ==
  ASSUME ApartEverywhere, registry' \in {registry, EmptyRegistry}, snapshots' = snapshots
  PROVE  ApartEverywhere'
BY NobodyIsApart DEF ApartEverywhere

LEMMA ApartNext ==
  ASSUME NoneUpdated
  PROVE  IInv /\ Ledgers /\ ApartEverywhere /\ [Next]_vars => ApartEverywhere'
<1> SUFFICES ASSUME IInv, Ledgers, ApartEverywhere, [Next]_vars PROVE ApartEverywhere'
  OBVIOUS
<1>1. CASE Tick
  BY <1>1, ApartStay DEF Tick, ram, disk
<1>2. ASSUME NEW b \in Blocks, AddBlock(b) PROVE ApartEverywhere'
  BY <1>2, CommitApart DEF AddBlock, Known
<1>3. CASE SaveSnapshot
  <2>1. PICK snap : snap.validators = registry.validators /\ snapshots' = Put(snapshots, Tip, snap)
    BY <1>3 DEF SaveSnapshot
  <2>2. \A i \in DOMAIN snapshots' : Apart(snapshots'[i].validators)
    BY <2>1 DEF Put, ApartEverywhere
  <2>3. registry' = registry
    BY <1>3 DEF SaveSnapshot, ram
  <2>4. QED
    BY <2>2, <2>3 DEF ApartEverywhere
<1>4. ASSUME NEW target \in 0 .. Tip, Rollback(target) PROVE ApartEverywhere'
  BY <1>4, ApartStay DEF Rollback, StartRollback, ram
<1>5. CASE ClearState
  BY <1>5, ApartStay DEF ClearState
<1>6. CASE Restore
  BY <1>6, BaseIsApart DEF Restore, ApartEverywhere
<1>7. CASE Replay
  <2> DEFINE b == kept[Len(chain) + 1]
             s == StateIn(node)
  <2>1. b \in Known
    <3>1. /\ chain \in Seq(Known) /\ kept \in Seq(Known)
          /\ Len(chain) \in 1 .. Len(kept) /\ Len(chain) < Len(kept)
      BY <1>7 DEF IInv, Shapes, AtHand, Replay
    <3>2. QED
      BY <3>1
  <2>2. registry' = ReplayBlock(s, b).reg /\ snapshots' = snapshots
    BY <1>7 DEF Replay
  <2>3. IsLedger(s) /\ s.reg = registry
    BY NodeLedger DEF node, Ledgers, StateIn
  <2> HIDE DEF b, s
  <2>4. IsBlock(b) /\ NoUpdates(b.txs)
    BY <2>1, KnownBlock DEF NoneUpdated
  <2>5. Apart(ReplayBlock(s, b).reg.validators)
    BY <2>3, <2>4, ExecApart DEF ApartEverywhere
  <2>6. QED
    BY <2>2, <2>5 DEF ApartEverywhere
<1>8. CASE FinishRollback
  BY <1>8, ApartStay DEF FinishRollback, disk
<1>9. ASSUME NEW offer \in Offers, ReplaceChain(offer) PROVE ApartEverywhere'
  BY <1>9, ApartStay DEF ReplaceChain, StartRollback, ram, disk
<1>10. CASE ExtendBranch
  <2>1. todo[1] \in Known
    BY <1>10, HeadTailProperties DEF ExtendBranch, IInv, Shapes, AtHand
  <2>2. QED
    BY <1>10, <2>1, CommitApart DEF ExtendBranch
<1>11. CASE BranchRefused
  BY <1>11, ApartStay DEF BranchRefused, ram, disk
<1>12. CASE Crash \/ CrashInClear
  BY <1>12, ApartStay DEF Crash, CrashInClear, Die, disk
<1>13. ASSUME NEW m \in 0 .. MaxTxs, CrashInReplay(m) PROVE ApartEverywhere'
  <2>1. registry' = EmptyRegistry /\ snapshots' = snapshots
    BY <1>13 DEF CrashInReplay, Die
  <2>2. QED
    BY <2>1, ApartStay
<1>14. CASE Restart
  <2>1. StoredChain \in Seq(Known)
    BY DEF IInv, Table, GoodLog
  <2>2. registry' = LoadedRegistry(StoredChain) /\ snapshots' = snapshots
    BY <1>14 DEF Restart, Loaded, disk
  <2>3. QED
    BY <2>1, <2>2, LoadedIsApart DEF ApartEverywhere
<1>15. CASE UNCHANGED vars
  BY <1>15, ApartStay DEF vars, ram, disk
<1>16. QED
  BY <1>1, <1>2, <1>3, <1>4, <1>5, <1>6, <1>7, <1>8, <1>9, <1>10, <1>11, <1>12,
     <1>13, <1>14, <1>15 DEF Next

\* validator_registry.py:107-120, 277-356. While no exponent is updated, no two
\* validators are ever closer than DMin, whatever blocks register, expel and
\* slash, and wherever a rollback or a death cuts in: the registry the node
\* rebuilds passed the test of diversity at each of its steps.
THEOREM ExponentsStayApart ==
  ASSUME NoneUpdated
  PROVE  Spec => []ExponentsApart
<1>1. Init => ApartEverywhere
  BY NobodyIsApart DEF Init, ApartEverywhere
<1>2. ApartEverywhere => ExponentsApart
  BY DEF ApartEverywhere, Apart, ExponentsApart, ActivePairs
<1>3. IInv /\ Ledgers /\ ApartEverywhere /\ [Next]_vars => ApartEverywhere'
  BY ApartNext
<1>4. QED
  BY <1>1, <1>2, <1>3, ShapeIsKept, PTL DEF Spec

-----------------------------------------------------------------------------
(* Rewards                                                                  *)

\* emission.py:45-64, validator_registry.py:107-120. While no exponent is updated, the validators
\* that declared one earn one reward between them, and each that declared none at most its part
\* of another, whatever blocks register, expel and slash and however the node came to its chain.
THEOREM RewardsAreSharedOut ==
  ASSUME NoneUpdated, DMin > 0
  PROVE  Spec => []RewardIsSharedOut
<1>1. Ledgers /\ ExponentsApart => RewardIsSharedOut
  <2> DEFINE map == registry.validators
             V == ActivePairs(map)
  <2> SUFFICES ASSUME Ledgers, ExponentsApart, Idle, V # {}
               PROVE  /\ SumFunction([v \in V |-> VoronoiFraction(map, v)[1]]) = 2 * (LamMax - LamMin)
                      /\ \A v \in DOMAIN map \ V :
                           VoronoiFraction(map, v)[1] * Cardinality(V) <= VoronoiFraction(map, v)[2]
    BY DEF RewardIsSharedOut
  <2> DEFINE f == [v \in V |-> map[v].lam]
  <2>1. IsMap(map) /\ IsFiniteSet(Acct)
    BY RegistryFields, RegistryConstants DEF Ledgers, RegistryConstants
  <2>2. V \in SUBSET Acct /\ IsFiniteSet(V)
    <3>1. V \in SUBSET Acct
      BY <2>1 DEF IsMap, ActivePairs
    <3>2. QED
      BY <2>1, <3>1, FS_Subset
  <2>3. f \in [V -> Int]
    BY <2>1 DEF IsMap, Entries, ActivePairs
  <2>4. \A v, w \in V : v # w => f[v] # f[w]
    <3>1. ASSUME NEW v \in V, NEW w \in V, v # w, f[v] = f[w] PROVE FALSE
      <4>1. Distance(f[v], f[w]) >= DMin /\ f[v] \in Int
        BY <2>3, <3>1 DEF ExponentsApart
      <4>2. Distance(f[v], f[w]) = 0
        BY <2>3, <3>1 DEF Distance
      <4>3. QED
        BY <4>1, <4>2, RegistryConstants DEF RegistryConstants
    <3>2. QED
      BY <3>1
  <2>5. Territories(map) = {f[w] : w \in V}
    BY DEF Territories
  <2>6. [v \in V |-> VoronoiFraction(map, v)[1]] = Widths(f, V)
    <3>1. ASSUME NEW v \in V PROVE VoronoiFraction(map, v)[1] = Width(f, V, v)
      <4>1. f[v] = map[v].lam
        OBVIOUS
      <4> HIDE DEF f
      <4>2. QED
        BY <2>5, <4>1 DEF VoronoiFraction, Width
    <3>2. QED
      BY <3>1 DEF Widths
  <2>7. ASSUME NEW v \in DOMAIN map \ V
        PROVE  VoronoiFraction(map, v)[1] * Cardinality(V) <= VoronoiFraction(map, v)[2]
    <3>1. VoronoiFraction(map, v) = <<1, Cardinality(V)>>
      BY <2>7 DEF VoronoiFraction
    <3>2. Cardinality(V) \in Nat
      BY <2>2, FS_CardinalityType
    <3> HIDE DEF V, map
    <3>3. QED
      BY <3>1, <3>2
  <2> HIDE DEF f, V, map
  <2>8. SumFunction(Widths(f, V)) = Axis
    BY <2>2, <2>3, <2>4, AxisIsShared
  <2>9. Axis = 2 * (LamMax - LamMin)
    BY RegistryConstants DEF RegistryConstants, Axis
  <2>10. QED
    BY <2>6, <2>7, <2>8, <2>9
<1>2. QED
  BY <1>1, ShapeIsKept, ExponentsStayApart, PTL

-----------------------------------------------------------------------------
(* Stakes                                                                   *)

\* What no check of a block enforces: the vault sends nothing, no validator exits
\* twice in a block, and the blocks from before both activations pay their stakes
\* to the vault.
FairStakes ==
  \A b \in Known :
     /\ VaultIsSilent(b.txs) /\ OneExitEach(b.txs)
     /\ b.idx < V2Activation \/ b.idx < SigActivation => StakesToVault(b.txs)

\* Every block of the table, and every one still to be added
StakesChecked ==
  /\ \A i \in DOMAIN stored : StakesToVault(stored[i].txs)
  /\ \A i \in DOMAIN todo : StakesToVault(todo[i].txs)

\* Both validations of a block look at where a stake goes.
LEMMA BlockIsChecked ==
  ASSUME FairStakes, NEW b \in Known, NEW n, NEW t, ReorgValid(n, b, t) \/ Adds(n, b, t, TRUE)
  PROVE  StakesToVault(b.txs)
<1>1. b.idx \in Nat /\ V2Activation \in Nat /\ SigActivation \in Nat
  BY KnownBlock, StateConstants DEF StateConstants
<1>2. CASE b.idx < V2Activation \/ b.idx < SigActivation
  BY <1>2 DEF FairStakes
<1>3. CASE b.idx >= V2Activation /\ b.idx >= SigActivation
  <2> SUFFICES ASSUME NEW i \in DOMAIN b.txs,
                      b.txs[i].op = "VALIDATOR_REGISTER", b.txs[i].from # NoAcct
               PROVE  b.txs[i].to = Vault
    BY DEF StakesToVault
  <2> DEFINE tx == b.txs[i]
  <2>1. tx.op \in ProtocolOps
    BY DEF ProtocolOps
  <2>2. ProtocolOpOK(n, tx, b.idx)
    <3>1. CASE ReorgValid(n, b, t)
      BY <2>1, <3>1 DEF ReorgValid
    <3>2. CASE Adds(n, b, t, TRUE)
      <4>1. ValidTransaction(n, tx, b.idx, t)
        BY <3>2 DEF Adds, Accepts
      <4>2. QED
        BY <2>1, <4>1 DEF ValidTransaction
    <3>3. QED
      BY <3>1, <3>2
  <2>3. QED
    BY <1>3, <2>2 DEF ProtocolOpOK, RegisterOK
<1>4. QED
  BY <1>1, <1>2, <1>3

\* The staged copy checks every block of the branch that it accepts.
LEMMA BranchIsChecked ==
  ASSUME FairStakes, NEW branch \in Seq(Known), NEW n, NEW t,
         Staging!Fold([ok |-> TRUE, n |-> n], branch, t).ok
  PROVE  \A i \in DOMAIN branch : StakesToVault(branch[i].txs)
<1> DEFINE base  == [ok |-> TRUE, n |-> n]
           At(j) == Staging!Fold(base, SubSeq(branch, 1, j), t)
           Good(j) == /\ At(j) \in [ok : BOOLEAN, n : {At(j).n}]
                      /\ At(j).ok => \A i \in 1 .. j : StakesToVault(branch[i].txs)
           T == {j \in Nat : Good(j)}
<1>1. /\ Len(branch) \in Nat /\ DOMAIN branch = 1 .. Len(branch)
      /\ \A i \in 1 .. Len(branch) : branch[i] \in Known
  OBVIOUS
<1>2. At(Len(branch)).ok
  BY PrefixFacts
<1>3. At(0) = base
  BY PrefixFacts, Staging!FoldEmpty
<1>4. ASSUME NEW j \in Nat, j < Len(branch)
      PROVE  At(j + 1) = StagedStep(At(j), branch[j + 1], t)
  BY <1>4, Staging!FoldPrefix
<1> HIDE DEF At
<1>5. 0 \in T
  <2>0. At(0) \in [ok : BOOLEAN, n : {At(0).n}]
    <3> DEFINE first == At(0)
    <3>1. first = [ok |-> TRUE, n |-> n]
      BY <1>3
    <3> HIDE DEF first
    <3>2. first \in [ok : BOOLEAN, n : {first.n}]
      BY <3>1
    <3>3. QED
      BY <3>2 DEF first
  <2>1. Good(0)
    <3>1. \A i \in 1 .. 0 : StakesToVault(branch[i].txs)
      OBVIOUS
    <3>2. QED
      BY <2>0, <3>1
  <2> HIDE DEF Good
  <2>2. 0 \in Nat
    OBVIOUS
  <2>3. QED
    BY <2>1, <2>2, Zenon
<1>6. ASSUME NEW j \in Nat, j < Len(branch), j \in T PROVE j + 1 \in T
  <2> DEFINE b   == branch[j + 1]
             old == At(j)
             new == At(j + 1)
  <2>1. Good(j)
    <3> HIDE DEF Good
    <3>1. QED
      BY <1>6
  <2>2. j + 1 \in 1 .. Len(branch) /\ \A i \in 1 .. j + 1 : i \in 1 .. j \/ i = j + 1
    BY <1>1, <1>6
  <2>3. b \in Known
    BY <1>1, <2>2
  <2>4. new = StagedStep(old, b, t)
    BY <1>4, <1>6
  <2>5. old \in [ok : BOOLEAN, n : {old.n}]
        /\ (old.ok => \A i \in 1 .. j : StakesToVault(branch[i].txs))
    BY <2>1
  <2> HIDE DEF b, old, new
  <2>6. CASE old.ok /\ AdmitsAt(old.n, b, t)
    <3>1. new = [ok |-> TRUE, n |-> After(old.n, b)]
      BY <2>4, <2>6 DEF StagedStep
    <3>2. new \in [ok : BOOLEAN, n : {new.n}]
      BY <3>1
    <3>3. ReorgValid(old.n, b, t)
      BY <2>6 DEF AdmitsAt
    <3>4. StakesToVault(b.txs)
      BY <2>3, <3>3, BlockIsChecked
    <3>5. \A i \in 1 .. j + 1 : StakesToVault(branch[i].txs)
      BY <2>2, <2>5, <2>6, <3>4 DEF b
    <3>6. Good(j + 1)
      BY <3>2, <3>5 DEF new
    <3> HIDE DEF Good
    <3>7. QED
      BY <3>6
  <2>7. CASE ~(old.ok /\ AdmitsAt(old.n, b, t))
    <3>1. new = [old EXCEPT !.ok = FALSE]
      BY <2>4, <2>7 DEF StagedStep
    <3>2. new \in [ok : BOOLEAN, n : {new.n}] /\ ~new.ok
      BY <2>5, <3>1
    <3>3. Good(j + 1)
      BY <3>2 DEF new
    <3> HIDE DEF Good
    <3>4. QED
      BY <3>3
  <2>8. QED
    BY <2>6, <2>7
<1>7. Len(branch) \in T
  <2> HIDE DEF T
  <2>1. QED
    BY <1>1, <1>5, <1>6, UpTo
<1>8. QED
  BY <1>1, <1>2, <1>7

LEMMA AdoptsChecked ==
  ASSUME FairStakes, IInv, phase = "idle", NEW offer \in Offers, Adopts(offer)
  PROVE  LET cand   == Candidate(offer)
             common == CommonLength(cand)
             branch == SubSeq(cand, common + 1, Len(cand))
         IN \A i \in DOMAIN branch : StakesToVault(branch[i].txs)
<1> DEFINE cand   == Candidate(offer)
           common == CommonLength(cand)
           branch == SubSeq(cand, common + 1, Len(cand))
           base   == IF common = Len(chain) THEN Loaded
                     ELSE Rebuilt(SubSeq(StoredChain, 1, common))
<1>1. branch \in Seq(Known)
  BY CandidateShape DEF Adopts, IInv, Shapes
<1>2. Staging!Fold([ok |-> TRUE, n |-> base], branch, now).ok
  <2>1. StagedAccepts(cand, common)
    BY DEF Adopts
  <2>2. StagedAccepts(cand, common)
          = Staging!Fold([ok |-> TRUE, n |-> base], branch, now).ok
    BY Zenon DEF StagedAccepts, Admits, AdmitsAt, StagedStep, Staging!Fold, FoldLeft,
                 Staging!FoldLeft, MapThenFoldSet, Staging!MapThenFoldSet, Max, Staging!Max
  <2>3. QED
    BY <2>1, <2>2
<1> HIDE DEF cand, common, branch, base
<1>3. \A i \in DOMAIN branch : StakesToVault(branch[i].txs)
  BY <1>1, <1>2, BranchIsChecked
<1>4. QED
  BY <1>3 DEF cand, common, branch

LEMMA CommitChecked ==
  ASSUME StakesChecked, NEW b, StakesToVault(b.txs), NEW rest,
         \A i \in DOMAIN rest : StakesToVault(rest[i].txs), Commit(b, rest)
  PROVE  StakesChecked'
<1>1. stored' = Put(stored, b.idx, b) /\ todo' = rest
  BY DEF Commit
<1>2. QED
  BY <1>1 DEF StakesChecked, Put

LEMMA StartRollbackChecked ==
  ASSUME StakesChecked, NEW target, NEW branch,
         \A i \in DOMAIN branch : StakesToVault(branch[i].txs), StartRollback(target, branch)
  PROVE  StakesChecked'
<1>1. stored' = Restrict(stored, {i \in DOMAIN stored : i <= target}) /\ todo' = branch
  BY DEF StartRollback
<1>2. QED
  BY <1>1 DEF StakesChecked, Restrict

LEMMA CheckedStay ==
  ASSUME StakesChecked, stored' = stored, todo' \in {todo, <<>>}
  PROVE  StakesChecked'
BY DEF StakesChecked

LEMMA CheckedNext ==
  ASSUME FairStakes
  PROVE  IInv /\ StakesChecked /\ [Next]_vars => StakesChecked'
<1> SUFFICES ASSUME IInv, StakesChecked, [Next]_vars PROVE StakesChecked'
  OBVIOUS
<1>1. CASE Tick
  BY <1>1, CheckedStay DEF Tick, disk, job
<1>2. ASSUME NEW b \in Blocks, AddBlock(b) PROVE StakesChecked'
  <2>1. b \in Known /\ Adds(node, b, now, TRUE) /\ Commit(b, <<>>)
    BY <1>2 DEF AddBlock, Known
  <2>2. StakesToVault(b.txs)
    BY <2>1, BlockIsChecked
  <2>3. \A i \in DOMAIN <<>> : StakesToVault(<<>>[i].txs)
    OBVIOUS
  <2>4. QED
    BY <2>1, <2>2, <2>3, CommitChecked
<1>3. CASE SaveSnapshot
  BY <1>3, CheckedStay DEF SaveSnapshot
<1>4. ASSUME NEW target \in 0 .. Tip, Rollback(target) PROVE StakesChecked'
  <2>1. \A i \in DOMAIN <<>> : StakesToVault(<<>>[i].txs)
    OBVIOUS
  <2>2. QED
    BY <1>4, <2>1, StartRollbackChecked DEF Rollback
<1>5. CASE ClearState
  BY <1>5, CheckedStay DEF ClearState
<1>6. CASE Restore
  BY <1>6, CheckedStay DEF Restore
<1>7. CASE Replay
  BY <1>7, CheckedStay DEF Replay, job
<1>8. CASE FinishRollback
  BY <1>8, CheckedStay DEF FinishRollback, disk
<1>9. ASSUME NEW offer \in Offers, ReplaceChain(offer) PROVE StakesChecked'
  <2> DEFINE cand   == Candidate(offer)
             common == CommonLength(cand)
             branch == SubSeq(cand, common + 1, Len(cand))
  <2>1. phase = "idle" /\ Adopts(offer)
    BY <1>9 DEF ReplaceChain
  <2>2. \A i \in DOMAIN branch : StakesToVault(branch[i].txs)
    BY <2>1, AdoptsChecked
  <2>3. \/ StartRollback(common - 1, branch)
        \/ stored' = stored /\ todo' = branch
    BY <1>9 DEF ReplaceChain, disk
  <2> HIDE DEF branch, common, cand
  <2>4. CASE StartRollback(common - 1, branch)
    BY <2>2, <2>4, StartRollbackChecked
  <2>5. CASE stored' = stored /\ todo' = branch
    BY <2>2, <2>5 DEF StakesChecked
  <2>6. QED
    BY <2>3, <2>4, <2>5
<1>10. CASE ExtendBranch
  <2>1. todo \in Seq(Known) /\ todo # <<>> /\ Commit(todo[1], Tail(todo))
    BY <1>10 DEF ExtendBranch, IInv, Shapes, AtHand
  <2>2. Len(todo) \in Nat \ {0} /\ DOMAIN todo = 1 .. Len(todo)
    BY <2>1, EmptySeq
  <2>3. \A i \in DOMAIN Tail(todo) : i + 1 \in DOMAIN todo /\ Tail(todo)[i] = todo[i + 1]
    BY <2>1, <2>2
  <2>4. \A i \in DOMAIN Tail(todo) : StakesToVault(Tail(todo)[i].txs)
    BY <2>3 DEF StakesChecked
  <2>5. StakesToVault(todo[1].txs)
    BY <2>2 DEF StakesChecked
  <2>6. QED
    BY <2>1, <2>4, <2>5, CommitChecked
<1>11. CASE BranchRefused
  BY <1>11, CheckedStay DEF BranchRefused, disk
<1>12. CASE Crash \/ CrashInClear
  BY <1>12, CheckedStay DEF Crash, CrashInClear, Die, disk
<1>13. ASSUME NEW m \in 0 .. MaxTxs, CrashInReplay(m) PROVE StakesChecked'
  <2>1. stored' = stored /\ todo' = <<>>
    BY <1>13 DEF CrashInReplay, Die
  <2>2. QED
    BY <2>1, CheckedStay
<1>14. CASE Restart
  BY <1>14, CheckedStay DEF Restart, disk
<1>15. CASE UNCHANGED vars
  BY <1>15, CheckedStay DEF vars, disk, job
<1>16. QED
  BY <1>1, <1>2, <1>3, <1>4, <1>5, <1>6, <1>7, <1>8, <1>9, <1>10, <1>11, <1>12,
     <1>13, <1>14, <1>15 DEF Next

\* A chain that executes, of checked blocks, is backed.
LEMMA ChainIsBacked ==
  ASSUME CalmBlocks, FairStakes, NEW c \in Seq(Known), c # <<>>, c[1] = Genesis,
         Executable(c), \A i \in DOMAIN c : StakesToVault(c[i].txs)
  PROVE  Backs(StateOf(c))
<1> DEFINE At(n) == StateOf(SubSeq(c, 1, n))
           T == {n \in Nat : n >= 1 /\ n <= Len(c) => Backs(At(n))}
<1>1. /\ Len(c) \in Nat /\ Len(c) >= 1 /\ DOMAIN c = 1 .. Len(c)
      /\ At(Len(c)) = StateOf(c)
  <2>1. Len(c) \in Nat /\ Len(c) >= 1 /\ DOMAIN c = 1 .. Len(c)
    BY EmptySeq
  <2>2. SubSeq(c, 1, Len(c)) = c
    BY PrefixFacts
  <2>3. QED
    BY <2>1, <2>2
<1>2. \A n \in 1 .. Len(c) : IsLedger(At(n)) /\ At(n).ok
  <2>1. ASSUME NEW n \in 1 .. Len(c) PROVE IsLedger(At(n))
    <3> DEFINE d == SubSeq(c, 1, n)
    <3>1. d \in Seq(Known) /\ Len(d) = n /\ d[1] = c[1] /\ d # <<>>
      BY <1>1
    <3> HIDE DEF d
    <3>2. IsLedger(StateOf(d))
      BY <3>1, StateOfShape
    <3>3. QED
      BY <3>2 DEF d
  <2>2. \A n \in 1 .. Len(c) : At(n).ok
    BY DEF Executable
  <2>3. QED
    BY <2>1, <2>2
<1>3. At(1) = GenesisState
  <2>1. 1 \in 0 .. Len(c)
    BY <1>1
  <2>2. Len(SubSeq(c, 1, 1)) = 1
    BY <2>1, PrefixFacts
  <2>3. QED
    BY <2>2, StateOfOne
<1>4. ASSUME NEW n \in Nat, n < Len(c), n >= 1
      PROVE  At(n + 1) = ExecBlock(At(n), c[n + 1])
  <2>1. n \in 1 .. Len(c) - 1
    BY <1>1, <1>4
  <2>2. QED
    BY <2>1, StateOfMore
<1>5. Backs(GenesisState)
  <2>1. /\ GenesisState.bal[Vault] = 0 /\ DOMAIN GenesisState.reg.validators = {}
        /\ Stake \in Nat
    BY StateConstants, RegistryConstants
       DEF GenesisState, NoBalances, EmptyRegistry, NoValidators, StateConstants, RegistryConstants
  <2>2. Cardinality({}) = 0
    BY FS_EmptySet
  <2>3. QED
    BY <2>1, <2>2 DEF Backs
<1> HIDE DEF At
<1>6. 0 \in T
  OBVIOUS
<1>7. ASSUME NEW n \in Nat, n < Len(c), n \in T PROVE n + 1 \in T
  <2>1. CASE n = 0
    <3>1. At(n + 1) = GenesisState
      BY <1>3, <2>1
    <3>2. QED
      BY <1>5, <3>1
  <2>2. CASE n >= 1
    <3> DEFINE b == c[n + 1]
    <3>1. n \in 1 .. Len(c) /\ n + 1 \in 1 .. Len(c) /\ n <= Len(c)
      BY <1>1, <1>7, <2>2
    <3>2. b \in Known /\ StakesToVault(b.txs)
      BY <1>1, <3>1, PrefixFacts
    <3>3. IsLedger(At(n)) /\ At(n + 1).ok /\ Backs(At(n))
      BY <1>2, <1>7, <2>2, <3>1
    <3>4. At(n + 1) = ExecBlock(At(n), b)
      BY <1>4, <1>7, <2>2
    <3> HIDE DEF b
    <3>5. IsBlock(b) /\ Calm(b) /\ VaultIsSilent(b.txs) /\ OneExitEach(b.txs)
      BY <3>2, KnownBlock DEF CalmBlocks, FairStakes
    <3>6. Backs(At(n + 1))
      BY <3>2, <3>3, <3>4, <3>5, ExecBacks
    <3>7. QED
      BY <3>6
  <2>3. QED
    BY <1>7, <2>1, <2>2
<1>8. Len(c) \in T
  <2> HIDE DEF T
  <2>1. QED
    BY <1>1, <1>6, <1>7, UpTo
<1>9. QED
  BY <1>1, <1>8

\* chain.py:199-211, state.py:58-76, validator_registry.py:99-171. However the node came to
\* its chain, the vault holds a stake for every validator: the check that a stake goes to
\* the vault is made for blocks and for branches, and a stake leaves with its validator.
\* That no validator exits twice in a block is assumed, because the code lets it.
THEOREM StakesAreBacked ==
  ASSUME CalmBlocks, HashIsContent \/ Unsnapped, SafeCrashes, FairStakes
  PROVE  Spec => []StakeBacked
<1>1. RInv /\ StakesChecked => StakeBacked
  <2> SUFFICES ASSUME RInv, StakesChecked, Idle
               PROVE  balances[Vault] >= Stake * Cardinality(DOMAIN registry.validators)
    BY DEF StakeBacked
  <2>1. phase \in Running
    BY DEF Running, Idle
  <2>2. SameLedger(StateIn(node), StateOf(chain))
    BY <2>1 DEF RInv, Replayed, Stands
  <2>3. /\ balances = StateOf(chain).bal
        /\ DOMAIN registry.validators = DOMAIN StateOf(chain).reg.validators
    BY <2>2 DEF SameLedger, SameRegistry, StateIn, node
  <2>4. StoredChain = chain /\ GoodLog(chain)
    BY <2>1, LogAtHand DEF RInv
  <2>5. chain \in Seq(Known) /\ chain # <<>> /\ chain[1] = Genesis /\ Executable(chain)
    BY <2>4 DEF RInv, Replayed, GoodLog
  <2>6. stored = Rows(chain)
    BY <2>4 DEF RInv, IInv, Table
  <2>7. ASSUME NEW i \in DOMAIN chain PROVE StakesToVault(chain[i].txs)
    <3>1. PICK n \in Nat : n = Len(chain) /\ DOMAIN chain = 1 .. n /\ n # 0
      BY <2>5, EmptySeq
    <3>2. i - 1 \in 0 .. n - 1 /\ (i - 1) + 1 = i
      BY <3>1
    <3>3. i - 1 \in DOMAIN stored /\ stored[i - 1] = chain[i]
      BY <2>6, <3>1, <3>2 DEF Rows
    <3>4. QED
      BY <3>3 DEF StakesChecked
  <2>8. Backs(StateOf(chain))
    BY <2>5, <2>7, ChainIsBacked
  <2>9. QED
    BY <2>3, <2>8 DEF Backs
<1>2. Init => StakesChecked
  <2> SUFFICES ASSUME Init PROVE StakesChecked
    OBVIOUS
  <2>1. stored = Rows(<<Genesis>>) /\ todo = <<>>
    BY DEF Init
  <2>2. \A i \in DOMAIN stored : stored[i] = Genesis
    <3>1. Len(<<Genesis>>) = 1 /\ <<Genesis>>[1] = Genesis
      OBVIOUS
    <3>2. \A i \in 0 .. 0 : i + 1 = 1
      OBVIOUS
    <3>3. QED
      BY <2>1, <3>1, <3>2 DEF Rows
  <2>3. StakesToVault(Genesis.txs)
    BY ChainConstants DEF ChainConstants, StakesToVault
  <2>4. QED
    BY <2>1, <2>2, <2>3 DEF StakesChecked
<1>3. RInv /\ StakesChecked /\ [Next]_vars => StakesChecked'
  BY CheckedNext DEF RInv
<1>4. Spec => []RInv
  BY LedgerIsHeld
<1>5. QED
  BY <1>1, <1>2, <1>3, <1>4, PTL DEF Spec

=============================================================================
