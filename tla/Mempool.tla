------------------------------ MODULE Mempool ------------------------------
(***************************************************************************)
(* The pool of pending payments of one node (network/mempool.py), with the *)
(* executor threads that fill it (api/server.py, network/p2p.py) and the   *)
(* event loop that empties it: blocks of peers, reorganisations, and the   *)
(* blocks this node forges when it is elected (network/miner.py).          *)
(*                                                                         *)
(* The chain is the one of Blockchain with everything but payments left    *)
(* out: a log of blocks [slot, txs]. A handler of the event loop is one    *)
(* step up to its next await; a rollback is several, because a thread may  *)
(* read the balances while they are rebuilt. A submission is a call that   *)
(* goes through its steps in one of the threads.                           *)
(*                                                                         *)
(* A payment is a record [id, from, to, amt, fee, ts], signed by its       *)
(* sender. Time is counted in slots.                                       *)
(***************************************************************************)
EXTENDS Integers, Sequences, FiniteSets, SequencesExt

CONSTANTS
  Acct,
  Funds,          \* the balances at genesis
  Txs,            \* the payments that wallets submit
  NoTx,
  Batches,        \* the payments of the blocks that peers make
  Threads,        \* the threads of the executor
  SenderLimit,    \* 5 pending payments of one sender
  BlockLimit,     \* 10 payments in a block
  PoolTTL,        \* a payment is pending for at most an hour
  TTL, Skew,      \* as in Blockchain: 10 minutes and one minute
  OwnSlots,       \* the slots for which this node is elected
  MaxReorg,
  SubmitUntil,    \* bound of the time: the slots before it see submissions
  MaxClock,       \* bound of the clock
  MaxFaults       \* bound of the number of deaths and rollbacks

ASSUME MempoolConstants ==
  /\ Funds \in [Acct -> Nat]
  /\ \A tx \in Txs : /\ tx.from \in Acct /\ tx.to \in Acct
                     /\ tx.amt \in Nat \ {0} /\ tx.fee \in Nat /\ tx.ts \in Nat
  /\ NoTx \notin Txs
  /\ \A txs \in Batches : txs \in Seq(Txs)
  /\ IsFiniteSet(Threads) /\ Threads # {}
  /\ SenderLimit \in Nat /\ BlockLimit \in Nat
  /\ PoolTTL \in Nat /\ TTL \in Nat /\ Skew \in Nat
  /\ MaxReorg \in Nat /\ MaxClock \in Nat /\ MaxFaults \in Nat

VARIABLES
  log,         \* the chain without genesis
  applied,     \* how many of its blocks the balances contain
  confirmed,   \* confirmed_tx_ids
  branch,      \* the blocks to add when the rollback is complete
  rolling,     \* a rollback is running
  pool,        \* pending_transactions: its payments, each with its place in
               \* the order of insertion
  stamps,      \* _timestamps
  file,        \* mempool.json: its payments with place and time; a file that
               \* was cut off or garbled reads as an empty one
  calls,       \* what each thread is doing
  forge,       \* the block this node has broadcast and not yet added
  lastMined,   \* last_mined_slot
  up,
  now,
  faults

ledger == <<log, applied, confirmed, branch, rolling>>
held   == <<pool, stamps, file>>
miner  == <<forge, lastMined>>
vars   == <<ledger, held, calls, miner, up, now, faults>>

\* A dictionary without entries
Empty == <<>>

NoForge == [base |-> <<>>, slot |-> 0, txs |-> <<"none">>]
NoCall  == [pc |-> "idle", tx |-> NoTx, data |-> Empty]

-----------------------------------------------------------------------------
(* The chain                                                                *)

Cost(tx) == tx.amt + tx.fee

Paid(bal, tx) ==
  LET less == [bal EXCEPT ![tx.from] = @ - Cost(tx)]
  IN [less EXCEPT ![tx.to] = @ + tx.amt]

\* Payments one after the other, as long as the balances allow them
Spend(s, txs) ==
  FoldLeft(LAMBDA r, tx : IF r.ok /\ r.bal[tx.from] >= Cost(tx)
                          THEN [r EXCEPT !.bal = Paid(r.bal, tx)]
                          ELSE [r EXCEPT !.ok = FALSE],
           s, txs)

BalancesOf(blocks) ==
  FoldLeft(LAMBDA r, b : Spend(r, b.txs), [ok |-> TRUE, bal |-> Funds], blocks).bal

\* The table of balances as a thread finds it, in a rollback too
Balances == BalancesOf(SubSeq(log, 1, applied))

TxsOf(blocks) == UNION {ToSet(blocks[i].txs) : i \in DOMAIN blocks}

LastSlot(blocks) == IF blocks = <<>> THEN 0 ELSE Last(blocks).slot

Fresh(tx, t) == tx.ts <= t + Skew /\ t <= tx.ts + TTL

\* validate_transaction, of a payment whose proof is good
Valid(tx, bal, t) == Fresh(tx, t) /\ bal[tx.from] >= Cost(tx)

\* The checks of add_block that concern payments; a branch is not compared
\* with the clock
Fits(blocks, b) ==
  /\ b.slot > LastSlot(blocks)
  /\ IsInjective(b.txs)
  /\ ToSet(b.txs) \cap TxsOf(blocks) = {}
  /\ Spend([ok |-> TRUE, bal |-> BalancesOf(blocks)], b.txs).ok

Accepts(b, t) ==
  /\ Fits(log, b)
  /\ \A tx \in ToSet(b.txs) : Valid(tx, BalancesOf(log), t)

-----------------------------------------------------------------------------
(* The pool                                                                 *)

InPool(tx) == tx \in DOMAIN pool

\* The payments of one sender in a pool, a file or a list being written
From(p, who) == {tx \in DOMAIN p : tx.from = who}

OfSender(who) == From(pool, who)

\* Mutant of Expired: a payment goes in the slot in which its hour ends
ExpiredEarly(t) == {tx \in DOMAIN stamps : t - stamps[tx] >= PoolTTL}

Expired(t) == {tx \in DOMAIN stamps : t - stamps[tx] > PoolTTL}

Without(p, txs) == Restrict(p, DOMAIN p \ txs)

\* _save: a payment without time gets the present one
Contents(p, s) ==
  [tx \in DOMAIN p |->
     [place |-> p[tx], at |-> IF tx \in DOMAIN s THEN s[tx] ELSE now]]

\* Two writers at once may leave a file that is not JSON
Writes(data, others) ==
  \/ file' = data
  \/ file' = Empty /\ \E t \in others : calls[t].pc = "write"

\* The pool after some payments left it; the file is written again
Drop(txs) ==
  LET p == Without(pool, txs)
      s == Without(stamps, txs \cap DOMAIN pool)
  IN pool' = p /\ stamps' = s /\ Writes(Contents(p, s), Threads)

\* The order in a block: the highest fees first, then in order of arrival
Sooner(p, x, y) == x.fee > y.fee \/ (x.fee = y.fee /\ p[x] < p[y])

Ahead(p, tx) == {x \in DOMAIN p : Sooner(p, x, tx)}

\* get_transactions_for_block
Batch(p) ==
  [i \in 1 .. Min({Cardinality(DOMAIN p), BlockLimit}) |->
     CHOOSE tx \in DOMAIN p : Cardinality(Ahead(p, tx)) = i - 1]

-----------------------------------------------------------------------------

Init ==
  /\ log = <<>> /\ applied = 0 /\ confirmed = {} /\ branch = <<>> /\ rolling = FALSE
  /\ pool = Empty /\ stamps = Empty /\ file = Empty
  /\ calls = [t \in Threads |-> NoCall]
  /\ forge = NoForge /\ lastMined = 0
  /\ up = TRUE /\ now = 1 /\ faults = 0

\* A validation takes less than the slots that are left from SubmitUntil on
Tick ==
  /\ now < MaxClock
  /\ now >= SubmitUntil => \A t \in Threads : calls[t].pc = "idle"
  /\ now' = now + 1
  /\ UNCHANGED <<ledger, held, calls, miner, up, faults>>

-----------------------------------------------------------------------------
(* add_transaction, in a thread                                             *)

Goto(t, pc) == calls' = [calls EXCEPT ![t].pc = pc]
Return(t)   == calls' = [calls EXCEPT ![t] = NoCall]

\* POST /transaction or NEW_TX
Submit(t, tx) ==
  /\ up /\ now < SubmitUntil
  /\ calls[t].pc = "idle"
  /\ calls' = [calls EXCEPT ![t] = [pc |-> "check", tx |-> tx, data |-> Empty]]
  /\ UNCHANGED <<ledger, held, miner, up, now, faults>>

\* Mutant of Admissible: a sender's pending payments are not counted
AdmissibleUncounted(tx) == ~InPool(tx) /\ tx \notin confirmed

Admissible(tx) ==
  /\ ~InPool(tx) /\ tx \notin confirmed
  /\ Cardinality(OfSender(tx.from)) < SenderLimit

Check(t) ==
  /\ calls[t].pc = "check"
  /\ IF Admissible(calls[t].tx) THEN Goto(t, "validate") ELSE Return(t)
  /\ UNCHANGED <<ledger, held, miner, up, now, faults>>

\* Clock and balance are read; the proof is verified from here to Insert
Validate(t) ==
  /\ calls[t].pc = "validate"
  /\ IF Valid(calls[t].tx, Balances, now) THEN Goto(t, "insert") ELSE Return(t)
  /\ UNCHANGED <<ledger, held, miner, up, now, faults>>

\* A dictionary entry: a second insertion leaves the payment where it is
Put(p, tx) ==
  [x \in DOMAIN p \cup {tx} |->
     IF x \in DOMAIN p THEN p[x] ELSE 1 + Max({0} \cup Range(p))]

Insert(t) ==
  /\ calls[t].pc = "insert"
  /\ pool' = Put(pool, calls[t].tx)
  /\ Goto(t, "stamp")
  /\ UNCHANGED <<ledger, stamps, file, miner, up, now, faults>>

Stamp(t) ==
  /\ calls[t].pc = "stamp"
  /\ stamps' = [tx \in DOMAIN stamps \cup {calls[t].tx} |->
                  IF tx = calls[t].tx THEN now ELSE stamps[tx]]
  /\ Goto(t, "collect")
  /\ UNCHANGED <<ledger, pool, file, miner, up, now, faults>>

Collect(t) ==
  /\ calls[t].pc = "collect"
  /\ calls' = [calls EXCEPT ![t].pc = "write", ![t].data = Contents(pool, stamps)]
  /\ UNCHANGED <<ledger, held, miner, up, now, faults>>

Write(t) ==
  /\ calls[t].pc = "write"
  /\ Writes(calls[t].data, Threads \ {t})
  /\ Return(t)
  /\ UNCHANGED <<ledger, pool, stamps, miner, up, now, faults>>

Step(t) ==
  \/ Check(t) \/ Validate(t) \/ Insert(t) \/ Stamp(t) \/ Collect(t) \/ Write(t)

-----------------------------------------------------------------------------
(* The event loop                                                           *)

Settled == up /\ ~rolling

Extend(b) ==
  /\ log' = Append(log, b) /\ applied' = applied + 1
  /\ confirmed' = confirmed \cup ToSet(b.txs)
  /\ UNCHANGED <<branch, rolling>>
  /\ Drop(ToSet(b.txs))

\* NEW_BLOCK and CHAIN_SEGMENT
PeerBlock(b) ==
  /\ Settled
  /\ b.slot \notin OwnSlots /\ b.slot <= now
  /\ Accepts(b, now)
  /\ Extend(b)
  /\ UNCHANGED <<calls, miner, up, now, faults>>

\* Mutant of StartRollback: the balances are not cleared before the replay
StartUncleared(n, blocks) ==
  /\ Settled /\ faults < MaxFaults
  /\ n \in 0 .. Len(log) - 1 /\ Len(log) - n <= MaxReorg
  /\ blocks # <<>> => Len(blocks) >= Len(log) - n
  /\ \A i \in DOMAIN blocks :
        Fits(SubSeq(log, 1, n) \o SubSeq(blocks, 1, i - 1), blocks[i])
  /\ log' = SubSeq(log, 1, n) /\ applied' = applied
  /\ branch' = blocks /\ rolling' = TRUE
  /\ faults' = faults + 1
  /\ UNCHANGED <<confirmed, held, calls, miner, up, now>>

\* The first commits of rollback_to, alone (no blocks follow) or in
\* replace_chain
StartRollback(n, blocks) ==
  /\ Settled /\ faults < MaxFaults
  /\ n \in 0 .. Len(log) - 1 /\ Len(log) - n <= MaxReorg
  /\ blocks # <<>> => Len(blocks) >= Len(log) - n
  /\ \A i \in DOMAIN blocks :
        Fits(SubSeq(log, 1, n) \o SubSeq(blocks, 1, i - 1), blocks[i])
  /\ log' = SubSeq(log, 1, n) /\ applied' = 0
  /\ branch' = blocks /\ rolling' = TRUE
  /\ faults' = faults + 1
  /\ UNCHANGED <<confirmed, held, calls, miner, up, now>>

Replay ==
  /\ up /\ rolling /\ applied < Len(log)
  /\ applied' = applied + 1
  /\ UNCHANGED <<log, confirmed, branch, rolling, held, calls, miner, up, now, faults>>

\* What the abandoned blocks contained does not return to the pool
FinishRollback ==
  /\ up /\ rolling /\ applied = Len(log)
  /\ log' = log \o branch /\ applied' = Len(log')
  /\ confirmed' = TxsOf(log')
  /\ branch' = <<>> /\ rolling' = FALSE
  /\ IF branch = <<>> THEN UNCHANGED held ELSE Drop(TxsOf(log'))
  /\ UNCHANGED <<calls, miner, up, now, faults>>

\* The miner is elected: expired payments go, and the block is broadcast
Forge ==
  /\ Settled /\ forge = NoForge
  /\ now \in OwnSlots /\ now # lastMined
  /\ Expired(now) \subseteq DOMAIN pool
  /\ forge' = [base |-> log, slot |-> now,
               txs |-> Batch(Without(pool, Expired(now)))]
  /\ IF Expired(now) = {} THEN UNCHANGED held ELSE Drop(Expired(now))
  /\ UNCHANGED <<ledger, calls, lastMined, up, now, faults>>

OwnBlock == [slot |-> forge.slot, txs |-> forge.txs]

\* Half a second later nobody was faster, and the block is good
AddOwnBlock ==
  /\ Settled /\ forge # NoForge
  /\ log = forge.base /\ Accepts(OwnBlock, now)
  /\ Extend(OwnBlock)
  /\ forge' = NoForge /\ lastMined' = forge.slot
  /\ UNCHANGED <<calls, up, now, faults>>

\* The slot is ceded, or the block is refused and the pool stays as it is
GiveUpOwnBlock ==
  /\ Settled /\ forge # NoForge
  /\ log # forge.base \/ ~Accepts(OwnBlock, now)
  /\ forge' = NoForge
  /\ UNCHANGED <<ledger, held, calls, lastMined, up, now, faults>>

-----------------------------------------------------------------------------
(* Death and restart. That the chain comes back whole is Blockchain's part. *)

Die ==
  /\ up' = FALSE
  /\ log' = log /\ applied' = Len(log) /\ confirmed' = {}
  /\ branch' = <<>> /\ rolling' = FALSE
  /\ pool' = Empty /\ stamps' = Empty
  /\ calls' = [t \in Threads |-> NoCall]
  /\ forge' = NoForge /\ lastMined' = 0

\* cleanup_expired raises, for a time without a payment or because a thread
\* adds a time while it iterates: the miner's task ends and main with it
CleanupFails ==
  /\ Settled /\ forge = NoForge
  /\ now \in OwnSlots /\ now # lastMined
  /\ \/ ~(Expired(now) \subseteq DOMAIN pool)
     \/ \E t \in Threads : /\ calls[t].pc = "stamp"
                           /\ calls[t].tx \notin DOMAIN stamps
  /\ Die
  /\ UNCHANGED <<file, now, faults>>

\* A file that is being written is cut off. A step of the loop ends with its own _save,
\* in which the node may die as well
Crash ==
  /\ up /\ faults < MaxFaults
  /\ faults' = faults + 1
  /\ Die
  /\ file' \in {file, Empty}
  /\ UNCHANGED now

\* Mutant of Restored: the times are not read back
RestoredUndated ==
  [pool   |-> [tx \in DOMAIN file \ TxsOf(log) |-> file[tx].place],
   stamps |-> Empty]

\* _load: confirmed payments are skipped, nothing is validated again
Restored ==
  LET txs == DOMAIN file \ TxsOf(log)
  IN [pool   |-> [tx \in txs |-> file[tx].place],
      stamps |-> [tx \in txs |-> file[tx].at]]

Restart ==
  /\ ~up /\ up' = TRUE
  /\ confirmed' = TxsOf(log)
  /\ pool' = Restored.pool /\ stamps' = Restored.stamps
  /\ UNCHANGED <<log, applied, branch, rolling, file, calls, miner, now, faults>>

-----------------------------------------------------------------------------

\* Blocks as peers make them
PeerBlocks == [slot : (1 .. now) \ OwnSlots, txs : Batches]

Next ==
  \/ Tick
  \/ \E t \in Threads : Step(t) \/ \E tx \in Txs : Submit(t, tx)
  \/ \E b \in PeerBlocks : PeerBlock(b)
  \/ \E n \in 0 .. Len(log) : \E blocks \in {<<>>} \cup {<<b>> : b \in PeerBlocks} :
        StartRollback(n, blocks)
  \/ Replay \/ FinishRollback
  \/ Forge \/ AddOwnBlock \/ GiveUpOwnBlock
  \/ CleanupFails \/ Crash \/ Restart

Spec == Init /\ [][Next]_vars

\* The threads and the loop run, time passes, a dead node is started again
\* (scripts/join.sh:119), and the node is elected in its slots
Fairness ==
  /\ \A t \in Threads : WF_vars(Step(t))
  /\ WF_vars(Tick) /\ WF_vars(Replay) /\ WF_vars(FinishRollback)
  /\ WF_vars(Forge \/ CleanupFails) /\ WF_vars(AddOwnBlock \/ GiveUpOwnBlock)
  /\ WF_vars(Restart)

FairSpec == Spec /\ Fairness
=============================================================================
