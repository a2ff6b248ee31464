------------------------- MODULE MempoolProperties -------------------------
(***************************************************************************)
(* What the pool of pending payments promises.                             *)
(***************************************************************************)
EXTENDS Mempool

\* Shapes; the order of insertion is total; the balances belong to a prefix of
\* the log.
TypeOK ==
  /\ DOMAIN pool \subseteq Txs /\ IsInjective(pool)
  /\ DOMAIN stamps \subseteq Txs
  /\ \A tx \in DOMAIN stamps : stamps[tx] \in 0 .. now
  /\ confirmed \subseteq Txs /\ applied \in 0 .. Len(log)
  /\ \A t \in Threads : calls[t].pc \in {"idle", "check", "validate", "insert",
                                         "stamp", "collect", "write"}

\* mempool.py:98-106. The limit per sender is checked and used at different
\* times; each thread but one can exceed it by one payment, and no more.
SenderBound ==
  \A who \in Acct :
     Cardinality(OfSender(who)) <= SenderLimit + Cardinality(Threads) - 1

\* mempool.py:68-79, 107-109. A running node that accepted a payment drops it
\* only when it is in a block, or an hour after the payment could first be
\* accepted, whatever the threads, restarts and rollbacks did to the times.
AcceptedIsKept ==
  [][up /\ up' => \A tx \in DOMAIN pool \ DOMAIN pool' :
        tx \in confirmed' \/ now > tx.ts - Skew + PoolTTL]_vars

\* mempool.py:68-79, 114-128. Every pending payment leaves the pool, mined or
\* expired, though a cleanup may kill the node.
PoolDrains == \A tx \in Txs : InPool(tx) ~> ~InPool(tx)

\* JOIN_NETWORK.md:116, miner.py:454-524. The block that an elected leader makes
\* of pending payments is one that its own chain accepts in that slot.
OwnBlockAccepted ==
  Settled /\ forge # NoForge /\ log = forge.base => Accepts(OwnBlock, forge.slot)
=============================================================================
