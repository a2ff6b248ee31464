------------------------------ MODULE MCMempool ------------------------------
(***************************************************************************)
(* A pool for TLC: one sender with three payments, two of which fit its    *)
(* balance, and two threads.                                               *)
(***************************************************************************)
EXTENDS MempoolProperties

CONSTANTS ann, bob

MCAcct == {ann, bob}
MCFunds == [x \in MCAcct |-> IF x = ann THEN 4 ELSE 0]

Payment(id, fee, ts) ==
  [id |-> id, from |-> ann, to |-> bob, amt |-> 1, fee |-> fee, ts |-> ts]

MCTxs == {Payment(1, 0, 1), Payment(2, 1, 2), Payment(3, 2, 2)}

\* The one payment that peers mine
MCBatches == {<<Payment(2, 1, 2)>>}
=============================================================================
