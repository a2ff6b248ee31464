----------------------------- MODULE MCRelayer -----------------------------
(***************************************************************************)
(* Deposits and burns of one unit each.                                    *)
(***************************************************************************)
EXTENDS RelayerProperties

CONSTANTS dep1, dep2, burn1, burn2

\* Every burn has a transaction of its own
MCTxOf(b) == b

\* One transaction burns twice
MCOneTx(b) == burn1
=============================================================================
