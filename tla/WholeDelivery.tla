---------------------------- MODULE WholeDelivery ----------------------------
(***************************************************************************)
(* What a node expects of an answer to REQUEST_FULL_CHAIN, in one message  *)
(* or in pages: now and then a competing chain arrives, exactly as some    *)
(* node serves it (_procesar_full_chain, network/p2p.py:324-367).          *)
(***************************************************************************)
CONSTANT Served       \* the blocks a node serves for each base and tip
VARIABLE delivered    \* the chains handed to _procesar_full_chain

Init == delivered = {}

Deliver ==
  \E k \in DOMAIN Served :
    delivered' = delivered \cup {[base |-> k.base, blocks |-> Served[k]]}

Spec == Init /\ [][Deliver]_delivered
=============================================================================
