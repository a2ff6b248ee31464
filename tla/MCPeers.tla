------------------------------ MODULE MCPeers ------------------------------
(***************************************************************************)
(* A validator that everybody knows, another one that may move to another  *)
(* address and an observer that nobody knows at first.                     *)
(***************************************************************************)
EXTENDS PeerProperties

CONSTANTS ann, bob, cyd, annAt, bobAt, bobLater, cydAt

MCHome(n) == CASE n = ann -> annAt [] n = bob -> bobAt [] n = cyd -> cydAt
MCPlaces(n) == IF n = bob THEN {bobLater} ELSE {}

\* Every node has a port of its own
MCOwnPort(n) == CASE n = ann -> {annAt} [] n = bob -> {bobAt, bobLater} [] n = cyd -> {cydAt}

\* Every node runs on the default port
MCSamePort(n) == Addresses
=============================================================================
