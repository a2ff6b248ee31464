------------------------------- MODULE MCSync -------------------------------
(***************************************************************************)
(* Two nodes that elect each other by turns from genesis, and three of     *)
(* which one is behind two others that a split has left with different     *)
(* blocks on the same parent.                                              *)
(***************************************************************************)
EXTENDS SyncProperties, TLC

CONSTANTS ann, bob, cyd

Turns == <<ann, bob, ann, bob>>
MCElected(c, s) == Turns[s]

\* Hashes are ordered against the slots: of two tips the later is the smaller
MCHashBelow(c, d) == LastSlot(c) > LastSlot(d)

MCGenesis == [Nodes -> {<<>>}]

Block(s) == <<s, 0>>
MCForkAhead ==
  {ann :> <<Block(1)>> @@ bob :> <<Block(1), Block(2)>> @@ cyd :> <<Block(1), Block(3)>>}

=============================================================================
