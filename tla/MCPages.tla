------------------------------ MODULE MCPages ------------------------------
(***************************************************************************)
(* Two servers whose chains have forked above one base. There is room for  *)
(* the pages of two chains, and three chains are served in turn.           *)
(***************************************************************************)
EXTENDS PagesProperties

CONSTANTS ann, bob

Key(t) == [base |-> 0, tip |-> t]

MCServed == (Key(1) :> <<1, 2, 3>>) @@ (Key(2) :> <<1, 2, 4, 5>>) @@ (Key(3) :> <<1, 6, 7>>)

\* Block 5 alone is larger than a page
MCSizeAt(s, b) == <<1, 2, 1, 3, 4, 2, 1>>[b]

\* bob has rolled back onto blocks that had lost their proofs: he writes block 1
\* in fewer bytes than ann, and so cuts the same chain at other places
MCSizeAfterRollback(s, b) == IF s = ann /\ b = 1 THEN 2 ELSE MCSizeAt(s, b)
MCStandsTogether(s, t) == Key(3)

MCSamples == SeqOf(1..6, 4)

\* ann adopts another chain, bob keeps his
MCStands(s, t) == IF s = bob THEN Key(3) ELSE IF t = 1 THEN Key(1) ELSE Key(2)
=============================================================================
