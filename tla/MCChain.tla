------------------------------ MODULE MCChain ------------------------------
(***************************************************************************)
(* Small ledgers for TLC: three accounts and the vault, two blocks under   *)
(* the rules of before V2 that fund and register validators, and above     *)
(* them a tree of blocks, one branch for every choice of transactions and  *)
(* slots. The tree is grown with the producer each parent elects and the   *)
(* reward it expects, so that the blocks are those honest producers make;  *)
(* a block that its parent refuses stays in the tree as a leaf.            *)
(***************************************************************************)
EXTENDS ChainProperties

CONSTANTS ann, bob, cyd, vault, none, noLam,
          Menu(_),     \* the contents a block may have, by height
          Skips,       \* heights at which the producer of a slot may be away
          Height,      \* the height of the tree
          Broken       \* heights at which forged variants are offered

MCAcct == {ann, bob, cyd, vault}
MCHashRank == ann :> 1 @@ bob :> 2 @@ cyd :> 3 @@ vault :> 4
MCHashLambda == ann :> 1 @@ bob :> 7 @@ cyd :> 4 @@ vault :> 0
MCExcluded == {}
MCBaseReward(active, idx) == 4
MCElectionLambda(hash, slot) == (hash * 5 + slot * 3) % 8
MCNoTs == 0

\* The library of transactions
Tx(id, op, from, to, amt, fee) ==
  [id |-> id, op |-> op, from |-> from, to |-> to, amt |-> amt, fee |-> fee,
   lam |-> noLam, target |-> none, votes |-> <<>>, data |-> NoContracts, ts |-> MCNoTs, signed |-> TRUE,
   label |-> IF from = none THEN "COINBASE" ELSE "PROOF"]

Coinbase(to, amt) == Tx("coinbase", "PAY", none, to, amt, 0)
Pay(id, from, to, amt, fee) == Tx(id, "PAY", from, to, amt, fee)
Reg(id, who, lam) ==
  [Tx(id, "VALIDATOR_REGISTER", who, vault, 2, 0) EXCEPT !.lam = lam]
Leave(id, who) == Tx(id, "VALIDATOR_EXIT", who, vault, 0, 0)
Update(id, who, lam) ==
  [Tx(id, "VALIDATOR_UPDATE", who, vault, 0, 0) EXCEPT !.lam = lam]
Vote(who) == [by |-> who, spelling |-> who, form |-> "signed"]
Expel(id, from, who, votes) ==
  [Tx(id, "VALIDATOR_GOVERNANCE_EXIT", from, vault, 0, 0)
     EXCEPT !.target = who, !.votes = votes]
Deploy(id, who, data) == [Tx(id, "DEPLOY", who, vault, 1, 0) EXCEPT !.data = data]
Invoke(id, who, address, data) ==
  [Tx(id, "INVOKE", who, vault, 1, 0) EXCEPT !.target = address, !.data = data]

pay   == Pay("pay", ann, bob, 1, 1)
spend == Pay("spend", cyd, bob, 2, 0)
back  == Pay("back", bob, ann, 1, 0)
join  == Reg("join", cyd, 4)
close == Reg("close", cyd, 5)
plain == Reg("plain", cyd, noLam)
astray == [join EXCEPT !.id = "astray", !.to = ann]
leave == Leave("leave", bob)
again == Leave("again", bob)
move  == Update("move", bob, 2)
shift == Update("shift", bob, 7)
turn  == Pay("turn", ann, ann, 2, 1)
deploy == Deploy("deploy", ann, "key" :> "first")
call  == Invoke("call", ann, "deploy", "key" :> "second")
strange == Invoke("strange", bob, "deploy", "key" :> "third")
expel == Expel("expel", ann, bob, <<Vote(ann)>>)

Block1 == <<Coinbase(ann, 14)>>
Block2 == <<Reg("rega", ann, 2), Pay("fundb", ann, bob, 3, 0), Pay("fundc", ann, cyd, 2, 0),
            Reg("regb", bob, 6)>>

MCGenesis ==
  [hash |-> 0, idx |-> 0, prev |-> -1, slot |-> 0, txs |-> <<>>,
   intact |-> TRUE, signed |-> TRUE]

-----------------------------------------------------------------------------
(* The tree                                                                 *)

\* The blocks under the rules of before V2
Founding(h) == IF h = 1 THEN <<Block1>> ELSE <<Block2>>

\* What a block of height h may contain beside its coinbase, per run
CoreMenu(h) ==
  CASE h < 3 -> Founding(h)
    [] h = 3 -> << <<>>, <<pay, deploy, shift>>, <<leave>> >>
    [] h = 4 -> << <<>>, <<pay, back, turn>>, <<join>>, <<call, plain>> >>
    [] OTHER -> << <<join, spend>>, <<close>>, <<astray>>, <<strange>> >>

\* Two branches that differ in a payment, and nothing else happens
PlainMenu(h) ==
  IF h < 3 THEN Founding(h) ELSE IF h = 3 THEN << <<>>, <<pay>> >> ELSE << <<>> >>

\* bob is expelled by the vote of ann
GovMenu(h) ==
  IF h < 3 THEN Founding(h) ELSE IF h = 3 THEN << <<>>, <<expel>> >> ELSE << <<>> >>

\* bob leaves, once or twice in the same block
TwiceMenu(h) ==
  IF h < 3 THEN Founding(h)
  ELSE IF h = 4 THEN << <<leave>>, <<leave, again>> >> ELSE << <<>> >>

\* bob moves to the exponent that ann has
MoveMenu(h) ==
  IF h < 3 THEN Founding(h) ELSE IF h = 4 THEN << <<>>, <<move>> >> ELSE << <<>> >>

\* The registry changes below and above a snapshot of height 4
SnapMenu(h) ==
  CASE h < 3 -> Founding(h)
    [] h = 3 -> << <<>>, <<pay, deploy>>, <<leave>> >>
    [] h = 4 -> << <<>>, <<join>>, <<call>> >>
    [] OTHER -> << <<>>, <<pay>>, <<call>> >>

\* A payment that its wallet stamped at the time of the block before
TimedMenu(h) ==
  IF h < 3 THEN Founding(h)
  ELSE IF h = 3 THEN << <<>>, <<[pay EXCEPT !.ts = 2]>> >> ELSE << <<>> >>

Child(n, h, digit, gap) ==
  LET parent == Last(n.chain)
      slot   == parent.slot + gap
      leader == ExpectedLeader(n.chain, n.reg, slot)
      reward == ExpectedReward(n.reg.validators, h, leader)
  IN [hash   |-> parent.hash * 24 + 6 * (gap - 1) + digit,
      idx    |-> h,
      prev   |-> parent.hash,
      slot   |-> slot,
      txs    |-> IF h < V2Activation THEN Menu(h)[digit]
                 ELSE <<Coinbase(leader, reward)>> \o Menu(h)[digit],
      intact |-> TRUE,
      signed |-> TRUE]

Children(n, h) ==
  {Child(n, h, digit, gap) : digit \in DOMAIN Menu(h),
                             gap \in IF h \in Skips THEN {1, 2} ELSE {1}}

\* The nodes of each height that hold a valid chain
Level[h \in 0 .. Height] ==
  IF h = 0
  THEN {[chain |-> <<MCGenesis>>, confirmed |-> {},
         bal |-> NoBalances, con |-> NoContracts, reg |-> EmptyRegistry]}
  ELSE UNION {{After(n, block) :
                 block \in {d \in Children(n, h) : Adds(n, d, MaxClock, TRUE)}} :
              n \in Level[h - 1]}

\* A variant that honest nodes refuse: its content does not match its hash,
\* its producer did not sign it, or a transaction is not signed
Forged(d) ==
  LET f == [d EXCEPT !.hash = @ + 12]
  IN CASE d.hash % 6 = 1 -> [f EXCEPT !.intact = FALSE]
       [] d.hash % 6 = 2 -> [f EXCEPT !.signed = FALSE]
       [] OTHER -> [f EXCEPT !.txs = [i \in DOMAIN @ |->
                                        [@[i] EXCEPT !.signed = i = 1]]]

Leaves(p, h) ==
  IF h \in Broken
  THEN {Forged(d) : d \in Children(p, h)}
         \cup {d \in Children(p, h) : ~Adds(p, d, MaxClock, TRUE)}
  ELSE {}

\* Below each block of the tree
Below(h) == UNION {Children(p, h + 1) \cup Leaves(p, h + 1) : p \in Level[h]}

MCBlocks == UNION {Below(h) : h \in 0 .. Height - 1}

\* A competing history as it is served: the last MaxReorg + 1 blocks
Served(blocks) ==
  LET base == IF Len(blocks) > MaxReorg + 1 THEN Len(blocks) - (MaxReorg + 1) ELSE 0
  IN [base |-> base, blocks |-> SubSeq(blocks, base + 1, Len(blocks))]

\* Every chain of the tree from height 3 on, and those that end in a block
\* their parent refuses
MCOffers ==
  {Served(n.chain) : n \in UNION {Level[h] : h \in 3 .. Height}}
  \cup UNION {UNION {{Served(Append(n.chain, d)) : d \in Leaves(n, h + 1)} :
                     n \in Level[h]} : h \in 2 .. Height - 1}
=============================================================================
