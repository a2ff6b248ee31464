----------------------------- MODULE BlockAuth -----------------------------
(***************************************************************************)
(* The election of the producer of a slot (blockchain/block_auth.py): a    *)
(* block of an earlier epoch anchors it, the candidates are the validators *)
(* as they were at the anchor, and the one whose exponent is nearest to a  *)
(* target drawn from the anchor's hash wins.                               *)
(***************************************************************************)
EXTENDS Emission

CONSTANTS
  EpochSlots,              \* 100 slots
  Excluded,                \* EXCLUDED_VALIDATORS
  HashRank,                \* the order of the account hashes
  HashLambda,              \* the exponent derived from an account's hash
  ElectionLambda(_, _)     \* the target, of the anchor's hash and the slot

ASSUME ElectionConstants ==
  /\ EpochSlots \in Nat \ {0}
  /\ Excluded \subseteq Acct
  /\ HashRank \in [Acct -> Nat]
  /\ \A a, b \in Acct : HashRank[a] = HashRank[b] => a = b
  /\ HashLambda \in [Acct -> Int]

\* The first slot of the epoch before the one of this slot
Cutoff(slot) ==
  (IF slot \div EpochSlots = 0 THEN 0 ELSE slot \div EpochSlots - 1) * EpochSlots

\* The last block produced before the cutoff, or genesis
Anchor(blocks, slot) ==
  LET before == {i \in DOMAIN blocks : blocks[i].slot < Cutoff(slot)}
  IN IF before = {} THEN blocks[1] ELSE blocks[Max(before)]

Candidates(blocks, reg, slot) ==
  LET map == ValidatorsAt(reg, Anchor(blocks, slot).idx)
  IN Restrict(map, DOMAIN map \ Excluded)

LambdaFixed(map, v) == IF map[v].lam = NoLam THEN HashLambda[v] ELSE map[v].lam

ExpectedLeader(blocks, reg, slot) ==
  LET map    == Candidates(blocks, reg, slot)
      target == ElectionLambda(Anchor(blocks, slot).hash, slot)
      dist(v) == Distance(LambdaFixed(map, v), target)
  IN IF DOMAIN map = {} THEN NoAcct
     ELSE CHOOSE v \in DOMAIN map :
            \A w \in DOMAIN map \ {v} :
              \/ dist(v) < dist(w)
              \/ dist(v) = dist(w) /\ HashRank[v] < HashRank[w]
=============================================================================
