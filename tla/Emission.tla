------------------------------ MODULE Emission ------------------------------
(***************************************************************************)
(* The reward of a block (blockchain/emission.py): a base emission, the    *)
(* same for every validator, times the share of the exponent axis nearest  *)
(* to the producer's exponent, its Voronoi territory.                      *)
(*                                                                         *)
(* Exponents are fixed-point integers, so territories are measured in half *)
(* units. The exponential decay of the base emission with the height is    *)
(* the constant operator BaseReward.                                       *)
(***************************************************************************)
EXTENDS StateDB

CONSTANT
  BaseReward(_, _)    \* r_base, of the active entries and the block index

\* _active_pairs: the validators that declared an exponent
ActivePairs(map) == {v \in DOMAIN map : map[v].lam # NoLam}

\* The exponents as the code compares them: equal ones are one territory
Territories(map) == {map[v].lam : v \in ActivePairs(map)}

\* Both edges of the territory of exponent lam, in half units
LeftEdgeWhole(lams, lam) ==
  LET below == {l \in lams : l < lam}
  IN IF below = {} THEN 2 * LamMin ELSE 2 * Max(below)
LeftEdge(lams, lam) ==
  LET below == {l \in lams : l < lam}
  IN IF below = {} THEN 2 * LamMin ELSE Max(below) + lam

RightEdge(lams, lam) ==
  LET above == {l \in lams : l > lam}
  IN IF above = {} THEN 2 * LamMax ELSE lam + Min(above)

\* voronoi_fraction, as a numerator and a denominator
VoronoiFraction(map, who) ==
  IF ActivePairs(map) = {} THEN <<1, 1>>
  ELSE IF who \notin ActivePairs(map)
       THEN <<1, Cardinality(ActivePairs(map))>>
       ELSE LET lams == Territories(map)
            IN <<RightEdge(lams, map[who].lam) - LeftEdge(lams, map[who].lam),
                 2 * (LamMax - LamMin)>>

ExpectedReward(map, idx, who) ==
  LET frac == VoronoiFraction(map, who)
  IN (BaseReward([v \in ActivePairs(map) |-> map[v].lam], idx) * frac[1])
       \div frac[2]
=============================================================================
