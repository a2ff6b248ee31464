---------------------------- MODULE FoldTheorems ----------------------------
(***************************************************************************)
(* What FoldLeft of the community modules computes, for every operator.    *)
(* FoldLeft is a recursive function over the sets of positions still to    *)
(* fold; that such a function exists is proved here, by induction on the   *)
(* length of the sequence, and with it the one equation that the proofs    *)
(* about blocks and transactions need: folding one element more.           *)
(*                                                                         *)
(* The induction is over sets of numbers and rests on < being well founded *)
(* on Nat. The operator is a parameter of the module, not of the theorems: *)
(* a user instantiates the module with the operator it folds with, and     *)
(* the theorems of the instance are first-order facts about that operator. *)
(***************************************************************************)
EXTENDS Integers, Sequences, SequencesExt, WellFoundedInduction, TLAPS

CONSTANT Op(_, _, _)    \* the next result, of the last one, an element, a context

Fold(base, seq, c) == FoldLeft(LAMBDA r, e : Op(r, e, c), base, seq)

\* The function that starts at base and takes one element of seq from 2 on
Climb(base, seq, c) ==
  LET upto[n \in Nat] == IF n <= 1 THEN base ELSE Op(upto[n - 1], seq[n], c)
  IN upto

-----------------------------------------------------------------------------
(* Induction over Nat, as a fact about sets                                 *)

\* Every inhabited set of natural numbers has a least element.
LEMMA LeastElement ==
  ASSUME NEW T, T \subseteq Nat, T # {}
  PROVE  \E m \in T : \A k \in T : m <= k
<1> DEFINE R == OpToRel(<, Nat)
<1>1. \A x \in Nat, y \in Nat : y < x => <<y, x>> \in R
  BY DEF OpToRel
<1>2. IsWellFoundedOn(R, Nat)
  BY NatLessThanWellFounded
<1> HIDE DEF R
<1>3. PICK m \in T : \A y \in T : ~ (<<y, m>> \in R)
  BY <1>2, WFMin, Zenon
<1>4. ASSUME NEW k \in T PROVE m <= k
  <2>1. m \in Nat /\ k \in Nat /\ ~ (<<k, m>> \in R)
    BY <1>3
  <2>2. ~ (k < m)
    BY <1>1, <2>1, Zenon
  <2>3. QED
    BY <2>1, <2>2
<1>5. QED
  BY <1>4

\* A set of numbers that holds 0 and is closed under the successor is Nat.
THEOREM SetInduction ==
  ASSUME NEW T, 0 \in T, \A n \in T \cap Nat : n + 1 \in T
  PROVE  \A n \in Nat : n \in T
<1> DEFINE U == Nat \ T
<1>1. SUFFICES ASSUME U # {} PROVE FALSE
  OBVIOUS
<1>2. PICK m \in U : \A k \in U : m <= k
  BY <1>1, LeastElement, Zenon
<1>3. m # 0 /\ m \in Nat
  BY <1>2
<1>4. m - 1 \in T \cap Nat
  BY <1>2, <1>3
<1>5. QED
  BY <1>2, <1>3, <1>4

\* A set of positions has a largest one.
LEMMA LargestPosition ==
  ASSUME NEW n \in Nat, NEW S \in SUBSET (1 .. n), S # {}
  PROVE  Max(S) \in S /\ \A y \in S : Max(S) >= y
<1> DEFINE T == {n - x : x \in S}
<1>1. T \subseteq Nat /\ T # {}
  <2>1. \A x \in S : x \in 1 .. n
    OBVIOUS
  <2>2. \A x \in S : n - x \in Nat
    BY <2>1
  <2>3. PICK x : x \in S
    OBVIOUS
  <2>4. n - x \in T
    BY <2>3
  <2>5. QED
    BY <2>2, <2>4
<1>2. PICK m \in T : \A k \in T : m <= k
  <2> HIDE DEF T
  <2>1. QED
    BY <1>1, LeastElement, Zenon
<1>3. PICK x \in S : m = n - x
  BY <1>2
<1>4. \A y \in S : x >= y
  <2> SUFFICES ASSUME NEW y \in S PROVE x >= y
    OBVIOUS
  <2>1. n - x <= n - y
    BY <1>2, <1>3
  <2>2. QED
    BY <2>1
<1>5. QED
  BY <1>4 DEF Max

-----------------------------------------------------------------------------
(* The recursive function under FoldLeft                                    *)

IsTable(g, n, base, seq, c) ==
  g = [s \in SUBSET (1 .. n) |->
         IF s = {} THEN base ELSE Op(g[s \ {Max(s)}], seq[Max(s)], c)]

\* It exists for the positions of every sequence.
LEMMA TableExists ==
  ASSUME NEW base, NEW seq, NEW c
  PROVE  \A n \in Nat : \E g : IsTable(g, n, base, seq, c)
<1> DEFINE T == {n \in Nat : \E g : IsTable(g, n, base, seq, c)}
<1>1. 0 \in T
  <2> DEFINE g == [s \in SUBSET (1 .. 0) |-> base]
  <2>1. \A s \in SUBSET (1 .. 0) : s = {}
    OBVIOUS
  <2>2. IsTable(g, 0, base, seq, c)
    BY <2>1 DEF IsTable
  <2>3. QED
    BY <2>2
<1>2. ASSUME NEW n \in T \cap Nat PROVE n + 1 \in T
  <2>0. n \in Nat
    OBVIOUS
  <2>1. PICK g : IsTable(g, n, base, seq, c)
    OBVIOUS
  <2> DEFINE h == [s \in SUBSET (1 .. n + 1) |->
                     IF n + 1 \in s THEN Op(g[s \ {n + 1}], seq[n + 1], c) ELSE g[s]]
  <2>2. ASSUME NEW s \in SUBSET (1 .. n + 1)
        PROVE  h[s] = IF s = {} THEN base ELSE Op(h[s \ {Max(s)}], seq[Max(s)], c)
    <3>1. CASE n + 1 \in s
      <4>1. Max(s) = n + 1
        <5>1. n + 1 \in Nat /\ s # {}
          BY <2>0, <3>1
        <5>2. Max(s) \in s /\ \A y \in s : Max(s) >= y
          BY <5>1, LargestPosition, Zenon
        <5>3. Max(s) \in 1 .. n + 1 /\ Max(s) >= n + 1
          BY <3>1, <5>2
        <5>4. QED
          BY <2>0, <5>3
      <4>2. s \ {n + 1} \in SUBSET (1 .. n + 1) /\ n + 1 \notin s \ {n + 1}
        OBVIOUS
      <4>3. h[s \ {n + 1}] = g[s \ {n + 1}]
        BY <4>2
      <4>4. QED
        BY <3>1, <4>1, <4>3
    <3>2. CASE n + 1 \notin s
      <4>1. s \in SUBSET (1 .. n)
        BY <3>2
      <4>2. h[s] = g[s]
        BY <3>2
      <4>3. g[s] = IF s = {} THEN base ELSE Op(g[s \ {Max(s)}], seq[Max(s)], c)
        BY <2>1, <4>1 DEF IsTable
      <4>4. s # {} => h[s \ {Max(s)}] = g[s \ {Max(s)}]
        <5>1. s \ {Max(s)} \in SUBSET (1 .. n + 1) /\ n + 1 \notin s \ {Max(s)}
          BY <3>2
        <5>2. QED
          BY <5>1
      <4>5. QED
        BY <4>2, <4>3, <4>4
    <3>3. QED
      BY <3>1, <3>2
  <2>3. IsTable(h, n + 1, base, seq, c)
    <3> DEFINE Next(s) == IF s = {} THEN base ELSE Op(h[s \ {Max(s)}], seq[Max(s)], c)
    <3>1. \A s \in SUBSET (1 .. n + 1) : h[s] = Next(s)
      BY <2>2
    <3>2. h = [s \in SUBSET (1 .. n + 1) |-> h[s]]
      OBVIOUS
    <3> HIDE DEF h
    <3>3. h = [s \in SUBSET (1 .. n + 1) |-> Next(s)]
      BY <3>1, <3>2
    <3>4. QED
      BY <3>3 DEF IsTable
  <2>4. QED
    BY <2>3
<1>3. QED
  <2> HIDE DEF T
  <2>1. \A n \in Nat : n \in T
    BY <1>1, <1>2, SetInduction
  <2>2. QED
    BY <2>1 DEF T

\* Two such functions agree on the positions where their sequences do.
LEMMA TablesAgree ==
  ASSUME NEW base, NEW c, NEW seq, NEW other, NEW n \in Nat, NEW m \in Nat, n <= m,
         \A i \in 1 .. n : seq[i] = other[i],
         NEW g, NEW h, IsTable(g, n, base, seq, c), IsTable(h, m, base, other, c)
  PROVE  \A s \in SUBSET (1 .. n) : g[s] = h[s]
<1> DEFINE T == {k \in Nat : k <= n => \A s \in SUBSET (1 .. k) : g[s] = h[s]}
<1>1. \A s \in SUBSET (1 .. n) :
         g[s] = IF s = {} THEN base ELSE Op(g[s \ {Max(s)}], seq[Max(s)], c)
  BY DEF IsTable
<1>2. \A s \in SUBSET (1 .. n) :
         h[s] = IF s = {} THEN base ELSE Op(h[s \ {Max(s)}], other[Max(s)], c)
  <2>1. SUBSET (1 .. n) \subseteq SUBSET (1 .. m)
    OBVIOUS
  <2>2. QED
    BY <2>1 DEF IsTable
<1>3. 0 \in T
  <2>1. \A s \in SUBSET (1 .. 0) : s = {} /\ s \in SUBSET (1 .. n)
    OBVIOUS
  <2>2. \A s \in SUBSET (1 .. 0) : g[s] = h[s]
    BY <1>1, <1>2, <2>1
  <2>3. QED
    BY <2>2
<1>4. ASSUME NEW k \in T \cap Nat PROVE k + 1 \in T
  <2> SUFFICES ASSUME k + 1 <= n, NEW s \in SUBSET (1 .. k + 1)
               PROVE  g[s] = h[s]
    OBVIOUS
  <2>1. s \in SUBSET (1 .. n)
    OBVIOUS
  <2>2. CASE s = {}
    BY <1>1, <1>2, <2>1, <2>2
  <2>3. CASE s # {}
    <3>1. Max(s) \in s /\ \A y \in s : Max(s) >= y
      BY <2>1, <2>3, LargestPosition, Zenon
    <3>2. s \ {Max(s)} \in SUBSET (1 .. k)
      <4>1. \A y \in s : y \in 1 .. k + 1
        OBVIOUS
      <4>2. ASSUME NEW y \in s, y # Max(s) PROVE y \in 1 .. k
        <5>1. y \in 1 .. k + 1 /\ Max(s) \in 1 .. k + 1 /\ Max(s) >= y /\ k \in Nat
          BY <3>1, <4>1
        <5>2. QED
          BY <4>2, <5>1
      <4>3. QED
        BY <4>2
    <3>3. g[s \ {Max(s)}] = h[s \ {Max(s)}]
      BY <3>2
    <3>4. seq[Max(s)] = other[Max(s)]
      BY <2>1, <3>1
    <3>5. QED
      BY <1>1, <1>2, <2>1, <2>3, <3>3, <3>4
  <2>4. QED
    BY <2>2, <2>3
<1>5. n \in T
  <2> HIDE DEF T
  <2>1. \A k \in Nat : k \in T
    BY <1>3, <1>4, SetInduction
  <2>2. QED
    BY <2>1
<1>6. n <= n
  OBVIOUS
<1>7. QED
  BY <1>5, <1>6

\* FoldLeft reads that function at the set of all positions.
LEMMA FoldIsTable ==
  ASSUME NEW V, NEW seq \in Seq(V), NEW base, NEW c
  PROVE  \E g : IsTable(g, Len(seq), base, seq, c) /\ Fold(base, seq, c) = g[1 .. Len(seq)]
<1>1. DOMAIN seq = 1 .. Len(seq) /\ Len(seq) \in Nat
  OBVIOUS
<1>2. Fold(base, seq, c)
        = (CHOOSE g : IsTable(g, Len(seq), base, seq, c))[1 .. Len(seq)]
  BY <1>1, Zenon DEF Fold, FoldLeft, MapThenFoldSet, IsTable, Max
<1>3. \E g : IsTable(g, Len(seq), base, seq, c)
  BY <1>1, TableExists
<1>4. IsTable(CHOOSE g : IsTable(g, Len(seq), base, seq, c), Len(seq), base, seq, c)
  BY <1>3, Zenon
<1>5. QED
  BY <1>2, <1>4

\* Folding nothing gives the base.
THEOREM FoldEmpty == \A base, c : Fold(base, <<>>, c) = base
<1> SUFFICES ASSUME NEW base, NEW c PROVE Fold(base, <<>>, c) = base
  OBVIOUS
<1>1. <<>> \in Seq({}) /\ Len(<<>>) = 0
  OBVIOUS
<1>2. PICK g : IsTable(g, 0, base, <<>>, c) /\ Fold(base, <<>>, c) = g[1 .. 0]
  BY <1>1, FoldIsTable, Zenon
<1>3. 1 .. 0 = {} /\ 1 .. 0 \in SUBSET (1 .. 0)
  OBVIOUS
<1>4. QED
  BY <1>2, <1>3 DEF IsTable

\* Folding the first n + 1 elements is folding the first n and then one more.
THEOREM FoldPrefix ==
  \A V : \A seq \in Seq(V) : \A n \in Nat : \A base, c :
     n < Len(seq) => Fold(base, SubSeq(seq, 1, n + 1), c)
                       = Op(Fold(base, SubSeq(seq, 1, n), c), seq[n + 1], c)
<1> SUFFICES ASSUME NEW V, NEW seq \in Seq(V), NEW n \in Nat, NEW base, NEW c, n < Len(seq)
             PROVE  Fold(base, SubSeq(seq, 1, n + 1), c)
                      = Op(Fold(base, SubSeq(seq, 1, n), c), seq[n + 1], c)
  OBVIOUS
<1> DEFINE shorter == SubSeq(seq, 1, n)
           longer  == SubSeq(seq, 1, n + 1)
<1>1. /\ shorter \in Seq(V) /\ Len(shorter) = n
      /\ longer \in Seq(V) /\ Len(longer) = n + 1
      /\ \A i \in 1 .. n : shorter[i] = longer[i]
      /\ longer[n + 1] = seq[n + 1]
  OBVIOUS
<1> HIDE DEF shorter, longer
<1>2. PICK g : IsTable(g, n, base, shorter, c) /\ Fold(base, shorter, c) = g[1 .. n]
  <2>1. \E g : IsTable(g, Len(shorter), base, shorter, c)
                /\ Fold(base, shorter, c) = g[1 .. Len(shorter)]
    BY <1>1, FoldIsTable, Zenon
  <2>2. QED
    BY <1>1, <2>1
<1>3. PICK h : IsTable(h, n + 1, base, longer, c) /\ Fold(base, longer, c) = h[1 .. n + 1]
  <2>1. \E h : IsTable(h, Len(longer), base, longer, c)
                /\ Fold(base, longer, c) = h[1 .. Len(longer)]
    BY <1>1, FoldIsTable, Zenon
  <2>2. QED
    BY <1>1, <2>1
<1>4. g[1 .. n] = h[1 .. n]
  <2>1. PICK m \in Nat : m = n + 1
    OBVIOUS
  <2>2. n <= m /\ 1 .. n \in SUBSET (1 .. n)
    BY <2>1
  <2>3. IsTable(g, n, base, shorter, c) /\ IsTable(h, m, base, longer, c)
    BY <1>2, <1>3, <2>1
  <2>4. \A i \in 1 .. n : shorter[i] = longer[i]
    BY <1>1
  <2>5. ASSUME NEW s \in SUBSET (1 .. n) PROVE g[s] = h[s]
    BY <2>2, <2>3, <2>4, TablesAgree
  <2>6. QED
    BY <2>2, <2>5
<1>5. Max(1 .. n + 1) = n + 1
  <2> DEFINE all == 1 .. n + 1
  <2>1. all # {} /\ n + 1 \in all /\ n + 1 \in Nat /\ all \in SUBSET (1 .. n + 1)
    <3>1. n + 1 \in 1 .. n + 1
      OBVIOUS
    <3>2. n + 1 \in Nat
      OBVIOUS
    <3>3. QED
      BY <3>1, <3>2, Zenon
  <2> HIDE DEF all
  <2>2. Max(all) \in all /\ \A y \in all : Max(all) >= y
    BY <2>1, LargestPosition, Zenon
  <2>3. Max(all) \in 1 .. n + 1 /\ Max(all) >= n + 1
    BY <2>1, <2>2 DEF all
  <2>4. QED
    BY <2>3 DEF all
<1>6. (1 .. n + 1) \ {n + 1} = 1 .. n /\ 1 .. n + 1 # {}
  OBVIOUS
<1>7. h[1 .. n + 1] = Op(h[1 .. n], longer[n + 1], c)
  BY <1>3, <1>5, <1>6 DEF IsTable
<1>8. QED
  BY <1>1, <1>2, <1>3, <1>4, <1>7 DEF shorter, longer

-----------------------------------------------------------------------------
(* The recursive function over Nat                                          *)

IsClimb(g, base, seq, c) ==
  g = [n \in Nat |-> IF n <= 1 THEN base ELSE Op(g[n - 1], seq[n], c)]

ClimbsTo(g, k, base, seq, c) ==
  g = [n \in 0 .. k |-> IF n <= 1 THEN base ELSE Op(g[n - 1], seq[n], c)]

\* Two of them agree up to the length of the shorter.
LEMMA ClimbsAgree ==
  ASSUME NEW base, NEW seq, NEW other, NEW c, NEW k \in Nat, NEW g, NEW h, NEW m \in Nat, k <= m,
         \A i \in 2 .. k : seq[i] = other[i],
         ClimbsTo(g, k, base, seq, c), ClimbsTo(h, m, base, other, c)
  PROVE  \A n \in 0 .. k : g[n] = h[n]
<1> DEFINE T == {n \in Nat : n <= k => g[n] = h[n]}
<1>1. 0 \in T
  BY DEF ClimbsTo
<1>2. ASSUME NEW n \in T \cap Nat PROVE n + 1 \in T
  <2> SUFFICES ASSUME n + 1 <= k PROVE g[n + 1] = h[n + 1]
    OBVIOUS
  <2>1. g[n] = h[n] /\ (n + 1) - 1 = n /\ n + 1 \in 0 .. k /\ n + 1 \in 0 .. m
    OBVIOUS
  <2>2. /\ g[n + 1] = IF n + 1 <= 1 THEN base ELSE Op(g[n], seq[n + 1], c)
        /\ h[n + 1] = IF n + 1 <= 1 THEN base ELSE Op(h[n], other[n + 1], c)
    BY <2>1, Zenon DEF ClimbsTo
  <2>3. n + 1 <= 1 \/ n + 1 \in 2 .. k
    OBVIOUS
  <2>4. QED
    BY <2>1, <2>2, <2>3
<1>3. \A n \in Nat : n \in T
  <2> HIDE DEF T
  <2>1. QED
    BY <1>1, <1>2, SetInduction
<1>4. QED
  BY <1>3

\* It exists, and it is the one that Climb denotes.
LEMMA ClimbIs ==
  ASSUME NEW base, NEW seq, NEW c
  PROVE  IsClimb(Climb(base, seq, c), base, seq, c)
<1> DEFINE T == {k \in Nat : \E g : ClimbsTo(g, k, base, seq, c)}
<1>1. 0 \in T
  <2> DEFINE g == [n \in 0 .. 0 |-> base]
  <2>1. ClimbsTo(g, 0, base, seq, c)
    BY DEF ClimbsTo
  <2>2. QED
    BY <2>1
<1>2. ASSUME NEW k \in T \cap Nat PROVE k + 1 \in T
  <2>1. PICK g : ClimbsTo(g, k, base, seq, c)
    OBVIOUS
  <2> DEFINE h == [n \in 0 .. k + 1 |->
                     IF n <= k THEN g[n]
                     ELSE IF n <= 1 THEN base ELSE Op(g[k], seq[n], c)]
             Step(n) == IF n <= 1 THEN base ELSE Op(h[n - 1], seq[n], c)
  <2>2. ASSUME NEW n \in 0 .. k + 1 PROVE h[n] = Step(n)
    <3>1. CASE n <= k
      <4>1. h[n] = g[n] /\ n \in 0 .. k
        BY <3>1
      <4>2. g[n] = IF n <= 1 THEN base ELSE Op(g[n - 1], seq[n], c)
        BY <2>1, <4>1, Zenon DEF ClimbsTo
      <4>3. n > 1 => h[n - 1] = g[n - 1]
        BY <3>1
      <4>4. QED
        BY <4>1, <4>2, <4>3
    <3>2. CASE n = k + 1
      <4>1. ~(n <= k) /\ n - 1 = k /\ k \in 0 .. k + 1 /\ k <= k
        BY <3>2
      <4>2. h[k] = g[k]
        BY <4>1
      <4>3. QED
        BY <4>1, <4>2
    <3>3. QED
      BY <3>1, <3>2
  <2>3. h = [n \in 0 .. k + 1 |-> h[n]]
    OBVIOUS
  <2> HIDE DEF h
  <2>4. h = [n \in 0 .. k + 1 |-> Step(n)]
    BY <2>2, <2>3
  <2>5. ClimbsTo(h, k + 1, base, seq, c)
    BY <2>4 DEF ClimbsTo
  <2>6. QED
    BY <2>5
<1>3. \A k \in Nat : \E g : ClimbsTo(g, k, base, seq, c)
  <2> HIDE DEF T
  <2>1. \A k \in Nat : k \in T
    BY <1>1, <1>2, SetInduction
  <2>2. QED
    BY <2>1 DEF T
<1> DEFINE Top(k) == CHOOSE g : ClimbsTo(g, k, base, seq, c)
           f == [n \in Nat |-> Top(n)[n]]
           Step(n) == IF n <= 1 THEN base ELSE Op(f[n - 1], seq[n], c)
<1>4. \A k \in Nat : ClimbsTo(Top(k), k, base, seq, c)
  BY <1>3, Zenon
<1>5. ASSUME NEW n \in Nat PROVE f[n] = Step(n)
  <2>1. f[n] = Top(n)[n]
    OBVIOUS
  <2>2. Top(n)[n] = IF n <= 1 THEN base ELSE Op(Top(n)[n - 1], seq[n], c)
    <3> HIDE DEF Top
    <3>1. n \in 0 .. n
      OBVIOUS
    <3>2. QED
      BY <1>4, <3>1, Zenon DEF ClimbsTo
  <2>3. n > 1 => Top(n)[n - 1] = f[n - 1]
    <3> HIDE DEF Top
    <3> SUFFICES ASSUME n > 1 PROVE Top(n)[n - 1] = f[n - 1]
      OBVIOUS
    <3>1. n - 1 \in Nat /\ n - 1 <= n /\ n - 1 \in 0 .. n - 1
      OBVIOUS
    <3>2. \A i \in 0 .. n - 1 : Top(n - 1)[i] = Top(n)[i]
      BY <1>4, <3>1, ClimbsAgree
    <3>3. QED
      BY <3>1, <3>2
  <2> HIDE DEF Top, f
  <2>4. QED
    BY <2>1, <2>2, <2>3
<1>6. f = [n \in Nat |-> f[n]]
  OBVIOUS
<1> HIDE DEF f
<1>7. f = [n \in Nat |-> Step(n)]
  BY <1>5, <1>6
<1>8. IsClimb(f, base, seq, c)
  BY <1>7 DEF IsClimb
<1>9. Climb(base, seq, c) = CHOOSE g : IsClimb(g, base, seq, c)
  BY Zenon DEF Climb, IsClimb
<1>10. QED
  BY <1>8, <1>9, Zenon

\* It starts at the base and takes one element per step.
THEOREM ClimbStep ==
  \A base, seq, c :
     /\ Climb(base, seq, c)[1] = base
     /\ \A n \in Nat : n >= 1 =>
           Climb(base, seq, c)[n + 1] = Op(Climb(base, seq, c)[n], seq[n + 1], c)
<1> SUFFICES ASSUME NEW base, NEW seq, NEW c
             PROVE  /\ Climb(base, seq, c)[1] = base
                    /\ \A n \in Nat : n >= 1 =>
                          Climb(base, seq, c)[n + 1] = Op(Climb(base, seq, c)[n], seq[n + 1], c)
  OBVIOUS
<1>1. IsClimb(Climb(base, seq, c), base, seq, c)
  BY ClimbIs
<1> DEFINE f == Climb(base, seq, c)
<1> HIDE DEF f
<1>2. \A n \in Nat : f[n] = IF n <= 1 THEN base ELSE Op(f[n - 1], seq[n], c)
  BY <1>1, Zenon DEF IsClimb, f
<1>3. f[1] = base
  BY <1>2
<1>4. ASSUME NEW n \in Nat, n >= 1 PROVE f[n + 1] = Op(f[n], seq[n + 1], c)
  <2>1. n + 1 \in Nat /\ ~(n + 1 <= 1) /\ (n + 1) - 1 = n
    BY <1>4
  <2>2. QED
    BY <1>2, <2>1
<1>5. QED
  BY <1>3, <1>4 DEF f

Agree(seq, other, k) == \A i \in 2 .. k : seq[i] = other[i]

\* Its value depends on the elements taken, not on those that follow.
THEOREM ClimbAgrees ==
  \A base, seq, other, c : \A k \in Nat :
     Agree(seq, other, k) => Climb(base, seq, c)[k] = Climb(base, other, c)[k]
<1> SUFFICES ASSUME NEW base, NEW seq, NEW other, NEW c, NEW k \in Nat,
                    \A i \in 2 .. k : seq[i] = other[i]
             PROVE  Climb(base, seq, c)[k] = Climb(base, other, c)[k]
  BY DEF Agree
<1>1. /\ IsClimb(Climb(base, seq, c), base, seq, c)
      /\ IsClimb(Climb(base, other, c), base, other, c)
  BY ClimbIs
<1> DEFINE f == Climb(base, seq, c)
           g == Climb(base, other, c)
           T == {n \in Nat : n <= k => f[n] = g[n]}
<1> HIDE DEF f, g
<1>2. /\ \A n \in Nat : f[n] = IF n <= 1 THEN base ELSE Op(f[n - 1], seq[n], c)
      /\ \A n \in Nat : g[n] = IF n <= 1 THEN base ELSE Op(g[n - 1], other[n], c)
  BY <1>1, Zenon DEF IsClimb, f, g
<1>3. 0 \in T
  BY <1>2
<1>4. ASSUME NEW n \in T \cap Nat PROVE n + 1 \in T
  <2> SUFFICES ASSUME n + 1 <= k PROVE f[n + 1] = g[n + 1]
    OBVIOUS
  <2>1. f[n] = g[n] /\ (n + 1) - 1 = n /\ n + 1 \in Nat
    OBVIOUS
  <2>2. /\ f[n + 1] = IF n + 1 <= 1 THEN base ELSE Op(f[n], seq[n + 1], c)
        /\ g[n + 1] = IF n + 1 <= 1 THEN base ELSE Op(g[n], other[n + 1], c)
    BY <1>2, <2>1
  <2>3. n + 1 <= 1 \/ n + 1 \in 2 .. k
    OBVIOUS
  <2>4. QED
    BY <2>1, <2>2, <2>3
<1>5. \A n \in Nat : n \in T
  <2> HIDE DEF T
  <2>1. QED
    BY <1>3, <1>4, SetInduction
<1>6. QED
  BY <1>5 DEF f, g
=============================================================================
