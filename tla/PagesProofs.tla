----------------------------- MODULE PagesProofs -----------------------------
(***************************************************************************)
(* Joining pages hands on whole chains: FullChainPages implements          *)
(* WholeDelivery, for every number of servers and chains, every limit, and *)
(* whatever is lost, late, repeated, evicted or forgotten.                 *)
(***************************************************************************)
EXTENDS PagesProperties, FiniteSetTheorems, SequenceTheorems, TLAPS

------------------------------------------------------------------------
(* Joining: what FlattenSeq computes                                     *)

JoinStep(sofar, page, c) == sofar \o page

Joining == INSTANCE FoldTheorems WITH Op <- JoinStep

\* Page after page
Through(pages) == Joining!Climb(pages[1], pages, 0)

LEMMA ThroughPages ==
  \A pages : /\ Through(pages)[1] = pages[1]
             /\ \A n \in Nat : n >= 1 =>
                   Through(pages)[n + 1] = Through(pages)[n] \o pages[n + 1]
<1>1. \A base, seq, c : Joining!Climb(base, seq, c)[1] = base
  BY Joining!ClimbStep, Zenon
<1>2. \A base, seq, c : \A n \in Nat : n >= 1 =>
        Joining!Climb(base, seq, c)[n + 1]
          = JoinStep(Joining!Climb(base, seq, c)[n], seq[n + 1], c)
  BY Joining!ClimbStep, Zenon
<1>3. \A pages : Through(pages)[1] = pages[1]
  BY <1>1 DEF Through
<1>4. \A pages : \A n \in Nat : n >= 1 =>
        Through(pages)[n + 1] = Through(pages)[n] \o pages[n + 1]
  <2>1. \A pages : \A n \in Nat : n >= 1 =>
          Through(pages)[n + 1] = JoinStep(Through(pages)[n], pages[n + 1], 0)
    BY <1>2 DEF Through
  <2>2. QED
    BY <2>1, Zenon DEF JoinStep
<1>5. QED
  BY <1>3, <1>4

LEMMA ThroughFirst ==
  \A pages, more : \A n \in Nat :
     more[1] = pages[1] /\ Joining!Agree(more, pages, n) => Through(more)[n] = Through(pages)[n]
<1>1. \A base, seq, other, c : \A k \in Nat :
        Joining!Agree(seq, other, k) =>
          Joining!Climb(base, seq, c)[k] = Joining!Climb(base, other, c)[k]
  BY Joining!ClimbAgrees, Zenon
<1> SUFFICES ASSUME NEW pages, NEW more, NEW n \in Nat,
                    more[1] = pages[1], Joining!Agree(more, pages, n)
             PROVE  Through(more)[n] = Through(pages)[n]
  BY Zenon
<1>2. Joining!Climb(pages[1], more, 0)[n] = Joining!Climb(pages[1], pages, 0)[n]
  BY <1>1
<1>3. QED
  BY <1>2 DEF Through

\* What FlattenSeq reads at the last page
IsFlattening(f, pages) ==
  f = [i \in 1..Len(pages) |-> IF i = 1 THEN pages[i] ELSE f[i - 1] \o pages[i]]

\* One such function is the climb from the first page
LEMMA ClimbFlattens ==
  ASSUME NEW V, NEW pages \in Seq(Seq(V))
  PROVE  IsFlattening([i \in 1..Len(pages) |-> Through(pages)[i]], pages)
<1> DEFINE up == Through(pages)
           f == [i \in 1..Len(pages) |-> up[i]]
           step(i) == IF i = 1 THEN pages[i] ELSE f[i - 1] \o pages[i]
<1>1. /\ up[1] = pages[1]
      /\ \A n \in Nat : n >= 1 => up[n + 1] = up[n] \o pages[n + 1]
  BY ThroughPages
<1>2. Len(pages) \in Nat
  OBVIOUS
<1> HIDE DEF up
<1>3. ASSUME NEW i \in 1..Len(pages), i # 1 PROVE f[i] = f[i - 1] \o pages[i]
  <2>1. i - 1 \in Nat /\ i - 1 >= 1 /\ (i - 1) + 1 = i /\ i - 1 \in 1..Len(pages)
    BY <1>2, <1>3
  <2>2. up[(i - 1) + 1] = up[i - 1] \o pages[(i - 1) + 1]
    BY <1>1, <2>1
  <2>3. QED
    BY <2>1, <2>2
<1>4. \A i \in 1..Len(pages) : f[i] = step(i)
  BY <1>1, <1>3
<1>5. f = [i \in 1..Len(pages) |-> f[i]]
  OBVIOUS
<1> HIDE DEF f
<1>6. f = [i \in 1..Len(pages) |-> step(i)]
  BY <1>4, <1>5
<1>7. IsFlattening(f, pages)
  BY <1>6 DEF IsFlattening
<1>8. QED
  BY <1>7 DEF f, up

\* It is the only one
LEMMA OneFlattening ==
  ASSUME NEW V, NEW pages \in Seq(Seq(V)), NEW f, NEW g,
         IsFlattening(f, pages), IsFlattening(g, pages)
  PROVE  \A i \in 1..Len(pages) : f[i] = g[i]
<1> DEFINE T == {n \in Nat : n + 1 <= Len(pages) => f[n + 1] = g[n + 1]}
<1>1. Len(pages) \in Nat
  OBVIOUS
<1>2. \A i \in 1..Len(pages) : /\ f[i] = IF i = 1 THEN pages[i] ELSE f[i - 1] \o pages[i]
                               /\ g[i] = IF i = 1 THEN pages[i] ELSE g[i - 1] \o pages[i]
  BY DEF IsFlattening
<1>3. 0 \in T
  BY <1>1, <1>2
<1>4. ASSUME NEW n \in T \cap Nat PROVE n + 1 \in T
  <2> SUFFICES ASSUME (n + 1) + 1 <= Len(pages)
               PROVE  f[(n + 1) + 1] = g[(n + 1) + 1]
    OBVIOUS
  <2>1. f[n + 1] = g[n + 1]
    BY <1>1
  <2>2. /\ (n + 1) + 1 \in 1..Len(pages) /\ (n + 1) + 1 # 1
        /\ ((n + 1) + 1) - 1 = n + 1
    BY <1>1
  <2>3. QED
    BY <1>2, <2>1, <2>2
<1>5. \A n \in Nat : n \in T
  <2> HIDE DEF T
  <2>1. QED
    BY <1>3, <1>4, Joining!SetInduction
<1>6. ASSUME NEW i \in 1..Len(pages) PROVE f[i] = g[i]
  <2>1. i - 1 \in Nat /\ (i - 1) + 1 = i /\ i <= Len(pages)
    BY <1>1
  <2>2. i - 1 \in T
    BY <1>5, <2>1
  <2>3. QED
    BY <2>1, <2>2
<1>7. QED
  BY <1>6

\* Pages join to what is climbed through them.
LEMMA JoinedIsClimb ==
  ASSUME NEW V, NEW pages \in Seq(Seq(V)), pages # <<>>
  PROVE  Joined(pages) = Through(pages)[Len(pages)]
<1> DEFINE g == [i \in 1..Len(pages) |-> Through(pages)[i]]
           f == CHOOSE h : IsFlattening(h, pages)
<1>1. Len(pages) \in Nat /\ Len(pages) # 0 /\ Len(pages) \in 1..Len(pages)
  OBVIOUS
<1>2. Joined(pages) = f[Len(pages)]
  BY <1>1, Zenon DEF Joined, FlattenSeq, IsFlattening
<1>3. IsFlattening(g, pages)
  BY ClimbFlattens
<1> HIDE DEF g
<1>4. IsFlattening(f, pages)
  BY <1>3, Zenon
<1> HIDE DEF f
<1>5. f[Len(pages)] = g[Len(pages)]
  BY <1>1, <1>3, <1>4, OneFlattening
<1>6. QED
  BY <1>1, <1>2, <1>5 DEF g

\* Joining one page and joining one page more.
LEMMA JoinedOne ==
  ASSUME NEW V, NEW page \in Seq(V)
  PROVE  Joined(<<page>>) = page
<1>1. <<page>> \in Seq(Seq(V)) /\ <<page>> # <<>> /\ Len(<<page>>) = 1 /\ <<page>>[1] = page
  OBVIOUS
<1>2. Joined(<<page>>) = Through(<<page>>)[Len(<<page>>)]
  BY <1>1, JoinedIsClimb
<1>3. QED
  BY <1>1, <1>2, ThroughPages

LEMMA JoinedMore ==
  ASSUME NEW V, NEW pages \in Seq(Seq(V)), pages # <<>>, NEW page \in Seq(V)
  PROVE  Joined(Append(pages, page)) = Joined(pages) \o page
<1> DEFINE more == Append(pages, page)
           n == Len(pages)
<1>1. /\ n \in Nat /\ n >= 1 /\ more \in Seq(Seq(V)) /\ more # <<>> /\ Len(more) = n + 1
      /\ more[1] = pages[1] /\ more[n + 1] = page
      /\ \A i \in 2..n : more[i] = pages[i]
  <2>1. n \in Nat /\ n >= 1
    OBVIOUS
  <2>2. more \in Seq(Seq(V)) /\ more # <<>> /\ Len(more) = n + 1
    BY <2>1
  <2>3. \A i \in 1..n : more[i] = pages[i]
    OBVIOUS
  <2>4. more[n + 1] = page
    BY <2>1
  <2>5. \A i \in 2..n : i \in 1..n
    BY <2>1
  <2>6. 1 \in 1..n
    BY <2>1
  <2> HIDE DEF more, n
  <2>7. QED
    BY <2>1, <2>2, <2>3, <2>4, <2>5, <2>6
<1> HIDE DEF more
<1>2. Joined(more) = Through(more)[n + 1]
  <2>1. Joined(more) = Through(more)[Len(more)]
    BY <1>1, JoinedIsClimb
  <2>2. QED
    BY <1>1, <2>1
<1>3. Joined(pages) = Through(pages)[n]
  BY JoinedIsClimb
<1>4. Through(more)[n] = Through(pages)[n]
  <2>1. Joining!Agree(more, pages, n)
    BY <1>1 DEF Joining!Agree
  <2> HIDE DEF n
  <2>2. QED
    BY <1>1, <2>1, ThroughFirst
<1>5. Through(more)[n + 1] = Through(more)[n] \o more[n + 1]
  <2> HIDE DEF n
  <2>1. QED
    BY <1>1, ThroughPages
<1>6. QED
  BY <1>1, <1>2, <1>3, <1>4, <1>5 DEF more

\* Pages of blocks join to blocks.
LEMMA JoinedIsSeq ==
  ASSUME NEW V, NEW pages \in Seq(Seq(V)), pages # <<>>
  PROVE  Joined(pages) \in Seq(V)
<1> DEFINE up == Through(pages)
           T == {n \in Nat : n + 1 <= Len(pages) => up[n + 1] \in Seq(V)}
<1>1. /\ up[1] = pages[1]
      /\ \A n \in Nat : n >= 1 => up[n + 1] = up[n] \o pages[n + 1]
  BY ThroughPages
<1>2. /\ Len(pages) \in Nat /\ Len(pages) # 0
      /\ \A i \in 1..Len(pages) : pages[i] \in Seq(V)
  OBVIOUS
<1> HIDE DEF up
<1>3. 0 \in T
  BY <1>1, <1>2
<1>4. ASSUME NEW n \in T \cap Nat PROVE n + 1 \in T
  <2> SUFFICES ASSUME (n + 1) + 1 <= Len(pages) PROVE up[(n + 1) + 1] \in Seq(V)
    OBVIOUS
  <2>1. up[n + 1] \in Seq(V) /\ pages[(n + 1) + 1] \in Seq(V)
    BY <1>2
  <2>2. up[(n + 1) + 1] = up[n + 1] \o pages[(n + 1) + 1]
    <3>1. n + 1 \in Nat /\ n + 1 >= 1
      OBVIOUS
    <3>2. QED
      BY <1>1, <3>1, Zenon
  <2>3. QED
    BY <2>1, <2>2
<1>5. \A n \in Nat : n \in T
  <2> HIDE DEF T
  <2>1. QED
    BY <1>3, <1>4, Joining!SetInduction
<1>6. PICK n \in Nat : n + 1 = Len(pages)
  <2>1. Len(pages) - 1 \in Nat /\ (Len(pages) - 1) + 1 = Len(pages)
    BY <1>2
  <2>2. QED
    BY <2>1
<1>7. up[Len(pages)] \in Seq(V)
  <2>1. n \in T
    BY <1>5
  <2>2. QED
    BY <1>6, <2>1
<1>8. QED
  BY <1>7, JoinedIsClimb DEF up

\* A block added to the last page is added to the blocks.
LEMMA JoinedLonger ==
  ASSUME NEW V, NEW pages \in Seq(Seq(V)), NEW page \in Seq(V), NEW b \in V
  PROVE  Joined(Append(pages, Append(page, b))) = Append(Joined(Append(pages, page)), b)
<1>1. Append(page, b) \in Seq(V)
  OBVIOUS
<1>2. CASE pages = <<>>
  <2>1. Append(pages, page) = <<page>> /\ Append(pages, Append(page, b)) = <<Append(page, b)>>
    BY <1>2
  <2>2. QED
    BY <1>1, <2>1, JoinedOne
<1>3. CASE pages # <<>>
  <2>1. /\ Joined(Append(pages, Append(page, b))) = Joined(pages) \o Append(page, b)
        /\ Joined(Append(pages, page)) = Joined(pages) \o page
    BY <1>1, <1>3, JoinedMore
  <2>2. \A joined \in Seq(V) : joined \o Append(page, b) = Append(joined \o page, b)
    OBVIOUS
  <2>3. QED
    BY <1>3, <2>1, <2>2, JoinedIsSeq
<1>4. QED
  BY <1>2, <1>3

------------------------------------------------------------------------
(* Cutting: what the fold over the blocks keeps                          *)

SizeStep(sum, b, s) == sum + SizeAt(s, b)
CutStep(cut, b, s) == Put(s, cut, b)

Measuring == INSTANCE FoldTheorems WITH Op <- SizeStep
Cutting == INSTANCE FoldTheorems WITH Op <- CutStep

NoCut == [pages |-> <<>>, page |-> <<>>, bytes |-> 0]
CutOf(s, blocks) == FoldLeft(LAMBDA acc, b : Put(s, acc, b), NoCut, blocks)

LEMMA BytesIsFold == \A s, page : Bytes(s, page) = Measuring!Fold(0, page, s)
BY Zenon DEF Bytes, SizeStep, Measuring!Fold, FoldLeft, Measuring!FoldLeft,
             MapThenFoldSet, Measuring!MapThenFoldSet, Max, Measuring!Max

LEMMA CutIsFold == \A s, blocks : CutOf(s, blocks) = Cutting!Fold(NoCut, blocks, s)
BY Zenon DEF CutOf, CutStep, Cutting!Fold, FoldLeft, Cutting!FoldLeft,
             MapThenFoldSet, Cutting!MapThenFoldSet, Max, Cutting!Max

\* The bytes of a page are those of its blocks.
LEMMA BytesGrow ==
  ASSUME NEW V, NEW page \in Seq(V), NEW b \in V, NEW s
  PROVE  /\ Bytes(s, <<>>) = 0
         /\ Bytes(s, Append(page, b)) = Bytes(s, page) + SizeAt(s, b)
<1>1. Bytes(s, <<>>) = 0
  <2>1. Measuring!Fold(0, <<>>, s) = 0
    BY Measuring!FoldEmpty, Zenon
  <2>2. QED
    BY <2>1, BytesIsFold, Zenon
<1> DEFINE more == Append(page, b)
           n == Len(page)
<1>2. /\ n \in Nat /\ n < Len(more) /\ more \in Seq(V) /\ more[n + 1] = b
      /\ SubSeq(more, 1, n + 1) = more /\ SubSeq(more, 1, n) = page
  OBVIOUS
<1> HIDE DEF more, n
<1>3. Measuring!Fold(0, SubSeq(more, 1, n + 1), s)
        = SizeStep(Measuring!Fold(0, SubSeq(more, 1, n), s), more[n + 1], s)
  BY <1>2, Measuring!FoldPrefix, Zenon
<1>4. Measuring!Fold(0, more, s) = SizeStep(Measuring!Fold(0, page, s), b, s)
  BY <1>2, <1>3, Zenon
<1>5. Bytes(s, more) = SizeStep(Bytes(s, page), b, s)
  BY <1>4, BytesIsFold, Zenon
<1>6. QED
  BY <1>1, <1>5 DEF more, SizeStep

\* What is promised of each page
GoodPage(s, pages, i) ==
  /\ pages[i] # <<>>
  /\ Bytes(s, pages[i]) <= PageBytes \/ Len(pages[i]) = 1
  /\ i > 1 => Bytes(s, pages[i - 1]) + SizeAt(s, pages[i][1]) > PageBytes

All(cut) == Append(cut.pages, cut.page)

\* The pages so far hold the blocks so far
GoodCut(s, V, cut, blocks) ==
  /\ cut \in [pages : Seq(Seq(V)), page : Seq(V), bytes : Nat]
  /\ cut.bytes = Bytes(s, cut.page)
  /\ blocks = <<>> => cut.pages = <<>> /\ cut.page = <<>>
  /\ blocks # <<>> => /\ cut.page # <<>> /\ Joined(All(cut)) = blocks
                      /\ \A i \in DOMAIN All(cut) : GoodPage(s, All(cut), i)

\* The pages before the last one stay good when another last one is set.
LEMMA GoodBefore ==
  ASSUME NEW V, NEW pages \in Seq(Seq(V)), NEW page \in Seq(V), NEW other \in Seq(V), NEW s,
         NEW i \in 1..Len(pages), GoodPage(s, Append(pages, page), i)
  PROVE  GoodPage(s, Append(pages, other), i)
<1>1. /\ Append(pages, page)[i] = pages[i] /\ Append(pages, other)[i] = pages[i]
      /\ i > 1 => /\ Append(pages, page)[i - 1] = pages[i - 1]
                  /\ Append(pages, other)[i - 1] = pages[i - 1]
  OBVIOUS
<1>2. QED
  BY <1>1 DEF GoodPage

\* The first block opens the first page.
LEMMA FirstBlock ==
  ASSUME NEW V, NEW cut, NEW s, NEW b \in V, \A x \in V : SizeAt(s, x) \in Nat,
         GoodCut(s, V, cut, <<>>)
  PROVE  GoodCut(s, V, Put(s, cut, b), <<b>>)
<1>1. cut.pages = <<>> /\ cut.page = <<>>
  BY DEF GoodCut
<1>2. <<b>> \in Seq(V) /\ <<b>> = Append(<<>>, b) /\ <<>> \in Seq(V) /\ <<>> \in Seq(Seq(V))
      /\ <<b>> # <<>> /\ Len(<<b>>) = 1
  OBVIOUS
<1>3. Bytes(s, <<>>) = 0 /\ Bytes(s, <<b>>) = 0 + SizeAt(s, b) /\ SizeAt(s, b) \in Nat
  BY <1>2, BytesGrow
<1> DEFINE new == Put(s, cut, b)
<1>4. cut.bytes = 0
  BY <1>1, <1>3 DEF GoodCut
<1>5. new = [pages |-> <<>>, page |-> <<b>>, bytes |-> SizeAt(s, b)]
  BY <1>1, <1>2, <1>3, <1>4 DEF Put
<1> HIDE DEF new
<1>6. All(new) = <<<<b>>>>
  BY <1>5 DEF All
<1>7. Joined(All(new)) = <<b>>
  BY <1>2, <1>6, JoinedOne
<1>8. ASSUME NEW i \in DOMAIN All(new) PROVE GoodPage(s, All(new), i)
  <2>1. i = 1 /\ All(new)[1] = <<b>>
    BY <1>6
  <2>2. QED
    BY <1>2, <2>1 DEF GoodPage
<1>9. new \in [pages : Seq(Seq(V)), page : Seq(V), bytes : Nat] /\ new.bytes = Bytes(s, new.page)
      /\ new.page # <<>>
  BY <1>2, <1>3, <1>5
<1>10. QED
  BY <1>2, <1>7, <1>8, <1>9 DEF GoodCut, new

LEMMA Appended ==
  \A W : \A seq \in Seq(W) : \A elem \in W :
     /\ Append(seq, elem) \in Seq(W) /\ Append(seq, elem) # <<>>
     /\ Len(Append(seq, elem)) = Len(seq) + 1
     /\ Append(seq, elem)[Len(seq) + 1] = elem
BY AppendProperties

\* A block that does not fit opens the next page.
LEMMA NextPage ==
  ASSUME NEW V, NEW cut, NEW s, NEW b \in V, \A x \in V : SizeAt(s, x) \in Nat,
         NEW blocks \in Seq(V), blocks # <<>>, GoodCut(s, V, cut, blocks),
         cut.bytes + SizeAt(s, b) > PageBytes
  PROVE  GoodCut(s, V, Put(s, cut, b), Append(blocks, b))
<1> DEFINE all == All(cut)
           new == Put(s, cut, b)
<1>1. /\ cut.pages \in Seq(Seq(V)) /\ cut.page \in Seq(V) /\ cut.bytes = Bytes(s, cut.page)
      /\ cut.page # <<>> /\ Joined(all) = blocks
      /\ \A i \in DOMAIN all : GoodPage(s, all, i)
  BY DEF GoodCut
<1>2. all \in Seq(Seq(V)) /\ all # <<>> /\ Len(all) \in Nat /\ Len(all) >= 1
      /\ all[Len(all)] = cut.page /\ DOMAIN all = 1..Len(all)
  <2>1. \A pages \in Seq(Seq(V)) : \A page \in Seq(V) :
          /\ Append(pages, page) \in Seq(Seq(V)) /\ Append(pages, page) # <<>>
          /\ Len(Append(pages, page)) = Len(pages) + 1
          /\ Append(pages, page)[Len(pages) + 1] = page
    BY Appended, Zenon
  <2>2. Len(cut.pages) \in Nat
    BY <1>1
  <2>3. /\ all \in Seq(Seq(V)) /\ all # <<>> /\ Len(all) = Len(cut.pages) + 1
        /\ all[Len(cut.pages) + 1] = cut.page
    BY <1>1, <2>1 DEF All
  <2> HIDE DEF all
  <2>4. DOMAIN all = 1..Len(all)
    BY <2>3
  <2>5. QED
    BY <2>2, <2>3, <2>4
<1>3. <<b>> \in Seq(V) /\ <<b>> = Append(<<>>, b) /\ <<>> \in Seq(V) /\ <<b>> # <<>>
      /\ Len(<<b>>) = 1 /\ <<b>>[1] = b
  OBVIOUS
<1>4. Bytes(s, <<>>) = 0 /\ Bytes(s, <<b>>) = 0 + SizeAt(s, b) /\ SizeAt(s, b) \in Nat
  BY <1>3, BytesGrow
<1>5. new = [pages |-> all, page |-> <<b>>, bytes |-> SizeAt(s, b)]
  BY <1>1 DEF Put, All
<1> HIDE DEF all, new
<1>6. All(new) = Append(all, <<b>>)
  BY <1>5 DEF All
<1>7. Joined(All(new)) = Append(blocks, b)
  <2>1. Joined(Append(all, <<b>>)) = Joined(all) \o <<b>>
    BY <1>2, <1>3, JoinedMore
  <2>2. Joined(All(new)) = blocks \o <<b>>
    BY <1>1, <1>6, <2>1, Zenon
  <2>3. blocks \o <<b>> = Append(blocks, b)
    OBVIOUS
  <2>4. QED
    BY <2>2, <2>3
<1>8. ASSUME NEW i \in DOMAIN All(new) PROVE GoodPage(s, All(new), i)
  <2>0. DOMAIN All(new) = 1..Len(all) + 1
    BY <1>2, <1>3, <1>6
  <2>1. CASE i \in 1..Len(all)
    <3>1. GoodPage(s, all, i)
      BY <1>1, <1>2, <2>1
    <3>2. All(new)[i] = all[i]
      BY <1>2, <1>3, <1>6, <2>1
    <3>3. i > 1 => All(new)[i - 1] = all[i - 1]
      <4>1. i > 1 => i - 1 \in 1..Len(all)
        BY <1>2, <2>1
      <4>2. \A k \in 1..Len(all) : All(new)[k] = all[k]
        BY <1>2, <1>3, <1>6
      <4>3. QED
        BY <4>1, <4>2
    <3>4. QED
      BY <3>1, <3>2, <3>3 DEF GoodPage
  <2>2. CASE i = Len(all) + 1
    <3>1. All(new)[i] = <<b>> /\ All(new)[i - 1] = cut.page
      BY <1>2, <1>3, <1>6, <2>2
    <3>2. QED
      BY <1>1, <1>3, <3>1 DEF GoodPage
  <2>3. QED
    BY <1>2, <2>0, <2>1, <2>2
<1>9. new \in [pages : Seq(Seq(V)), page : Seq(V), bytes : Nat] /\ new.bytes = Bytes(s, new.page)
      /\ new.page # <<>>
  BY <1>2, <1>3, <1>4, <1>5
<1>10. Append(blocks, b) # <<>>
  OBVIOUS
<1>11. QED
  BY <1>7, <1>8, <1>9, <1>10 DEF GoodCut, new

\* A block that fits joins the last page.
LEMMA SamePage ==
  ASSUME NEW V, NEW cut, NEW s, NEW b \in V, \A x \in V : SizeAt(s, x) \in Nat,
         NEW blocks \in Seq(V), blocks # <<>>, GoodCut(s, V, cut, blocks),
         cut.bytes + SizeAt(s, b) <= PageBytes
  PROVE  GoodCut(s, V, Put(s, cut, b), Append(blocks, b))
<1> DEFINE all  == All(cut)
           page == Append(cut.page, b)
           new  == Put(s, cut, b)
           n    == Len(cut.pages)
<1>1. /\ cut.pages \in Seq(Seq(V)) /\ cut.page \in Seq(V) /\ cut.bytes = Bytes(s, cut.page)
      /\ cut.bytes \in Nat /\ SizeAt(s, b) \in Nat /\ PageBytes \in Nat
      /\ cut.page # <<>> /\ Joined(all) = blocks
      /\ \A i \in DOMAIN all : GoodPage(s, all, i)
  BY PageConstants DEF GoodCut
<1>2. /\ page \in Seq(V) /\ page # <<>> /\ page[1] = cut.page[1]
      /\ Bytes(s, page) = cut.bytes + SizeAt(s, b)
  <2>1. Bytes(s, page) = cut.bytes + SizeAt(s, b)
    BY <1>1, BytesGrow
  <2>2. \A old \in Seq(V) : old # <<>> => /\ Append(old, b) \in Seq(V) /\ Append(old, b) # <<>>
                                         /\ Append(old, b)[1] = old[1]
    OBVIOUS
  <2>3. QED
    BY <1>1, <2>1, <2>2
<1>3. new = [pages |-> cut.pages, page |-> page, bytes |-> cut.bytes + SizeAt(s, b)]
  <2>1. ~(cut.bytes + SizeAt(s, b) > PageBytes)
    BY <1>1
  <2>2. QED
    BY <2>1 DEF Put
<1>4. n \in Nat /\ DOMAIN all = 1..n + 1 /\ all[n + 1] = cut.page
  BY <1>1 DEF All
<1>5. Joined(Append(cut.pages, page)) = Append(Joined(all), b)
  <2>1. \A pages \in Seq(Seq(V)) : \A old \in Seq(V) :
          Joined(Append(pages, Append(old, b))) = Append(Joined(Append(pages, old)), b)
    BY JoinedLonger
  <2>2. QED
    BY <1>1, <2>1 DEF All
<1> HIDE DEF new, page
<1>6. All(new) = Append(cut.pages, page)
  BY <1>3 DEF All
<1>7. DOMAIN All(new) = 1..n + 1 /\ All(new)[n + 1] = page
  BY <1>1, <1>2, <1>6
<1>8. ASSUME NEW i \in DOMAIN All(new) PROVE GoodPage(s, All(new), i)
  <2>0. GoodPage(s, all, i)
    BY <1>1, <1>4, <1>7
  <2>1. CASE i \in 1..n
    BY <1>1, <1>2, <1>6, <2>0, <2>1, GoodBefore DEF All
  <2>2. CASE i = n + 1
    <3>1. All(new)[i] = page /\ all[i] = cut.page
      BY <1>4, <1>7, <2>2
    <3>2. i > 1 => All(new)[i - 1] = all[i - 1]
      <4>1. i > 1 => i - 1 \in 1..n
        BY <1>4, <2>2
      <4>2. \A k \in 1..n : All(new)[k] = cut.pages[k] /\ all[k] = cut.pages[k]
        BY <1>1, <1>2, <1>6 DEF All
      <4>3. QED
        BY <4>1, <4>2
    <3> HIDE DEF all
    <3>3. QED
      BY <1>2, <2>0, <3>1, <3>2 DEF GoodPage
  <2>3. QED
    BY <1>4, <1>7, <2>1, <2>2
<1>9. new \in [pages : Seq(Seq(V)), page : Seq(V), bytes : Nat] /\ new.bytes = Bytes(s, new.page)
      /\ new.page # <<>>
  BY <1>1, <1>2, <1>3
<1>10. Append(blocks, b) # <<>>
  OBVIOUS
<1>11. QED
  BY <1>1, <1>5, <1>6, <1>8, <1>9, <1>10 DEF GoodCut, new

LEMMA CutGrows ==
  ASSUME NEW V, NEW cut, NEW s, NEW b \in V, \A x \in V : SizeAt(s, x) \in Nat,
         NEW blocks \in Seq(V), GoodCut(s, V, cut, blocks)
  PROVE  GoodCut(s, V, Put(s, cut, b), Append(blocks, b))
<1>1. cut.bytes \in Nat /\ SizeAt(s, b) \in Nat /\ PageBytes \in Nat
  BY PageConstants DEF GoodCut
<1>2. CASE blocks = <<>>
  <2>1. Append(blocks, b) = <<b>>
    BY <1>2
  <2>2. QED
    BY <1>2, <2>1, FirstBlock
<1>3. CASE blocks # <<>> /\ cut.bytes + SizeAt(s, b) > PageBytes
  BY <1>3, NextPage
<1>4. CASE blocks # <<>> /\ cut.bytes + SizeAt(s, b) <= PageBytes
  BY <1>4, SamePage
<1>5. QED
  BY <1>1, <1>2, <1>3, <1>4

\* The fold keeps it.
LEMMA CutIsGood ==
  ASSUME NEW V, NEW s, NEW blocks \in Seq(V), \A x \in V : SizeAt(s, x) \in Nat
  PROVE  GoodCut(s, V, CutOf(s, blocks), blocks)
<1> DEFINE front(n) == SubSeq(blocks, 1, n)
           T == {n \in Nat : n <= Len(blocks) => GoodCut(s, V, CutOf(s, front(n)), front(n))}
<1>1. Len(blocks) \in Nat /\ front(Len(blocks)) = blocks /\ front(0) = <<>>
  OBVIOUS
<1>2. ASSUME NEW n \in Nat, n < Len(blocks)
      PROVE  /\ front(n) \in Seq(V) /\ front(n + 1) = Append(front(n), blocks[n + 1])
             /\ blocks[n + 1] \in V
  <2>1. n + 1 \in 1..Len(blocks)
    BY <1>1, <1>2
  <2>2. Len(front(n + 1)) = n + 1 /\ Len(front(n)) = n
        /\ front(n) \in Seq(V) /\ front(n + 1) \in Seq(V) /\ blocks[n + 1] \in V
    BY <1>2, <2>1
  <2>3. \A i \in 1..n + 1 : front(n + 1)[i] = Append(front(n), blocks[n + 1])[i]
    BY <1>2, <2>1
  <2>4. Append(front(n), blocks[n + 1]) \in Seq(V) /\ Len(Append(front(n), blocks[n + 1])) = n + 1
    BY <2>2
  <2> HIDE DEF front
  <2>5. QED
    BY <2>2, <2>3, <2>4, SeqEqual
<1>3. ASSUME NEW n \in Nat, n < Len(blocks)
      PROVE  CutOf(s, front(n + 1)) = Put(s, CutOf(s, front(n)), blocks[n + 1])
  <2>1. Cutting!Fold(NoCut, SubSeq(blocks, 1, n + 1), s)
          = CutStep(Cutting!Fold(NoCut, SubSeq(blocks, 1, n), s), blocks[n + 1], s)
    BY <1>3, Cutting!FoldPrefix, Zenon
  <2>2. QED
    BY <2>1, CutIsFold, Zenon DEF CutStep
<1>4. 0 \in T
  <2>1. CutOf(s, <<>>) = NoCut
    BY CutIsFold, Cutting!FoldEmpty, Zenon
  <2>2. Bytes(s, <<>>) = 0
    BY BytesIsFold, Measuring!FoldEmpty, Zenon
  <2>3. GoodCut(s, V, NoCut, <<>>)
    BY <2>2 DEF GoodCut, NoCut
  <2>4. QED
    BY <1>1, <2>1, <2>3
<1> HIDE DEF front
<1>5. ASSUME NEW n \in T \cap Nat PROVE n + 1 \in T
  <2> SUFFICES ASSUME n + 1 <= Len(blocks)
               PROVE  GoodCut(s, V, CutOf(s, front(n + 1)), front(n + 1))
    OBVIOUS
  <2>1. n < Len(blocks) /\ GoodCut(s, V, CutOf(s, front(n)), front(n))
    BY <1>1
  <2>2. front(n) \in Seq(V) /\ blocks[n + 1] \in V
    BY <1>2, <2>1
  <2>3. GoodCut(s, V, Put(s, CutOf(s, front(n)), blocks[n + 1]), Append(front(n), blocks[n + 1]))
    BY <2>1, <2>2, CutGrows
  <2>4. QED
    BY <1>2, <1>3, <2>1, <2>3
<1>6. \A n \in Nat : n \in T
  <2> HIDE DEF T
  <2>1. QED
    BY <1>4, <1>5, Cutting!SetInduction
<1>7. Len(blocks) \in T
  BY <1>1, <1>6
<1>8. QED
  BY <1>1, <1>7

\* Whatever the blocks, their sizes and the size of a page: the pages join to the blocks,
\* each is within the budget or one block, and none could have taken the next block.
LEMMA PaginateIsPagination ==
  ASSUME NEW V, NEW s, NEW blocks \in Seq(V), \A x \in V : SizeAt(s, x) \in Nat
  PROVE  /\ Paginate(s, blocks) \in Seq(Seq(V))
         /\ IsPagination(s, blocks, Paginate(s, blocks))
<1> DEFINE cut   == CutOf(s, blocks)
           pages == Paginate(s, blocks)
<1>1. GoodCut(s, V, cut, blocks)
  BY CutIsGood
<1>2. pages = IF cut.page # <<>> \/ cut.pages = <<>> THEN All(cut) ELSE cut.pages
  BY Zenon DEF Paginate, CutOf, NoCut, All
<1> HIDE DEF cut
<1>3. cut.pages \in Seq(Seq(V)) /\ cut.page \in Seq(V)
  BY <1>1 DEF GoodCut
<1>4. cut.page # <<>> \/ cut.pages = <<>>
  BY <1>1 DEF GoodCut
<1>5. pages = All(cut)
  BY <1>2, <1>4
<1> HIDE DEF pages
<1>6. pages \in Seq(Seq(V))
  BY <1>3, <1>5 DEF All
<1>7. CASE blocks = <<>>
  <2>1. cut.pages = <<>> /\ cut.page = <<>>
    BY <1>1, <1>7 DEF GoodCut
  <2>2. pages = <<<<>>>> /\ <<>> \in Seq({})
    BY <1>5, <2>1 DEF All
  <2>3. Joined(pages) = <<>>
    BY <2>2, JoinedOne
  <2>4. Bytes(s, <<>>) = 0 /\ 0 <= PageBytes
    BY BytesIsFold, Measuring!FoldEmpty, PageConstants
  <2>5. DOMAIN pages = {1} /\ pages[1] = <<>> /\ Len(pages) = 1
    BY <2>2
  <2>6. QED
    BY <1>6, <1>7, <2>3, <2>4, <2>5 DEF IsPagination, pages
<1>8. CASE blocks # <<>>
  <2>1. Joined(pages) = blocks /\ \A i \in DOMAIN pages : GoodPage(s, pages, i)
    BY <1>1, <1>5, <1>8 DEF GoodCut
  <2>2. <<>> \notin ToSet(pages)
    BY <2>1 DEF ToSet, GoodPage
  <2>3. QED
    BY <1>6, <2>1, <2>2 DEF IsPagination, GoodPage, pages
<1>9. QED
  BY <1>7, <1>8

\* The cut of a chain is a sequence of pages that join to it.
LEMMA CutJoins ==
  ASSUME NEW k \in Keys, NEW s \in Servers
  PROVE  /\ Len(Cut(s, k)) \in Nat
         /\ Cut(s, k) = [i \in 1..Len(Cut(s, k)) |-> Cut(s, k)[i]]
         /\ Joined(Cut(s, k)) = Served[k]
<1> DEFINE V == ToSet(Served[k])
           cut == Cut(s, k)
<1>1. Served[k] \in Seq(V) /\ \A b \in V : SizeAt(s, b) \in Nat
  BY PageConstants
<1>2. cut = Paginate(s, Served[k])
  BY DEF Cut, Cuts
<1> HIDE DEF V, cut
<1>3. cut \in Seq(Seq(V)) /\ IsPagination(s, Served[k], cut)
  BY <1>1, <1>2, PaginateIsPagination
<1>4. Joined(cut) = Served[k]
  BY <1>3, Zenon DEF IsPagination
<1>5. Len(cut) \in Nat /\ cut = [i \in 1..Len(cut) |-> cut[i]]
  BY <1>3
<1>6. QED
  BY <1>4, <1>5 DEF cut

------------------------------------------------------------------------
(* Whole chains                                                          *)

\* Two servers that cut a chain into the same number of pages cut it at the same
\* places: blocks are written alike.
CutsAgree ==
  \A k \in Keys : \A s, t \in Servers :
    Len(Cut(s, k)) = Len(Cut(t, k)) => Cut(s, k) = Cut(t, k)

\* As long as servers write the blocks of a chain in as many bytes as each other, they do.
LEMMA WrittenAlike ==
  ASSUME \A k \in Keys : \A s, t \in Servers : \A b \in ToSet(Served[k]) : SizeAt(s, b) = SizeAt(t, b)
  PROVE  CutsAgree
<1> SUFFICES ASSUME NEW k \in Keys, NEW s \in Servers, NEW t \in Servers
             PROVE  Cut(s, k) = Cut(t, k)
  BY DEF CutsAgree
<1> DEFINE V == ToSet(Served[k])
           blocks == Served[k]
           front(n) == SubSeq(blocks, 1, n)
           T == {n \in Nat : n <= Len(blocks) => CutOf(s, front(n)) = CutOf(t, front(n))}
<1>1. /\ blocks \in Seq(V) /\ Len(blocks) \in Nat /\ front(Len(blocks)) = blocks
      /\ front(0) = <<>>
  BY PageConstants
<1>2. \A b \in V : \A cut : Put(s, cut, b) = Put(t, cut, b)
  BY DEF Put
<1>3. ASSUME NEW n \in Nat, n < Len(blocks), NEW u \in Servers
      PROVE  CutOf(u, front(n + 1)) = Put(u, CutOf(u, front(n)), blocks[n + 1])
  <2>1. Cutting!Fold(NoCut, SubSeq(blocks, 1, n + 1), u)
          = CutStep(Cutting!Fold(NoCut, SubSeq(blocks, 1, n), u), blocks[n + 1], u)
    <3>1. blocks \in Seq(V) /\ n \in Nat /\ n < Len(blocks)
      BY <1>1, <1>3
    <3> HIDE DEF V, blocks, front
    <3>2. QED
      BY <3>1, Cutting!FoldPrefix, Zenon
  <2>2. QED
    BY <2>1, CutIsFold, Zenon DEF CutStep
<1>4. CutOf(s, <<>>) = CutOf(t, <<>>)
  BY CutIsFold, Cutting!FoldEmpty, Zenon
<1>5. 0 \in T
  BY <1>1, <1>4
<1> HIDE DEF front, blocks, V
<1>6. ASSUME NEW n \in T \cap Nat PROVE n + 1 \in T
  <2> SUFFICES ASSUME n + 1 <= Len(blocks) PROVE CutOf(s, front(n + 1)) = CutOf(t, front(n + 1))
    OBVIOUS
  <2>1. n < Len(blocks) /\ blocks[n + 1] \in V /\ CutOf(s, front(n)) = CutOf(t, front(n))
    BY <1>1
  <2>2. /\ CutOf(s, front(n + 1)) = Put(s, CutOf(s, front(n)), blocks[n + 1])
        /\ CutOf(t, front(n + 1)) = Put(t, CutOf(t, front(n)), blocks[n + 1])
    BY <1>3, <2>1
  <2>3. Put(s, CutOf(s, front(n)), blocks[n + 1]) = Put(t, CutOf(s, front(n)), blocks[n + 1])
    BY <1>2, <2>1, Zenon
  <2>4. QED
    BY <2>1, <2>2, <2>3
<1>7. \A n \in Nat : n \in T
  <2> HIDE DEF T
  <2>1. QED
    BY <1>5, <1>6, Cutting!SetInduction
<1>8. CutOf(s, blocks) = CutOf(t, blocks)
  <2>1. Len(blocks) \in T
    BY <1>1, <1>7
  <2>2. QED
    BY <1>1, <2>1
<1>9. \A u \in Servers : Cut(u, k) = LET cut == CutOf(u, blocks)
                                    IN IF cut.page # <<>> \/ cut.pages = <<>>
                                       THEN Append(cut.pages, cut.page) ELSE cut.pages
  BY Zenon DEF Cut, Cuts, Paginate, CutOf, NoCut, blocks
<1>10. QED
  BY <1>8, <1>9


IsPage(k, pages, i, blocks) ==
  \E s \in Servers : /\ pages = Len(Cut(s, k)) /\ i \in 1..pages
                     /\ blocks = Cut(s, k)[i]

SentPages ==
  \A m \in msgs :
    /\ m.key \in Keys
    /\ m.type \in {"FULL_CHAIN", "FULL_CHAIN_PAGE"}
    /\ m.type = "FULL_CHAIN" => m.blocks = Served[m.key]
    /\ m.type = "FULL_CHAIN_PAGE" => IsPage(m.key, m.pages, m.page, m.blocks)

IsSet(k, set) ==
  /\ set.got = [i \in DOMAIN set.got |-> set.got[i]]
  /\ \A i \in DOMAIN set.got : IsPage(k, set.pages, i, set.got[i])

KeptPages == \A k \in DOMAIN buffer : k \in Keys /\ IsSet(k, buffer[k])

IInv == now \in 1..MaxTime /\ SentPages /\ KeptPages

------------------------------------------------------------------------

\* What is sent is a page or the whole chain (p2p.py:772-787).
LEMMA AnswerSent ==
  ASSUME NEW s \in Servers, NEW k \in Keys, NEW n, NEW m \in Answer(s, k, n)
  PROVE  /\ m.key = k
         /\ \/ m.type = "FULL_CHAIN" /\ m.blocks = Served[k]
            \/ m.type = "FULL_CHAIN_PAGE" /\ IsPage(k, m.pages, m.page, m.blocks)
<1>1. CASE m = FullChain(s, k, n)
  BY <1>1 DEF FullChain
<1>2. ASSUME NEW i \in 1..Len(Cut(s, k)), m = Page(s, k, n, i)
      PROVE  m.key = k /\ m.type = "FULL_CHAIN_PAGE" /\ IsPage(k, m.pages, m.page, m.blocks)
  <2>1. /\ m.key = k /\ m.type = "FULL_CHAIN_PAGE" /\ m.pages = Len(Cut(s, k))
        /\ m.page = i /\ m.blocks = Cut(s, k)[i]
    BY <1>2 DEF Page
  <2> QED
    BY <2>1 DEF IsPage
<1> QED
  BY <1>1, <1>2 DEF Answer

\* Dropping sets keeps the others as they are (p2p.py:295-308).
LEMMA OnlyKeeps ==
  ASSUME NEW b, NEW S, S \subseteq DOMAIN b,
         \A k \in DOMAIN b : k \in Keys /\ IsSet(k, b[k])
  PROVE  /\ DOMAIN Only(b, S) = S
         /\ \A k \in S : /\ k \in Keys /\ IsSet(k, Only(b, S)[k])
                         /\ Only(b, S)[k].pages = b[k].pages
                         /\ Only(b, S)[k].got = b[k].got
BY DEF Only, Set, IsSet

\* A page joins a set of pages of the same chain and total (p2p.py:315).
LEMMA GotGrows ==
  ASSUME NEW k \in Keys, NEW set, IsSet(k, set), NEW m,
         IsPage(k, m.pages, m.page, m.blocks), set.pages = m.pages,
         NEW got,
         got = [i \in DOMAIN set.got \cup {m.page} |-> IF i = m.page THEN m.blocks ELSE set.got[i]]
  PROVE  /\ got = [i \in DOMAIN got |-> got[i]]
         /\ \A i \in DOMAIN got : IsPage(k, m.pages, i, got[i])
<1>1. DOMAIN got = DOMAIN set.got \cup {m.page}
  OBVIOUS
<1>2. ASSUME NEW i \in DOMAIN got
      PROVE  IsPage(k, m.pages, i, got[i])
  <2>1. CASE i = m.page
    BY <2>1, <1>1
  <2>2. CASE i # m.page
    BY <2>2, <1>1 DEF IsSet
  <2> QED
    BY <2>1, <2>2
<1> QED
  BY <1>1, <1>2

\* All pages of one total, whoever sent them, are the cut of the chain, and
\* joined they are the chain (p2p.py:317-322).
LEMMA CompleteIsWhole ==
  ASSUME NEW k \in Keys, NEW pages, NEW got, CutsAgree,
         got = [i \in DOMAIN got |-> got[i]], DOMAIN got = 1..pages,
         \A i \in DOMAIN got : IsPage(k, pages, i, got[i]),
         NEW page, page \in DOMAIN got
  PROVE  Joined(got) = Served[k]
<1>1. PICK s \in Servers : pages = Len(Cut(s, k))
  BY DEF IsPage
<1>2. ASSUME NEW i \in DOMAIN got
      PROVE  got[i] = Cut(s, k)[i]
  <2>1. PICK t \in Servers : pages = Len(Cut(t, k)) /\ got[i] = Cut(t, k)[i]
    BY <1>2 DEF IsPage
  <2> QED
    BY <2>1, <1>1 DEF CutsAgree
<1>3. got = Cut(s, k)
  BY <1>1, <1>2, CutJoins
<1> QED
  BY <1>3, CutJoins

\* Storing a page hands on a whole chain or nothing, and keeps every set a set
\* of pages (p2p.py:315-322).
LEMMA StoreKeeps ==
  ASSUME CutsAgree, NEW m, NEW b, NEW set,
         m.key \in Keys, IsPage(m.key, m.pages, m.page, m.blocks),
         \A k \in DOMAIN b : k \in Keys /\ IsSet(k, b[k]),
         IsSet(m.key, set), set.pages = m.pages,
         Store(m, b, set)
  PROVE  /\ \A k \in DOMAIN buffer' : k \in Keys /\ IsSet(k, buffer'[k])
         /\ delivered' = delivered \/ Whole!Deliver
<1> DEFINE got == [i \in DOMAIN set.got \cup {m.page} |-> IF i = m.page THEN m.blocks ELSE set.got[i]]
<1>1. /\ got = [i \in DOMAIN got |-> got[i]]
      /\ \A i \in DOMAIN got : IsPage(m.key, m.pages, i, got[i])
  BY GotGrows
<1>2. m.page \in DOMAIN got
  OBVIOUS
<1>3. CASE DOMAIN got = 1..m.pages
  <2>1. /\ buffer' = Only(b, DOMAIN b \ {m.key})
        /\ delivered' = delivered \cup {[base |-> m.key.base, blocks |-> Joined(got)]}
    BY <1>3 DEF Store, KeyOf, Deliver
  <2>2. Joined(got) = Served[m.key]
    <3> HIDE DEF got
    <3> QED
      BY <1>1, <1>2, <1>3, CompleteIsWhole
  <2>3. Whole!Deliver
    BY <2>1, <2>2 DEF Whole!Deliver, Keys
  <2>4. \A k \in DOMAIN buffer' : k \in Keys /\ IsSet(k, buffer'[k])
    BY <2>1, OnlyKeeps
  <2> QED
    BY <2>3, <2>4
<1>4. CASE DOMAIN got # 1..m.pages
  <2>1. /\ buffer' = With(b, m.key, Set(set.pages, got, set.ts, set.after))
        /\ delivered' = delivered
    BY <1>4 DEF Store, KeyOf
  <2>2. IsSet(m.key, Set(set.pages, got, set.ts, set.after))
    <3> HIDE DEF got
    <3> QED
      BY <1>1 DEF IsSet, Set
  <2>3. \A k \in DOMAIN buffer' : k \in Keys /\ IsSet(k, buffer'[k])
    <3> DEFINE new == Set(set.pages, got, set.ts, set.after)
    <3> HIDE DEF new
    <3> QED
      BY <2>1, <2>2 DEF With, new
  <2> QED
    BY <2>1, <2>3
<1> QED
  BY <1>3, <1>4

\* A set in the buffer is one of pages, remembered or not (p2p.py:295-299).
LEMMA RememberedKeeps ==
  ASSUME KeptPages
  PROVE  \A k \in DOMAIN Remembered : k \in Keys /\ IsSet(k, Remembered[k])
<1> DEFINE S == {k \in DOMAIN buffer : now <= buffer[k].ts + TTL}
<1>1. S \subseteq DOMAIN buffer
  OBVIOUS
<1>2. Remembered = Only(buffer, S)
  BY DEF Remembered
<1> HIDE DEF S
<1> QED
  BY <1>1, <1>2, OnlyKeeps DEF KeptPages

\* A page at the node (p2p.py:279-322).
LEMMA PageKeeps ==
  ASSUME CutsAgree, IInv, NEW m \in msgs, OnPage(m)
  PROVE  KeptPages' /\ (delivered' = delivered \/ Whole!Deliver)
<1>1. m.key \in Keys /\ IsPage(m.key, m.pages, m.page, m.blocks)
  BY DEF IInv, SentPages, OnPage
<1>2. \A k \in DOMAIN Remembered : k \in Keys /\ IsSet(k, Remembered[k])
  BY RememberedKeeps DEF IInv
<1>3. CASE BeginSet(m)
  <2> DEFINE left == Only(Remembered, DOMAIN Remembered \ Evicted(Remembered))
             set  == Set(m.pages, <<>>, now, DOMAIN left)
  <2>1. \A k \in DOMAIN left : k \in Keys /\ IsSet(k, left[k])
    BY <1>2, OnlyKeeps
  <2>2. IsSet(m.key, set) /\ set.pages = m.pages
    <3>1. set.got = <<>> /\ set.pages = m.pages
      BY DEF Set
    <3>2. DOMAIN <<>> = {} /\ <<>> = [i \in DOMAIN <<>> |-> <<>>[i]]
      OBVIOUS
    <3> HIDE DEF set
    <3> QED
      BY <3>1, <3>2 DEF IsSet
  <2>3. Store(m, left, set)
    BY <1>3 DEF BeginSet
  <2> HIDE DEF left, set
  <2> QED
    BY <1>1, <2>1, <2>2, <2>3, StoreKeeps DEF KeptPages
<1>4. CASE AddPage(m)
  BY <1>1, <1>2, <1>4, StoreKeeps DEF AddPage, KeyOf, KeptPages
<1>5. CASE RefuseSet(m)
  <2>1. buffer' = Only(Remembered, DOMAIN Remembered \ {m.key}) /\ delivered' = delivered
    BY <1>5 DEF RefuseSet, KeyOf
  <2> QED
    BY <1>2, <2>1, OnlyKeeps DEF KeptPages
<1>6. CASE UNCHANGED <<buffer, delivered>>
  BY <1>6 DEF KeptPages, IInv
<1> QED
  BY <1>3, <1>4, <1>5, <1>6 DEF OnPage

\* The pages under way, the pages kept and the clock, for ever.
THEOREM Inductive ==
  ASSUME CutsAgree
  PROVE  Spec => []IInv
<1>1. Init => IInv
  BY PageConstants DEF Init, IInv, SentPages, KeptPages
<1>2. IInv /\ [Next]_vars => IInv'
  <2> SUFFICES ASSUME IInv, [Next]_vars PROVE IInv'
    OBVIOUS
  <2>1. ASSUME NEW s \in Servers, Serve(s) PROVE IInv'
    <3>1. Stands(s, now) \in Keys
      BY PageConstants DEF IInv
    <3>2. SentPages'
      BY <2>1, <3>1, AnswerSent DEF IInv, SentPages, Serve
    <3> QED
      BY <2>1, <3>2 DEF IInv, Serve, KeptPages
  <2>2. ASSUME NEW s \in Servers, Receive(s) PROVE IInv'
    <3>1. PICK m \in msgs : /\ msgs' = msgs \ {m} /\ UNCHANGED now
                            /\ OnFullChain(m) \/ OnPage(m)
      BY <2>2 DEF Receive
    <3>2. SentPages' /\ now' \in 1..MaxTime
      BY <3>1 DEF IInv, SentPages
    <3>3. KeptPages'
      BY <3>1, PageKeeps DEF OnFullChain, IInv, KeptPages
    <3> QED
      BY <3>2, <3>3 DEF IInv
  <2>3. ASSUME NEW m \in msgs, Lose(m) PROVE IInv'
    BY <2>3 DEF IInv, SentPages, KeptPages, Lose
  <2>4. CASE Tick
    BY <2>4, PageConstants DEF IInv, SentPages, KeptPages, Tick
  <2>5. CASE UNCHANGED vars
    BY <2>5 DEF IInv, SentPages, KeptPages, vars
  <2> QED
    BY <2>1, <2>2, <2>3, <2>4, <2>5 DEF Next
<1> QED
  BY <1>1, <1>2, PTL DEF Spec

\* Whatever reaches _procesar_full_chain is a chain that some server serves,
\* whole: the pages implement delivery in one message.
THEOREM PagesDeliverWhole ==
  ASSUME CutsAgree
  PROVE  Spec => DeliversWhole
<1>1. Init => Whole!Init
  BY DEF Init, Whole!Init
<1>2. IInv /\ [Next]_vars => [Whole!Deliver]_delivered
  <2> SUFFICES ASSUME IInv, Next, delivered' # delivered PROVE Whole!Deliver
    BY DEF vars
  <2>1. PICK s \in Servers : Receive(s)
    BY DEF Next, Serve, Lose, Tick
  <2>2. PICK m \in msgs : OnFullChain(m) \/ OnPage(m)
    BY <2>1 DEF Receive
  <2>3. CASE OnFullChain(m)
    <3>1. m.key \in Keys /\ m.blocks = Served[m.key]
      BY <2>3 DEF OnFullChain, IInv, SentPages
    <3> QED
      BY <2>3, <3>1 DEF OnFullChain, Deliver, Whole!Deliver, Keys
  <2>4. CASE OnPage(m)
    BY <2>4, PageKeeps
  <2> QED
    BY <2>2, <2>3, <2>4
<1> QED
  BY <1>1, <1>2, Inductive, PTL DEF Spec, DeliversWhole, Whole!Spec

------------------------------------------------------------------------
(* The buffer as a dictionary: what is kept, in which order, since when  *)

\* The sets stand one after the other
Ordered(b) ==
  /\ IsFiniteSet(DOMAIN b)
  /\ \A k \in DOMAIN b : b[k].after \subseteq DOMAIN b \ {k}
  /\ \A j, k \in DOMAIN b : j # k => j \in b[k].after \/ k \in b[j].after
  /\ \A j, k \in DOMAIN b : j \in b[k].after => b[j].after \subseteq b[k].after

\* Each is incomplete, and h says when it was begun and what was begun since
Shaped(b, h, t) ==
  /\ \A k \in DOMAIN b :
       /\ k \in Keys /\ b[k].pages \in 1..PagesMax
       /\ b[k].ts \in 1..t /\ b[k].ts = h[k].at
       /\ DOMAIN b[k].got \subseteq 1..b[k].pages /\ DOMAIN b[k].got # 1..b[k].pages
  /\ \A j, k \in DOMAIN b : j \in b[k].after => k \in h[j].since

Neat(b, h, t) == Ordered(b) /\ Shaped(b, h, t)

History == [Keys -> [at : 0..MaxTime, since : SUBSET Keys]]

Debts == [from : Servers, answer : 1..MaxAnswers, key : Keys]

BufferInv ==
  /\ Neat(buffer, begun, now) /\ Cardinality(DOMAIN buffer) <= BufferMax
  /\ now \in 1..MaxTime /\ lost \in 0..MaxLost
  /\ begun \in History /\ (\A k \in Keys : IsFiniteSet(begun[k].since))
  /\ open \subseteq Keys
  /\ answers \in [Servers -> 0..MaxAnswers] /\ owed \subseteq Debts
  /\ \A m \in msgs : m.key \in Keys /\ m.from \in Servers
  /\ FreshSetsAreKept

------------------------------------------------------------------------

\* Sets that are left are as they were, but for those that stood before them.
LEMMA OnlyIs ==
  ASSUME NEW b, NEW S, S \subseteq DOMAIN b
  PROVE  /\ DOMAIN Only(b, S) = S
         /\ \A k \in S : /\ Only(b, S)[k].pages = b[k].pages /\ Only(b, S)[k].got = b[k].got
                         /\ Only(b, S)[k].ts = b[k].ts
                         /\ Only(b, S)[k].after = b[k].after \cap S
BY DEF Only, Set

\* Without some sets the dictionary is in order still.
LEMMA OnlyNeat ==
  ASSUME NEW b, NEW h, NEW t, NEW S, S \subseteq DOMAIN b, Neat(b, h, t)
  PROVE  Neat(Only(b, S), h, t)
<1> DEFINE c == Only(b, S)
<1>1. /\ DOMAIN c = S
      /\ \A k \in S : /\ c[k].pages = b[k].pages /\ c[k].got = b[k].got
                      /\ c[k].ts = b[k].ts /\ c[k].after = b[k].after \cap S
  BY OnlyIs
<1>2. IsFiniteSet(S)
  BY FS_Subset DEF Neat, Ordered
<1> HIDE DEF c
<1>3. Ordered(c)
  BY <1>1, <1>2 DEF Neat, Ordered
<1>4. Shaped(c, h, t)
  BY <1>1 DEF Neat, Shaped
<1>5. QED
  BY <1>3, <1>4 DEF Neat, c

\* Among several sets there is one before all others.
LEMMA OneIsOldest ==
  ASSUME NEW b, Ordered(b), DOMAIN b # {}
  PROVE  \E k \in DOMAIN b : /\ Oldest(b) = {k}
                             /\ \A j \in DOMAIN b \ {k} : k \in b[j].after
<1> DEFINE before(k) == Cardinality(b[k].after)
           T == {before(k) : k \in DOMAIN b}
<1>1. \A k \in DOMAIN b : IsFiniteSet(b[k].after) /\ before(k) \in Nat
  <2> SUFFICES ASSUME NEW k \in DOMAIN b PROVE IsFiniteSet(b[k].after) /\ before(k) \in Nat
    OBVIOUS
  <2>1. b[k].after \subseteq DOMAIN b /\ IsFiniteSet(DOMAIN b)
    BY DEF Ordered
  <2>2. QED
    BY <2>1, FS_Subset, FS_CardinalityType
<1>2. T \subseteq Nat /\ T # {}
  BY <1>1
<1>3. PICK least \in T : \A n \in T : least <= n
  <2> HIDE DEF T
  <2>1. QED
    BY <1>2, Joining!LeastElement, Zenon
<1>4. PICK k \in DOMAIN b : \A j \in DOMAIN b : before(k) <= before(j)
  BY <1>3
<1>5. b[k].after = {}
  <2> SUFFICES ASSUME NEW j \in b[k].after PROVE FALSE
    OBVIOUS
  <2>1. j \in DOMAIN b /\ b[j].after \subseteq b[k].after /\ j \notin b[j].after
    BY DEF Ordered
  <2>2. b[j].after # b[k].after
    BY <2>1
  <2>3. before(j) < before(k)
    <3>1. IsFiniteSet(b[k].after) /\ before(j) \in Nat /\ before(k) \in Nat
      BY <1>1, <2>1
    <3>2. before(j) <= before(k) /\ (before(j) = before(k) => b[j].after = b[k].after)
      BY <2>1, <3>1, FS_Subset
    <3>3. QED
      BY <2>2, <3>1, <3>2
  <2>4. before(k) <= before(j) /\ before(j) \in Nat /\ before(k) \in Nat
    BY <1>1, <1>4, <2>1
  <2>5. QED
    BY <2>3, <2>4
<1>6. \A j \in DOMAIN b \ {k} : k \in b[j].after
  BY <1>5 DEF Ordered
<1>7. Oldest(b) = {k}
  BY <1>5, <1>6 DEF Oldest
<1>8. QED
  BY <1>6, <1>7

\* A page that is stored in a set, or opens one after all others, leaves the dictionary in
\* order and loses no other set (p2p.py:309-322).
LEMMA StoreNeat ==
  ASSUME NEW m, NEW b, NEW h, NEW set, Store(m, b, set), Neat(b, h, now),
         m.key \in Keys, Valid(m), set.pages = m.pages,
         DOMAIN set.got \subseteq 1..m.pages, set.ts \in 1..now, set.ts = h[m.key].at,
         m.key \in DOMAIN b => set.after = b[m.key].after,
         m.key \notin DOMAIN b =>
           set.after = DOMAIN b /\ \A j \in DOMAIN b : m.key \in h[j].since
  PROVE  /\ Neat(buffer', h, now)
         /\ DOMAIN b \ {m.key} \subseteq DOMAIN buffer'
         /\ DOMAIN buffer' \subseteq DOMAIN b \cup {m.key}
         /\ \/ open' = open \ {m.key}
            \/ open' = open \cup {m.key} /\ m.key \in DOMAIN buffer'
<1> DEFINE k == m.key
           got == [i \in DOMAIN set.got \cup {m.page} |-> IF i = m.page THEN m.blocks ELSE set.got[i]]
<1>1. m.pages \in 1..PagesMax /\ m.page \in 1..m.pages
  BY DEF Valid
<1>2. DOMAIN got \subseteq 1..m.pages
  BY <1>1
<1>3. CASE DOMAIN got = 1..m.pages
  <2>1. buffer' = Only(b, DOMAIN b \ {k}) /\ open' = open \ {k}
    BY <1>3 DEF Store, KeyOf
  <2>2. DOMAIN b \ {k} \subseteq DOMAIN b
    OBVIOUS
  <2>3. Neat(buffer', h, now) /\ DOMAIN buffer' = DOMAIN b \ {k}
    BY <2>1, <2>2, OnlyNeat, OnlyIs
  <2>4. QED
    BY <2>1, <2>3
<1>4. CASE DOMAIN got # 1..m.pages
  <2> DEFINE new == Set(set.pages, got, set.ts, set.after)
  <2>1. buffer' = With(b, k, new) /\ open' = open \cup {k}
    BY <1>4 DEF Store, KeyOf
  <2>2. new.pages = m.pages /\ new.got = got /\ new.ts = set.ts /\ new.after = set.after
    BY DEF Set
  <2> HIDE DEF new, got
  <2>3. /\ DOMAIN buffer' = DOMAIN b \cup {k} /\ buffer'[k] = new
        /\ \A j \in DOMAIN b \ {k} : buffer'[j] = b[j]
    BY <2>1 DEF With
  <2>4. IsFiniteSet(DOMAIN buffer')
    BY <2>3, FS_AddElement DEF Neat, Ordered
  <2>5. Ordered(buffer')
    <3>1. CASE k \in DOMAIN b
      BY <2>2, <2>3, <2>4, <3>1 DEF Neat, Ordered
    <3>2. CASE k \notin DOMAIN b
      BY <2>2, <2>3, <2>4, <3>2 DEF Neat, Ordered
    <3>3. QED
      BY <3>1, <3>2
  <2>6. Shaped(buffer', h, now)
    <3>1. \A j \in DOMAIN buffer' :
            /\ j \in Keys /\ buffer'[j].pages \in 1..PagesMax
            /\ buffer'[j].ts \in 1..now /\ buffer'[j].ts = h[j].at
            /\ DOMAIN buffer'[j].got \subseteq 1..buffer'[j].pages
            /\ DOMAIN buffer'[j].got # 1..buffer'[j].pages
      BY <1>1, <1>2, <1>4, <2>2, <2>3 DEF Neat, Shaped
    <3>2. \A i, j \in DOMAIN buffer' : i \in buffer'[j].after => j \in h[i].since
      <4>1. CASE k \in DOMAIN b
        BY <2>2, <2>3, <4>1 DEF Neat, Shaped
      <4>2. CASE k \notin DOMAIN b
        BY <2>2, <2>3, <4>2 DEF Neat, Shaped, Ordered
      <4>3. QED
        BY <4>1, <4>2
    <3>3. QED
      BY <3>1, <3>2 DEF Shaped
  <2>7. QED
    BY <2>1, <2>3, <2>5, <2>6 DEF Neat
<1>5. QED
  BY <1>3, <1>4

\* Sets that have expired are not among the remembered ones; the others are (p2p.py:295-299).
LEMMA RememberedNeat ==
  ASSUME BufferInv
  PROVE  /\ Neat(Remembered, begun, now)
         /\ DOMAIN Remembered \subseteq DOMAIN buffer
         /\ IsFiniteSet(DOMAIN Remembered) /\ Cardinality(DOMAIN Remembered) \in Nat
         /\ Cardinality(DOMAIN Remembered) <= BufferMax
         /\ \A k \in open : /\ now <= begun[k].at + TTL
                            /\ Cardinality(begun[k].since) < BufferMax
                            => k \in DOMAIN Remembered
<1> DEFINE S == {k \in DOMAIN buffer : now <= buffer[k].ts + TTL}
<1>1. S \subseteq DOMAIN buffer /\ Remembered = Only(buffer, S)
  BY DEF Remembered
<1>2. Neat(buffer, begun, now)
  BY DEF BufferInv
<1>3. \A k \in open : /\ now <= begun[k].at + TTL
                      /\ Cardinality(begun[k].since) < BufferMax
                      => k \in S
  BY <1>2 DEF BufferInv, FreshSetsAreKept, Neat, Shaped
<1> HIDE DEF S
<1>4. DOMAIN Remembered = S /\ Neat(Remembered, begun, now)
  BY <1>1, <1>2, OnlyIs, OnlyNeat
<1>5. /\ IsFiniteSet(DOMAIN buffer) /\ Cardinality(DOMAIN buffer) <= BufferMax
      /\ Cardinality(DOMAIN buffer) \in Nat /\ BufferMax \in Nat
  BY PageConstants, FS_CardinalityType DEF BufferInv, Neat, Ordered
<1>6. IsFiniteSet(S) /\ Cardinality(S) \in Nat /\ Cardinality(S) <= Cardinality(DOMAIN buffer)
  BY <1>1, <1>5, FS_Subset, FS_CardinalityType
<1>7. QED
  BY <1>1, <1>3, <1>4, <1>5, <1>6

\* A first page leaves room for its set, and evicts only a set that had BufferMax rivals
\* since it was begun (p2p.py:300-310).
LEMMA BeginKeeps ==
  ASSUME BufferInv, NEW m \in msgs, Valid(m), BeginSet(m), UNCHANGED <<now, lost, answers>>,
         msgs' \subseteq msgs, owed' \subseteq owed
  PROVE  BufferInv'
<1> DEFINE k    == m.key
           old  == Remembered
           left == Only(old, DOMAIN old \ Evicted(old))
           set  == Set(m.pages, <<>>, now, DOMAIN left)
<1>1. /\ k \notin DOMAIN old /\ Store(m, left, set)
      /\ begun' = [j \in Keys |-> IF j = k THEN [at |-> now, since |-> {}]
                                  ELSE [at |-> begun[j].at, since |-> begun[j].since \cup {k}]]
  BY DEF BeginSet, KeyOf
<1>2. k \in Keys /\ now \in 1..MaxTime /\ begun \in History
  BY DEF BufferInv
<1>3. /\ begun' \in History /\ begun'[k].at = now
      /\ \A j \in Keys : IsFiniteSet(begun'[j].since)
      /\ \A j \in Keys \ {k} : /\ begun'[j].at = begun[j].at
                               /\ begun'[j].since = begun[j].since \cup {k}
  <2>1. MaxTime \in Nat /\ now \in 0..MaxTime
    BY <1>2, PageConstants
  <2>2. ASSUME NEW j \in Keys
        PROVE  /\ begun'[j] \in [at : 0..MaxTime, since : SUBSET Keys]
               /\ IsFiniteSet(begun'[j].since)
    <3>1. begun[j] \in [at : 0..MaxTime, since : SUBSET Keys] /\ IsFiniteSet(begun[j].since)
      BY <1>2 DEF BufferInv, History
    <3>2. IsFiniteSet(begun[j].since \cup {k}) /\ IsFiniteSet({})
      BY <3>1, FS_AddElement, FS_EmptySet
    <3>3. QED
      BY <1>1, <1>2, <2>1, <3>1, <3>2
  <2>3. QED
    BY <1>1, <1>2, <2>2 DEF History
<1>4. /\ Neat(old, begun, now) /\ IsFiniteSet(DOMAIN old) /\ Cardinality(DOMAIN old) \in Nat
      /\ Cardinality(DOMAIN old) <= BufferMax /\ BufferMax \in Nat \ {0}
  BY RememberedNeat, PageConstants
<1>5. /\ DOMAIN left = DOMAIN old \ Evicted(old) /\ Neat(left, begun, now)
  BY <1>4, OnlyIs, OnlyNeat
<1>6. k \notin DOMAIN left
  BY <1>1, <1>5
<1>7. Neat(left, begun', now)
  <2>1. \A j \in DOMAIN left : j \in Keys \ {k}
    BY <1>5, <1>6 DEF Neat, Shaped
  <2>2. \A j \in DOMAIN left : /\ begun'[j].at = begun[j].at
                               /\ begun[j].since \subseteq begun'[j].since
    BY <1>3, <2>1
  <2>3. \A j \in DOMAIN left : left[j].after \subseteq DOMAIN left
    BY <1>5 DEF Neat, Ordered
  <2> HIDE DEF left
  <2>4. QED
    BY <1>5, <2>2, <2>3 DEF Neat, Shaped
<1>8. /\ set.pages = m.pages /\ DOMAIN set.got \subseteq 1..m.pages /\ set.ts = now
      /\ set.after = DOMAIN left
  BY DEF Set
<1>9. \A j \in DOMAIN left : k \in begun'[j].since
  <2>1. \A j \in DOMAIN left : j \in Keys \ {k}
    BY <1>5, <1>6 DEF Neat, Shaped
  <2>2. QED
    BY <1>3, <2>1
<1>10. /\ Neat(buffer', begun', now)
       /\ DOMAIN left \ {k} \subseteq DOMAIN buffer'
       /\ DOMAIN buffer' \subseteq DOMAIN left \cup {k}
       /\ \/ open' = open \ {k}
          \/ open' = open \cup {k} /\ k \in DOMAIN buffer'
  <2>1. now \in 1..now
    BY <1>2
  <2> HIDE DEF left, set, k
  <2>2. QED
    BY <1>1, <1>2, <1>3, <1>6, <1>7, <1>8, <1>9, <2>1, StoreNeat DEF k
<1> HIDE DEF left, set
<1>11. CASE Cardinality(DOMAIN old) < BufferMax
  <2>1. Evicted(old) = {}
    BY <1>4, <1>11 DEF Evicted
  <2>2. DOMAIN left = DOMAIN old
    BY <1>5, <2>1
  <2>3. Cardinality(DOMAIN buffer') <= BufferMax
    <3>1. IsFiniteSet(DOMAIN old \cup {k})
            /\ Cardinality(DOMAIN old \cup {k}) = Cardinality(DOMAIN old) + 1
      BY <1>1, <1>4, FS_AddElement
    <3>2. Cardinality(DOMAIN buffer') <= Cardinality(DOMAIN old \cup {k})
            /\ Cardinality(DOMAIN buffer') \in Nat
      BY <1>10, <2>2, <3>1, FS_Subset, FS_CardinalityType
    <3>3. QED
      BY <1>4, <1>11, <3>1, <3>2
  <2>4. ASSUME NEW j \in open', now <= begun'[j].at + TTL,
               Cardinality(begun'[j].since) < BufferMax
        PROVE  j \in DOMAIN buffer'
    <3>1. CASE j = k
      BY <1>10, <2>4, <3>1
    <3>2. CASE j # k
      <4>1. j \in open /\ j \in Keys \ {k}
        BY <1>10, <2>4, <3>2 DEF BufferInv
      <4>2. now <= begun[j].at + TTL
        BY <1>3, <2>4, <4>1
      <4>3. Cardinality(begun[j].since) < BufferMax
        <5>1. IsFiniteSet(begun'[j].since) /\ begun[j].since \subseteq begun'[j].since
          BY <1>3, <4>1
        <5>2. Cardinality(begun[j].since) <= Cardinality(begun'[j].since)
                /\ Cardinality(begun[j].since) \in Nat /\ Cardinality(begun'[j].since) \in Nat
          BY <5>1, FS_Subset, FS_CardinalityType
        <5>3. QED
          BY <1>4, <2>4, <5>2
      <4>4. j \in DOMAIN old
        BY <4>1, <4>2, <4>3, RememberedNeat
      <4>5. QED
        BY <1>10, <2>2, <4>1, <4>4
    <3>3. QED
      BY <3>1, <3>2
  <2>5. QED
    BY <1>2, <1>3, <1>10, <2>3, <2>4 DEF BufferInv, FreshSetsAreKept
<1>12. CASE Cardinality(DOMAIN old) >= BufferMax
  <2>1. Ordered(old) /\ DOMAIN old # {}
    BY <1>4, <1>12, FS_EmptySet DEF Neat
  <2>2. PICK first \in DOMAIN old : /\ Oldest(old) = {first}
                                    /\ \A j \in DOMAIN old \ {first} : first \in old[j].after
    BY <2>1, OneIsOldest
  <2>3. DOMAIN left = DOMAIN old \ {first}
    BY <1>5, <1>12, <2>2 DEF Evicted
  <2>4. IsFiniteSet(DOMAIN left) /\ Cardinality(DOMAIN left) = Cardinality(DOMAIN old) - 1
    BY <1>4, <2>3, FS_RemoveElement
  <2>5. /\ IsFiniteSet(DOMAIN left \cup {k})
        /\ Cardinality(DOMAIN left \cup {k}) = Cardinality(DOMAIN old)
    <3>1. /\ IsFiniteSet(DOMAIN left \cup {k})
          /\ Cardinality(DOMAIN left \cup {k}) = Cardinality(DOMAIN left) + 1
      BY <1>6, <2>4, FS_AddElement
    <3>2. QED
      BY <1>4, <2>4, <3>1
  <2>6. Cardinality(DOMAIN buffer') <= BufferMax
    <3>1. Cardinality(DOMAIN buffer') <= Cardinality(DOMAIN left \cup {k})
            /\ Cardinality(DOMAIN buffer') \in Nat
      BY <1>10, <2>5, FS_Subset, FS_CardinalityType
    <3>2. QED
      BY <1>4, <2>5, <3>1
  <2>7. ASSUME NEW j \in open', now <= begun'[j].at + TTL,
               Cardinality(begun'[j].since) < BufferMax
        PROVE  j \in DOMAIN buffer'
    <3>1. CASE j = k
      BY <1>10, <2>7, <3>1
    <3>2. CASE j # k
      <4>1. j \in open /\ j \in Keys \ {k}
        BY <1>10, <2>7, <3>2 DEF BufferInv
      <4>2. now <= begun[j].at + TTL
        BY <1>3, <2>7, <4>1
      <4>3. IsFiniteSet(begun'[j].since) /\ begun'[j].since = begun[j].since \cup {k}
              /\ Cardinality(begun'[j].since) \in Nat
        BY <1>3, <4>1, FS_CardinalityType
      <4>4. Cardinality(begun[j].since) < BufferMax
        <5>1. begun[j].since \subseteq begun'[j].since
          BY <4>3
        <5>2. Cardinality(begun[j].since) <= Cardinality(begun'[j].since)
                /\ Cardinality(begun[j].since) \in Nat
          BY <4>3, <5>1, FS_Subset, FS_CardinalityType
        <5>3. QED
          BY <1>4, <2>7, <4>3, <5>2
      <4>5. j \in DOMAIN old
        BY <4>1, <4>2, <4>4, RememberedNeat
      <4>6. j # first
        <5> SUFFICES ASSUME j = first PROVE FALSE
          OBVIOUS
        <5>1. DOMAIN left \cup {k} \subseteq begun'[j].since
          BY <1>4, <2>2, <2>3, <4>3 DEF Neat, Shaped
        <5>2. Cardinality(DOMAIN old) <= Cardinality(begun'[j].since)
          BY <2>5, <4>3, <5>1, FS_Subset
        <5>3. QED
          BY <1>4, <1>12, <2>7, <4>3, <5>2
      <4>7. QED
        BY <1>10, <2>3, <4>1, <4>5, <4>6
    <3>3. QED
      BY <3>1, <3>2
  <2>8. QED
    BY <1>2, <1>3, <1>10, <2>6, <2>7 DEF BufferInv, FreshSetsAreKept
<1>13. QED
  BY <1>4, <1>11, <1>12

\* A step that begins no set and takes none but its own from those remembered.
LEMMA OthersStay ==
  ASSUME BufferInv, NEW k, UNCHANGED <<begun, now, lost, answers>>,
         msgs' \subseteq msgs, owed' \subseteq owed,
         Neat(buffer', begun, now), k \in Keys,
         DOMAIN Remembered \ {k} \subseteq DOMAIN buffer',
         DOMAIN buffer' \subseteq DOMAIN Remembered,
         open' = open \ {k} \/ (open' = open \cup {k} /\ k \in DOMAIN buffer')
  PROVE  BufferInv'
<1>1. /\ IsFiniteSet(DOMAIN Remembered) /\ Cardinality(DOMAIN Remembered) \in Nat
      /\ Cardinality(DOMAIN Remembered) <= BufferMax /\ BufferMax \in Nat
  BY RememberedNeat, PageConstants
<1>2. Cardinality(DOMAIN buffer') <= BufferMax
  <2>1. Cardinality(DOMAIN buffer') <= Cardinality(DOMAIN Remembered)
          /\ Cardinality(DOMAIN buffer') \in Nat
    BY <1>1, FS_Subset, FS_CardinalityType
  <2>2. QED
    BY <1>1, <2>1
<1>3. ASSUME NEW j \in open', now <= begun[j].at + TTL, Cardinality(begun[j].since) < BufferMax
      PROVE  j \in DOMAIN buffer'
  <2>1. CASE j = k
    BY <1>3, <2>1
  <2>2. CASE j # k
    <3>1. j \in open
      BY <1>3, <2>2
    <3>2. j \in DOMAIN Remembered
      BY <1>3, <3>1, RememberedNeat
    <3>3. QED
      BY <2>2, <3>2
  <2>3. QED
    BY <2>1, <2>2
<1>4. QED
  BY <1>2, <1>3 DEF BufferInv, FreshSetsAreKept

\* A page at the node.
LEMMA PageKeepsOrder ==
  ASSUME BufferInv, NEW m \in msgs, OnPage(m), UNCHANGED <<now, lost, answers>>,
         msgs' \subseteq msgs, owed' \subseteq owed
  PROVE  BufferInv'
<1>1. m.key \in Keys
  BY DEF BufferInv
<1>2. Neat(Remembered, begun, now)
  BY RememberedNeat
<1>3. CASE Valid(m) /\ BeginSet(m)
  BY <1>3, BeginKeeps
<1>4. CASE Valid(m) /\ AddPage(m)
  <2> DEFINE set == Remembered[m.key]
  <2>1. /\ m.key \in DOMAIN Remembered /\ set.pages = m.pages
        /\ Store(m, Remembered, set) /\ begun' = begun
    BY <1>4 DEF AddPage, KeyOf
  <2>2. DOMAIN set.got \subseteq 1..m.pages /\ set.ts \in 1..now /\ set.ts = begun[m.key].at
    BY <1>2, <2>1 DEF Neat, Shaped
  <2>3. /\ Neat(buffer', begun, now)
        /\ DOMAIN Remembered \ {m.key} \subseteq DOMAIN buffer'
        /\ DOMAIN buffer' \subseteq DOMAIN Remembered \cup {m.key}
        /\ \/ open' = open \ {m.key}
           \/ open' = open \cup {m.key} /\ m.key \in DOMAIN buffer'
    BY <1>1, <1>2, <1>4, <2>1, <2>2, StoreNeat
  <2>4. QED
    BY <1>1, <2>1, <2>3, OthersStay
<1>5. CASE RefuseSet(m)
  <2>1. /\ buffer' = Only(Remembered, DOMAIN Remembered \ {m.key})
        /\ open' = open \ {m.key} /\ begun' = begun
    BY <1>5 DEF RefuseSet, KeyOf
  <2>2. DOMAIN Remembered \ {m.key} \subseteq DOMAIN Remembered
    OBVIOUS
  <2>3. Neat(buffer', begun, now) /\ DOMAIN buffer' = DOMAIN Remembered \ {m.key}
    BY <1>2, <2>1, <2>2, OnlyIs, OnlyNeat
  <2>4. QED
    BY <1>1, <2>1, <2>3, OthersStay
<1>6. CASE UNCHANGED <<buffer, begun, open>>
  BY <1>6 DEF BufferInv, FreshSetsAreKept
<1>7. QED
  BY <1>3, <1>4, <1>5, <1>6 DEF OnPage

LEMMA BufferInductive ==
  Spec => []BufferInv
<1>1. Init => BufferInv
  <2> SUFFICES ASSUME Init PROVE BufferInv
    OBVIOUS
  <2>1. /\ buffer = <<>> /\ now = 1 /\ lost = 0 /\ msgs = {} /\ open = {} /\ owed = {}
        /\ answers = [s \in Servers |-> 0]
        /\ begun = [k \in Keys |-> [at |-> 0, since |-> {}]]
    BY DEF Init
  <2>2. DOMAIN buffer = {} /\ IsFiniteSet({}) /\ Cardinality({}) = 0
    BY <2>1, FS_EmptySet
  <2>3. Neat(buffer, begun, now)
    BY <2>2 DEF Neat, Ordered, Shaped
  <2>4. MaxTime \in Nat \ {0} /\ MaxLost \in Nat /\ BufferMax \in Nat /\ MaxAnswers \in Nat
    BY PageConstants
  <2>5. begun \in History /\ \A k \in Keys : begun[k].since = {}
    BY <2>1, <2>4 DEF History
  <2>6. now \in 1..MaxTime /\ lost \in 0..MaxLost /\ Cardinality(DOMAIN buffer) <= BufferMax
    BY <2>1, <2>2, <2>4
  <2>7. (\A m \in msgs : m.key \in Keys /\ m.from \in Servers) /\ open \subseteq Keys /\ FreshSetsAreKept
    BY <2>1 DEF FreshSetsAreKept
  <2>8. \A k \in Keys : IsFiniteSet(begun[k].since)
    BY <2>2, <2>5
  <2>9. answers \in [Servers -> 0..MaxAnswers] /\ owed \subseteq Debts
    BY <2>1, <2>4
  <2>10. QED
    BY <2>3, <2>5, <2>6, <2>7, <2>8, <2>9 DEF BufferInv
<1>2. BufferInv /\ [Next]_vars => BufferInv'
  <2> SUFFICES ASSUME BufferInv, [Next]_vars PROVE BufferInv'
    OBVIOUS
  <2>1. ASSUME NEW s \in Servers, Serve(s) PROVE BufferInv'
    <3>1. Stands(s, now) \in Keys
      BY PageConstants DEF BufferInv
    <3>2. ASSUME NEW m \in msgs' PROVE m.key \in Keys /\ m.from \in Servers
      <4>1. m \in msgs \/ m \in Answer(s, Stands(s, now), answers[s] + 1)
        BY <2>1 DEF Serve
      <4>2. m \in Answer(s, Stands(s, now), answers[s] + 1) => m.key = Stands(s, now) /\ m.from = s
        BY DEF Answer, FullChain, Page
      <4>3. QED
        BY <3>1, <4>1, <4>2 DEF BufferInv
    <3>3. answers[s] + 1 \in 1..MaxAnswers
      <4>1. answers[s] \in 0..MaxAnswers /\ MaxAnswers \in Nat /\ answers[s] < MaxAnswers
        BY <2>1, PageConstants DEF Serve, BufferInv
      <4>2. QED
        BY <4>1
    <3>4. answers' \in [Servers -> 0..MaxAnswers] /\ owed' \subseteq Debts
      BY <2>1, <3>1, <3>3 DEF Serve, BufferInv, Debts
    <3>5. QED
      BY <2>1, <3>2, <3>4 DEF Serve, BufferInv, FreshSetsAreKept
  <2>2. ASSUME NEW s \in Servers, Receive(s) PROVE BufferInv'
    <3>1. PICK m \in msgs : /\ msgs' \subseteq msgs /\ UNCHANGED <<now, lost, answers>>
                            /\ OnFullChain(m) \/ OnPage(m)
      BY <2>2 DEF Receive
    <3>2. CASE OnFullChain(m)
      BY <3>1, <3>2 DEF OnFullChain, BufferInv, FreshSetsAreKept
    <3>3. CASE OnPage(m)
      <4>1. owed' \subseteq owed
        BY <3>3 DEF OnPage, BeginSet, AddPage, RefuseSet, Spoil
      <4>2. QED
        BY <3>1, <3>3, <4>1, PageKeepsOrder
    <3>4. QED
      BY <3>1, <3>2, <3>3
  <2>3. ASSUME NEW m \in msgs, Lose(m) PROVE BufferInv'
    <3>1. /\ lost' \in 0..MaxLost /\ msgs' \subseteq msgs
          /\ owed' \subseteq owed /\ UNCHANGED <<buffer, now, answers, begun, open>>
      BY <2>3, PageConstants DEF Lose, BufferInv
    <3>2. QED
      BY <3>1 DEF BufferInv, FreshSetsAreKept
  <2>4. CASE Tick
    <3>1. /\ now' = now + 1 /\ now' \in 1..MaxTime /\ now \in Nat /\ TTL \in Nat
          /\ UNCHANGED <<msgs, buffer, lost, answers, begun, open, owed>>
      BY <2>4, PageConstants DEF Tick, BufferInv
    <3>2. Neat(buffer, begun, now')
      BY <3>1 DEF BufferInv, Neat, Shaped
    <3>3. ASSUME NEW k \in open, now' <= begun[k].at + TTL
          PROVE  now <= begun[k].at + TTL
      <4>1. begun[k].at \in Nat
        BY DEF BufferInv, History
      <4>2. QED
        BY <3>1, <3>3, <4>1
    <3>4. QED
      BY <3>1, <3>2, <3>3 DEF BufferInv, FreshSetsAreKept
  <2>5. CASE UNCHANGED vars
    BY <2>5 DEF vars, BufferInv, FreshSetsAreKept
  <2>6. QED
    BY <2>1, <2>2, <2>3, <2>4, <2>5 DEF Next
<1>3. QED
  BY <1>1, <1>2, PTL DEF Spec

\* The buffer holds at most BufferMax sets, each with fewer pages than it needs, at places
\* its total allows (p2p.py:293-322).
THEOREM BufferIsTyped == Spec => []TypeOK
<1>1. BufferInv => TypeOK
  <2> SUFFICES ASSUME BufferInv PROVE TypeOK
    OBVIOUS
  <2>1. Neat(buffer, begun, now) /\ begun \in History
    BY DEF BufferInv
  <2>2. QED
    BY <2>1 DEF BufferInv, TypeOK, Neat, Ordered, Shaped, History, Debts
<1>2. QED
  BY <1>1, BufferInductive, PTL

\* A set that was begun, is not older than the limit and has fewer than BufferMax rivals
\* begun since, is still there: the order of the dictionary is the order in which its sets
\* were begun, and only its first set is evicted (p2p.py:293-308).
THEOREM FreshSetsStay == Spec => []FreshSetsAreKept
<1>1. BufferInv => FreshSetsAreKept
  BY DEF BufferInv
<1>2. QED
  BY <1>1, BufferInductive, PTL

\* Whoever sends pages cuts every sample in this way: the loop that fills pages does so
\* with every sequence of blocks of any sizes (p2p.py:263-277).
THEOREM CutsAreGood == Spec => []CutsArePaginations
<1>1. ASSUME NEW s \in Servers, NEW blocks \in Samples
      PROVE  IsPagination(s, blocks, Paginate(s, blocks))
  <2> DEFINE V == ToSet(blocks)
  <2>1. blocks \in Seq(V) /\ \A b \in V : SizeAt(s, b) \in Nat
    BY SampleConstants
  <2> HIDE DEF V
  <2>2. QED
    BY <2>1, PaginateIsPagination
<1>2. \A s \in Servers : CutsWell[s]
  BY <1>1, Zenon DEF CutsWell
<1>3. BufferInv => CutsArePaginations
  BY <1>2 DEF BufferInv, CutsArePaginations
<1>4. QED
  BY <1>3, BufferInductive, PTL


------------------------------------------------------------------------
(* Answers: where their pages are                                        *)

Chain(k) == [base |-> k.base, blocks |-> Served[k]]

\* The buffer holds page i of a set of this many pages
Holds(k, pages, i) ==
  k \in DOMAIN buffer /\ buffer[k].pages = pages /\ i \in DOMAIN buffer[k].got

Arrives(a) ==
  \/ Chain(a.key) \in delivered
  \/ IF Len(Cut(a.from, a.key)) = 1 THEN FullChain(a.from, a.key, a.answer) \in msgs
     ELSE \A i \in 1..Len(Cut(a.from, a.key)) :
            \/ Page(a.from, a.key, a.answer, i) \in msgs
            \/ Holds(a.key, Len(Cut(a.from, a.key)), i)

DebtInv ==
  /\ DOMAIN buffer \subseteq open
  /\ \A m \in msgs : m \in Answer(m.from, m.key, m.answer)
  /\ \A a \in owed : Arrives(a)

\* A message is one of the answer its sender, its chain and its number name.
LEMMA AnswerNames ==
  \A s, k, n : \A m \in Answer(s, k, n) :
    m.from = s /\ m.key = k /\ m.answer = n
BY DEF Answer, FullChain, Page

\* A chain is cut into one page at least (p2p.py:275-276).
LEMMA SomePages ==
  ASSUME NEW k \in Keys, NEW s \in Servers
  PROVE  Len(Cut(s, k)) \in Nat /\ Len(Cut(s, k)) >= 1
<1> DEFINE V == ToSet(Served[k])
           cut == CutOf(s, Served[k])
<1>1. Served[k] \in Seq(V) /\ \A b \in V : SizeAt(s, b) \in Nat
  BY PageConstants
<1> HIDE DEF V
<1>2. cut.pages \in Seq(Seq(V)) /\ cut.page \in Seq(V)
  BY <1>1, CutIsGood DEF GoodCut
<1>3. Cut(s, k) = IF cut.page # <<>> \/ cut.pages = <<>> THEN Append(cut.pages, cut.page)
                  ELSE cut.pages
  BY DEF Cut, Cuts, Paginate, CutOf, NoCut
<1> HIDE DEF cut
<1>4. QED
  BY <1>2, <1>3

\* A complete set of one chain is handed on as that chain, and an incomplete one grows by
\* the page: nothing that was held is lost (p2p.py:315-322).
LEMMA StoreHolds ==
  ASSUME CutsAgree, NEW m, NEW b, NEW set,
         m.key \in Keys, IsPage(m.key, m.pages, m.page, m.blocks),
         IsSet(m.key, set), set.pages = m.pages, Store(m, b, set)
  PROVE  \/ Chain(m.key) \in delivered'
         \/ /\ m.key \in DOMAIN buffer' /\ buffer'[m.key].pages = m.pages
            /\ DOMAIN set.got \cup {m.page} \subseteq DOMAIN buffer'[m.key].got
<1> DEFINE got == [i \in DOMAIN set.got \cup {m.page} |-> IF i = m.page THEN m.blocks ELSE set.got[i]]
<1>1. /\ got = [i \in DOMAIN got |-> got[i]]
      /\ \A i \in DOMAIN got : IsPage(m.key, m.pages, i, got[i])
  BY GotGrows
<1>2. m.page \in DOMAIN got
  OBVIOUS
<1>3. CASE DOMAIN got = 1..m.pages
  <2>1. delivered' = delivered \cup {[base |-> m.key.base, blocks |-> Joined(got)]}
    BY <1>3 DEF Store, KeyOf, Deliver
  <2>2. Joined(got) = Served[m.key]
    <3> HIDE DEF got
    <3>1. QED
      BY <1>1, <1>2, <1>3, CompleteIsWhole
  <2>3. QED
    BY <2>1, <2>2 DEF Chain
<1>4. CASE DOMAIN got # 1..m.pages
  <2>1. buffer' = With(b, m.key, Set(set.pages, got, set.ts, set.after))
    BY <1>4 DEF Store, KeyOf
  <2>2. /\ m.key \in DOMAIN buffer'
        /\ buffer'[m.key] = Set(set.pages, got, set.ts, set.after)
    BY <2>1 DEF With
  <2>3. buffer'[m.key].pages = m.pages /\ buffer'[m.key].got = got
    BY <2>2 DEF Set
  <2>4. QED
    BY <2>2, <2>3
<1>5. QED
  BY <1>3, <1>4

\* The other sets are as they were before.
LEMMA StoreSpares ==
  ASSUME NEW m, NEW b, NEW set, Store(m, b, set), NEW k, k # m.key
  PROVE  /\ k \in DOMAIN b <=> k \in DOMAIN buffer'
         /\ k \in DOMAIN b => /\ buffer'[k].pages = b[k].pages
                              /\ buffer'[k].got = b[k].got
<1>1. \/ buffer' = Only(b, DOMAIN b \ {m.key})
      \/ \E new : buffer' = With(b, m.key, new)
  BY DEF Store, KeyOf
<1>2. CASE buffer' = Only(b, DOMAIN b \ {m.key})
  BY <1>2, OnlyIs
<1>3. CASE \E new : buffer' = With(b, m.key, new)
  BY <1>3 DEF With
<1>4. QED
  BY <1>1, <1>2, <1>3

\* Handing on adds to what was handed on.
LEMMA DeliveredGrows ==
  ASSUME NEW m, OnFullChain(m) \/ OnPage(m)
  PROVE  delivered \subseteq delivered'
BY DEF OnFullChain, OnPage, BeginSet, AddPage, RefuseSet, Store, Deliver

\* What is held of a chain is still held after a page has come, unless the chain was handed
\* on or its debts are given up (p2p.py:293-322).
LEMMA PageSpares ==
  ASSUME CutsAgree, IInv, BufferInv, BufferInv', DebtInv, NEW m \in msgs, OnPage(m),
         now' = now, NEW a \in owed', NEW pages, NEW i, Holds(a.key, pages, i)
  PROVE  Chain(a.key) \in delivered' \/ Holds(a.key, pages, i)'
<1> DEFINE k == a.key
<1>1. a \in owed /\ k \in open /\ k \in DOMAIN buffer
  BY DEF OnPage, BeginSet, AddPage, RefuseSet, Spoil, DebtInv, Holds
<1>2. CASE ~Valid(m)
  BY <1>2 DEF OnPage, Holds
<1>3. CASE Valid(m)
  <2>1. /\ k \notin Stale
        /\ BeginSet(m) \/ AddPage(m) \/ RefuseSet(m)
    BY <1>3 DEF OnPage, BeginSet, AddPage, RefuseSet, Spoil
  <2>2. /\ k \in DOMAIN Remembered /\ Remembered[k].pages = pages
        /\ i \in DOMAIN Remembered[k].got
    <3> DEFINE S == {j \in DOMAIN buffer : now <= buffer[j].ts + TTL}
    <3>1. buffer[k].ts = begun[k].at /\ buffer[k].ts \in 1..now /\ now \in Nat /\ TTL \in Nat
      BY <1>1, PageConstants DEF BufferInv, Neat, Shaped
    <3>2. now <= buffer[k].ts + TTL
      BY <1>1, <2>1, <3>1 DEF Stale
    <3>3. S \subseteq DOMAIN buffer /\ k \in S /\ Remembered = Only(buffer, S)
      BY <1>1, <3>2 DEF Remembered
    <3> HIDE DEF S
    <3>4. QED
      BY <3>3, OnlyIs DEF Holds
  <2>3. m.key \in Keys /\ IsPage(m.key, m.pages, m.page, m.blocks)
    BY DEF IInv, SentPages, OnPage
  <2>4. CASE RefuseSet(m)
    <3>1. k # m.key /\ buffer' = Only(Remembered, DOMAIN Remembered \ {m.key})
      BY <2>4 DEF RefuseSet, Spoil, KeyOf
    <3>2. QED
      BY <2>2, <3>1, OnlyIs DEF Holds
  <2>5. CASE AddPage(m)
    <3>1. /\ Remembered[m.key].pages = m.pages
          /\ Store(m, Remembered, Remembered[m.key])
      BY <2>5 DEF AddPage, KeyOf
    <3>2. CASE k = m.key
      <4>1. IsSet(m.key, Remembered[m.key])
        BY <2>2, <3>2, RememberedKeeps DEF IInv
      <4>2. QED
        BY <2>2, <2>3, <3>1, <3>2, <4>1, StoreHolds DEF Holds
    <3>3. CASE k # m.key
      <4>1. /\ k \in DOMAIN buffer' /\ buffer'[k].pages = Remembered[k].pages
            /\ buffer'[k].got = Remembered[k].got
        BY <2>2, <3>1, <3>3, StoreSpares
      <4>2. QED
        BY <2>2, <4>1 DEF Holds
    <3>4. QED
      BY <3>2, <3>3
  <2>6. CASE BeginSet(m)
    <3> DEFINE left == Only(Remembered, DOMAIN Remembered \ Evicted(Remembered))
               set  == Set(m.pages, <<>>, now, DOMAIN left)
    <3>1. /\ m.key \notin DOMAIN Remembered /\ Store(m, left, set)
          /\ begun' = [j \in Keys |-> IF j = m.key THEN [at |-> now, since |-> {}]
                                      ELSE [at |-> begun[j].at, since |-> begun[j].since \cup {m.key}]]
      BY <2>6 DEF BeginSet, KeyOf
    <3>2. k # m.key
      BY <2>2, <3>1
    <3>3. /\ DOMAIN left = DOMAIN Remembered \ Evicted(Remembered)
          /\ \A j \in DOMAIN left : /\ left[j].pages = Remembered[j].pages
                                    /\ left[j].got = Remembered[j].got
      BY OnlyIs
    <3> HIDE DEF left, set
    <3>4. k \in open' /\ k \notin Crowded'
      BY <1>1, <2>6, <3>1, <3>2 DEF BeginSet, Spoil, Store, KeyOf
    <3>5. k \in DOMAIN buffer'
      <4>1. begun'[k].at = begun[k].at
        BY <1>1, <3>1, <3>2 DEF BufferInv
      <4>2. now' <= begun'[k].at + TTL
        <5>1. begun[k].at \in Nat /\ TTL \in Nat /\ now \in Nat
          BY <1>1, PageConstants DEF BufferInv, History
        <5>2. QED
          BY <1>1, <2>1, <4>1, <5>1 DEF Stale
      <4>3. Cardinality(begun'[k].since) < BufferMax
        <5>1. Cardinality(begun'[k].since) \in Nat /\ BufferMax \in Nat
          BY <3>4, PageConstants, FS_CardinalityType DEF BufferInv
        <5>2. QED
          BY <3>4, <5>1 DEF Crowded
      <4>4. QED
        BY <3>4, <4>2, <4>3 DEF BufferInv, FreshSetsAreKept
    <3>6. /\ k \in DOMAIN left /\ buffer'[k].pages = left[k].pages
          /\ buffer'[k].got = left[k].got
      BY <3>1, <3>2, <3>5, StoreSpares
    <3>7. QED
      BY <2>2, <3>3, <3>5, <3>6 DEF Holds
  <2>7. QED
    BY <2>1, <2>4, <2>5, <2>6
<1>4. QED
  BY <1>2, <1>3

\* The page that comes is held, completes its chain, or ends the debts of the chain.
LEMMA PageArrives ==
  ASSUME CutsAgree, IInv, NEW m \in msgs, OnPage(m), NEW a \in owed', m.key = a.key
  PROVE  Chain(a.key) \in delivered' \/ Holds(a.key, m.pages, m.page)'
<1>1. m.key \in Keys /\ IsPage(m.key, m.pages, m.page, m.blocks)
  BY DEF IInv, SentPages, OnPage
<1>2. Valid(m) /\ (BeginSet(m) \/ AddPage(m))
  BY DEF OnPage, RefuseSet, Spoil, KeyOf
<1>3. PICK b, set : /\ Store(m, b, set) /\ IsSet(m.key, set) /\ set.pages = m.pages
  <2>1. CASE BeginSet(m)
    <3> DEFINE left == Only(Remembered, DOMAIN Remembered \ Evicted(Remembered))
               new  == Set(m.pages, <<>>, now, DOMAIN left)
    <3>1. Store(m, left, new)
      BY <2>1 DEF BeginSet
    <3>2. new.got = <<>> /\ new.pages = m.pages
      BY DEF Set
    <3>3. DOMAIN <<>> = {} /\ <<>> = [i \in DOMAIN <<>> |-> <<>>[i]]
      OBVIOUS
    <3> HIDE DEF new, left
    <3>4. IsSet(m.key, new)
      BY <3>2, <3>3 DEF IsSet
    <3>5. QED
      BY <3>1, <3>2, <3>4
  <2>2. CASE AddPage(m)
    <3>1. /\ Store(m, Remembered, Remembered[m.key]) /\ m.key \in DOMAIN Remembered
          /\ Remembered[m.key].pages = m.pages
      BY <2>2 DEF AddPage, KeyOf
    <3>2. IsSet(m.key, Remembered[m.key])
      BY <3>1, RememberedKeeps DEF IInv
    <3>3. QED
      BY <3>1, <3>2
  <2>3. QED
    BY <1>2, <2>1, <2>2
<1>4. QED
  BY <1>1, <1>3, StoreHolds DEF Holds

\* The buffer holds sets that are open.
LEMMA HeldIsOpen ==
  ASSUME DOMAIN buffer \subseteq open, NEW m, OnPage(m)
  PROVE  DOMAIN buffer' \subseteq open'
<1>1. ASSUME NEW b, NEW set, Store(m, b, set), DOMAIN b \subseteq open
      PROVE  DOMAIN buffer' \subseteq open'
  <2>1. \/ buffer' = Only(b, DOMAIN b \ {m.key}) /\ open' = open \ {m.key}
        \/ \E new : buffer' = With(b, m.key, new) /\ open' = open \cup {m.key}
    BY <1>1 DEF Store, KeyOf
  <2>2. CASE buffer' = Only(b, DOMAIN b \ {m.key}) /\ open' = open \ {m.key}
    BY <1>1, <2>2, OnlyIs
  <2>3. CASE \E new : buffer' = With(b, m.key, new) /\ open' = open \cup {m.key}
    BY <1>1, <2>3 DEF With
  <2>4. QED
    BY <2>1, <2>2, <2>3
<1>2. DOMAIN Remembered \subseteq open
  BY DEF Remembered, Only
<1>3. CASE BeginSet(m)
  <2> DEFINE left == Only(Remembered, DOMAIN Remembered \ Evicted(Remembered))
  <2>1. \E set : Store(m, left, set)
    BY <1>3 DEF BeginSet
  <2>2. DOMAIN left \subseteq open
    BY <1>2, OnlyIs
  <2>3. QED
    BY <1>1, <2>1, <2>2
<1>4. CASE AddPage(m)
  BY <1>1, <1>2, <1>4 DEF AddPage
<1>5. CASE RefuseSet(m)
  <2>1. buffer' = Only(Remembered, DOMAIN Remembered \ {m.key}) /\ open' = open \ {m.key}
    BY <1>5 DEF RefuseSet, KeyOf
  <2>2. QED
    BY <1>2, <2>1, OnlyIs
<1>6. CASE UNCHANGED <<buffer, open>>
  BY <1>6
<1>7. QED
  BY <1>3, <1>4, <1>5, <1>6 DEF OnPage

\* What is still owed after a message has come arrives (p2p.py:279-322).
LEMMA ReceiveArrives ==
  ASSUME CutsAgree, IInv, BufferInv, BufferInv', DebtInv, NEW m \in msgs,
         msgs' = msgs \ {m}, now' = now, OnFullChain(m) \/ OnPage(m),
         NEW a \in owed'
  PROVE  Arrives(a)'
<1> DEFINE k == a.key
           n == Len(Cut(a.from, a.key))
<1>1. a \in owed /\ Arrives(a) /\ k \in Keys /\ a.from \in Servers
  BY DEF OnFullChain, OnPage, BeginSet, AddPage, RefuseSet, Spoil, DebtInv, BufferInv, Debts
<1>2. delivered \subseteq delivered'
  BY DeliveredGrows
<1>3. CASE Chain(k) \in delivered
  BY <1>2, <1>3 DEF Arrives
<1>4. CASE Chain(k) \notin delivered /\ n = 1
  <2>1. FullChain(a.from, k, a.answer) \in msgs
    BY <1>1, <1>4 DEF Arrives
  <2>2. CASE m = FullChain(a.from, k, a.answer)
    <3>1. m.type = "FULL_CHAIN" /\ m.key = k /\ m.blocks = Served[k]
      BY <2>2 DEF FullChain
    <3>2. delivered' = delivered \cup {[base |-> k.base, blocks |-> Served[k]]}
      BY <3>1 DEF OnFullChain, OnPage, Deliver
    <3>3. QED
      BY <3>2 DEF Arrives, Chain
  <2>3. CASE m # FullChain(a.from, k, a.answer)
    BY <1>4, <2>1, <2>3 DEF Arrives
  <2>4. QED
    BY <2>2, <2>3
<1>5. CASE Chain(k) \notin delivered' /\ n # 1
  <2>1. ASSUME NEW i \in 1..n
        PROVE  Page(a.from, k, a.answer, i) \in msgs' \/ Holds(k, n, i)'
    <3>1. Page(a.from, k, a.answer, i) \in msgs \/ Holds(k, n, i)
      BY <1>1, <1>2, <1>5 DEF Arrives
    <3>2. CASE Holds(k, n, i)
      <4>1. CASE OnPage(m)
        BY <1>5, <3>2, <4>1, PageSpares
      <4>2. CASE OnFullChain(m)
        BY <3>2, <4>2 DEF OnFullChain, Holds
      <4>3. QED
        BY <4>1, <4>2
    <3>3. CASE m = Page(a.from, k, a.answer, i)
      <4>1. m.type = "FULL_CHAIN_PAGE" /\ m.key = k /\ m.pages = n /\ m.page = i
        BY <3>3 DEF Page
      <4>2. OnPage(m)
        BY <4>1 DEF OnFullChain
      <4>3. QED
        BY <1>5, <4>1, <4>2, PageArrives
    <3>4. QED
      BY <3>1, <3>2, <3>3
  <2>2. QED
    BY <1>5, <2>1 DEF Arrives
<1>6. CASE Chain(k) \in delivered'
  BY <1>6 DEF Arrives
<1>7. QED
  BY <1>3, <1>4, <1>5, <1>6

LEMMA DebtInductive ==
  ASSUME CutsAgree
  PROVE  Spec => []DebtInv
<1>1. Init => DebtInv
  BY DEF Init, DebtInv
<1>2. DebtInv /\ IInv /\ BufferInv /\ BufferInv' /\ [Next]_vars => DebtInv'
  <2> SUFFICES ASSUME DebtInv, IInv, BufferInv, BufferInv', [Next]_vars PROVE DebtInv'
    OBVIOUS
  <2>1. ASSUME NEW s \in Servers, Serve(s) PROVE DebtInv'
    <3>1. PICK k, n : /\ msgs' = msgs \cup Answer(s, k, n)
                      /\ owed' = owed \cup {[from |-> s, answer |-> n, key |-> k]}
                      /\ UNCHANGED <<buffer, delivered, open>>
      BY <2>1 DEF Serve
    <3>2. PICK new : new = [from |-> s, answer |-> n, key |-> k]
      OBVIOUS
    <3>3. \A m \in msgs' : m \in Answer(m.from, m.key, m.answer)
      BY <3>1, AnswerNames DEF DebtInv
    <3>4. ASSUME NEW a \in owed PROVE Arrives(a)'
      <4>1. Arrives(a)
        BY DEF DebtInv
      <4>2. QED
        BY <3>1, <4>1 DEF Arrives, Holds
    <3>5. Arrives(new)'
      <4>1. new.from = s /\ new.key = k /\ new.answer = n
        BY <3>2
      <4>2. Answer(new.from, new.key, new.answer) \subseteq msgs'
        BY <3>1, <4>1
      <4>3. QED
        BY <4>2 DEF Arrives, Answer
    <3>6. \A a \in owed' : Arrives(a)'
      BY <3>1, <3>2, <3>4, <3>5
    <3>7. QED
      BY <3>1, <3>3, <3>6 DEF DebtInv
  <2>2. ASSUME NEW s \in Servers, Receive(s) PROVE DebtInv'
    <3>1. PICK m \in msgs : /\ msgs' = msgs \ {m} /\ UNCHANGED now
                            /\ OnFullChain(m) \/ OnPage(m)
      BY <2>2 DEF Receive
    <3>2. DOMAIN buffer' \subseteq open'
      BY <3>1, HeldIsOpen DEF DebtInv, OnFullChain
    <3>3. \A a \in owed' : Arrives(a)'
      BY <3>1, ReceiveArrives
    <3>4. QED
      BY <3>1, <3>2, <3>3 DEF DebtInv
  <2>3. ASSUME NEW m \in msgs, Lose(m) PROVE DebtInv'
    <3>1. /\ msgs' = msgs \ {m} /\ UNCHANGED <<buffer, delivered, open>>
          /\ owed' = owed \ {[from |-> m.from, answer |-> m.answer, key |-> m.key]}
      BY <2>3 DEF Lose
    <3>2. ASSUME NEW a \in owed' PROVE Arrives(a)'
      <4>1. a \in owed /\ Arrives(a) /\ a \in Debts
        BY <3>1 DEF DebtInv, BufferInv
      <4>2. a = [from |-> a.from, answer |-> a.answer, key |-> a.key]
        BY <4>1 DEF Debts
      <4>3. m.from # a.from \/ m.answer # a.answer \/ m.key # a.key
        BY <3>1, <3>2, <4>2
      <4>4. /\ m # FullChain(a.from, a.key, a.answer)
            /\ \A i : m # Page(a.from, a.key, a.answer, i)
        BY <4>3 DEF FullChain, Page
      <4>5. QED
        BY <3>1, <4>1, <4>4 DEF Arrives, Holds
    <3>3. QED
      BY <3>1, <3>2 DEF DebtInv
  <2>4. CASE UNCHANGED <<msgs, buffer, delivered, open, owed>>
    BY <2>4 DEF DebtInv, Arrives, Holds
  <2>5. QED
    BY <2>1, <2>2, <2>3, <2>4 DEF Next, Tick, vars
<1>3. QED
  BY <1>1, <1>2, Inductive, BufferInductive, PTL DEF Spec

\* As long as servers cut a chain alike, an answer of which everything has arrived was
\* handed on, unless a set of its chain grew old, was crowded out or met another total
\* since the answer was sent (p2p.py:279-322, 756-799).
THEOREM AnswersArrive ==
  ASSUME CutsAgree
  PROVE  Spec => []AnswersComeThrough
<1>1. DebtInv /\ BufferInv => AnswersComeThrough
  <2> SUFFICES ASSUME DebtInv, BufferInv, NEW a \in owed, Chain(a.key) \notin delivered
               PROVE  \E m \in msgs : m.from = a.from /\ m.answer = a.answer
    BY DEF AnswersComeThrough, Chain
  <2> DEFINE n == Len(Cut(a.from, a.key))
  <2>1. n \in Nat /\ n >= 1 /\ Arrives(a)
    BY SomePages DEF DebtInv, BufferInv, Debts
  <2>2. CASE n = 1
    <3>1. FullChain(a.from, a.key, a.answer) \in msgs
      BY <2>1, <2>2 DEF Arrives
    <3>2. QED
      BY <3>1 DEF FullChain
  <2>3. CASE n # 1
    <3>1. PICK i \in 1..n : ~Holds(a.key, n, i)
      <4> SUFFICES ASSUME \A i \in 1..n : Holds(a.key, n, i) PROVE FALSE
        OBVIOUS
      <4>1. 1 \in 1..n
        BY <2>1
      <4> HIDE DEF n
      <4>2. /\ a.key \in DOMAIN buffer /\ buffer[a.key].pages = n
            /\ 1..n \subseteq DOMAIN buffer[a.key].got
        BY <4>1 DEF Holds
      <4>3. QED
        BY <4>2 DEF BufferInv, Neat, Shaped
    <3>2. Page(a.from, a.key, a.answer, i) \in msgs
      BY <2>1, <2>3, <3>1 DEF Arrives
    <3>3. QED
      BY <3>2 DEF Page
  <2>4. QED
    BY <2>2, <2>3
<1>2. QED
  BY <1>1, DebtInductive, BufferInductive, PTL

=============================================================================
