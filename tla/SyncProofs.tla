----------------------------- MODULE SyncProofs -----------------------------
(***************************************************************************)
(* Without faults, and while no block is forged past the end of its slot,  *)
(* the nodes' chains lie on one line, for any number of nodes, any         *)
(* election, any limits, any order of messages and rounds that any slot    *)
(* interrupts. With any faults a chain has at most one block per slot.     *)
(***************************************************************************)
EXTENDS SyncProperties, TLAPS, SequenceTheorems, FiniteSetTheorems

Chains == Seq(Nat \X Nat)

\* One of the chains is a prefix of the other
Agree(c, d) == \A i \in 1 .. Len(c) : i <= Len(d) => c[i] = d[i]

\* c is a prefix of d
Within(c, d) == Len(c) <= Len(d) /\ \A i \in 1 .. Len(c) : c[i] = d[i]

\* The nodes begin on one line, of ascending slots; who was elected for a block has it
StartsAgree ==
  \A c \in StartChains :
    /\ c \in [Nodes -> Chains]
    /\ \A m, n \in Nodes : Agree(c[m], c[n])
    /\ \A n \in Nodes : \A i \in 1 .. Len(c[n]) :
         /\ c[n][i][1] <= LastSlot(c[n])
         /\ \A p \in Nodes : Elected(Prefix(c[n], i - 1), c[n][i][1]) = p => i <= Len(c[p])

\* A miner asks all other nodes (miner.py:306 takes the first three peers)
AllAreAsked == Cardinality(Nodes) <= PeersAsked + 1

------------------------------------------------------------------------
(* The inductive invariant                                               *)

Sent(n) == forge[n].phase = "sent"

\* Forging in a slot after the tip's: the block can be added. In the slot of the tip
\* a node may be elected and broadcast as well, but nobody adds its block.
Leading(n) == Forging(n) /\ LastSlot(forge[n].base) < forge[n].slot
Sending(n) == Leading(n) /\ Sent(n)

\* A message whose chain may be adopted
InLaterSlot(c) == LastSlot(Prefix(c, Len(c) - 1)) < LastSlot(c)
Carries(m) ==
  m.type \in {"CHAIN_SEGMENT", "FULL_CHAIN"} \/ (m.type = "NEW_BLOCK" /\ InLaterSlot(m.chain))

\* The chains of the nodes, of the messages, and of a miner that has broadcast its block
Known == {chain[n] : n \in Nodes} \cup {m.chain : m \in {x \in msgs : Carries(x)}}
           \cup {Forged(n) : n \in {p \in Nodes : Sending(p)}}

MinerState == [phase : {"idle", "ask", "wait", "sent"}, slot : Nat, base : Chains,
               left : SUBSET Nodes, goal : Nat, forked : BOOLEAN]

Types ==
  /\ chain \in [Nodes -> Chains]
  /\ forge \in [Nodes -> MinerState]
  /\ life \in [Nodes -> Nat] /\ slot \in Nat /\ cut = {}
  /\ \A n \in Nodes : forge[n].slot <= slot /\ (Forging(n) => forge[n].slot = slot)
  /\ Known \subseteq Chains
  /\ \A c \in Known : \A i \in 1 .. Len(c) : c[i][1] <= slot

\* No request and no segment is ahead of the chain that it is for
MessageFits(m) ==
  /\ m.type = "REQUEST_CHAIN_SYNC" =>
       m.from \in Nodes /\ m.last \in Nat /\ m.last <= Len(chain[m.from])
  /\ m.type = "CHAIN_SEGMENT" =>
       /\ m.to \in Nodes /\ m.first \in Nat
       /\ m.first <= Len(chain[m.to]) + 1 /\ m.first <= Len(m.chain) + 1

AllAgree == \A c, d \in Known : Agree(c, d)

\* The miner that leads is alone, and builds on the end of the line
LeaderIsAlone ==
  \A n \in Nodes : Leading(n) =>
    /\ \A p \in Nodes \ {n} : ~Leading(p)
    /\ Elected(forge[n].base, slot) = n
    /\ Within(forge[n].base, chain[n])
    /\ \A c \in Known : Len(c) <= Len(forge[n].base) + (IF Sent(n) THEN 1 ELSE 0)

\* Node n has a block at height i, or has sent it and will add it
Reaches(n, i) == i <= Len(chain[n]) \/ (Sending(n) /\ i <= Len(forge[n].base) + 1)

\* Nothing is longer than the longest chain of a node but the block of a leader
SomebodyLeads == \A c \in Known : \E n \in Nodes : Reaches(n, Len(c))

\* Of the blocks of the current slot the elected node has its own
LeaderHasBlock ==
  \A c \in Known : \A i \in 1 .. Len(c) : \A n \in Nodes :
    c[i][1] = slot /\ Elected(Prefix(c, i - 1), slot) = n => Reaches(n, i)

\* A round of the current slot has heard of every block of an earlier one, or will
Hears(n, i) ==
  i <= Len(chain[n]) \/ i <= forge[n].goal \/ \E p \in forge[n].left : i <= Len(chain[p])
HearsAll ==
  \A n \in Nodes : forge[n].phase = "ask" /\ forge[n].slot = slot =>
    \A c \in Known : \A i \in 1 .. Len(c) : c[i][1] < slot => Hears(n, i)

Quiet ==
  /\ Types /\ (\A m \in msgs : MessageFits(m))
  /\ AllAgree /\ LeaderIsAlone /\ SomebodyLeads /\ LeaderHasBlock /\ HearsAll

IInv == faults \in Nat /\ (faults = 0 /\ ~overran => Quiet)

------------------------------------------------------------------------
(* Chains on one line                                                    *)

LEMMA AgreeSymmetric ==
  ASSUME NEW c \in Chains, NEW d \in Chains, Agree(c, d)
  PROVE  Agree(d, c)
BY DEF Agree, Chains

\* Chains of one length that agree are equal
LEMMA AgreeEqual ==
  ASSUME NEW c \in Chains, NEW d \in Chains, Agree(c, d), Len(c) = Len(d)
  PROVE  c = d
<1>1. \A i \in 1 .. Len(c) : c[i] = d[i]
  BY DEF Agree, Chains
<1> QED
  BY <1>1, SeqEqual DEF Chains

\* Prefixes of chains that agree do as well
LEMMA WithinAgree ==
  ASSUME NEW c \in Chains, NEW d \in Chains, NEW x \in Chains, NEW y \in Chains,
         Within(x, c), Within(y, d), Agree(c, d)
  PROVE  Agree(x, y)
<1> SUFFICES ASSUME NEW i \in 1 .. Len(x), i <= Len(y) PROVE x[i] = y[i]
  BY DEF Agree
<1>1. /\ Len(c) \in Nat /\ Len(d) \in Nat /\ Len(x) \in Nat /\ Len(y) \in Nat
      /\ Len(x) <= Len(c) /\ Len(y) <= Len(d)
  <2>1. Len(x) <= Len(c) /\ Len(y) <= Len(d)
    BY DEF Within
  <2> QED
    BY <2>1 DEF Chains
<1>2. i \in 1 .. Len(c) /\ i \in 1 .. Len(y) /\ i <= Len(d)
  BY <1>1
<1> QED
  BY <1>2 DEF Within, Agree

LEMMA PrefixOf ==
  ASSUME NEW c \in Chains, NEW i \in 0 .. Len(c)
  PROVE  /\ Prefix(c, i) \in Chains /\ Len(Prefix(c, i)) = i
         /\ \A j \in 1 .. i : Prefix(c, i)[j] = c[j]
         /\ Within(Prefix(c, i), c)
<1>1. /\ Prefix(c, i) \in Chains /\ Len(Prefix(c, i)) = i
      /\ \A j \in 1 .. i : Prefix(c, i)[j] = c[j]
  BY DEF Prefix, Chains
<1> QED
  BY <1>1 DEF Within, Chains

\* What two chains on one line have in common is the shorter one
LEMMA SharedIsAll ==
  ASSUME NEW c \in Chains, NEW d \in Chains, Agree(c, d)
  PROVE  Shared(c, d) = IF Len(c) <= Len(d) THEN Len(c) ELSE Len(d)
<1> DEFINE S == {i \in 1 .. Len(c) : i <= Len(d) /\ Prefix(c, i) = Prefix(d, i)}
           k == IF Len(c) <= Len(d) THEN Len(c) ELSE Len(d)
<1>1. Len(c) \in Nat /\ Len(d) \in Nat /\ k \in Nat /\ k <= Len(c) /\ k <= Len(d)
  BY DEF Chains
<1>2. ASSUME NEW i \in 1 .. k PROVE Prefix(c, i) = Prefix(d, i)
  <2>1. i \in 0 .. Len(c) /\ i \in 0 .. Len(d)
    BY <1>1
  <2>2. /\ Prefix(c, i) \in Chains /\ Prefix(d, i) \in Chains
        /\ Len(Prefix(c, i)) = i /\ Len(Prefix(d, i)) = i
    BY <2>1, PrefixOf
  <2>3. ASSUME NEW j \in 1 .. i PROVE Prefix(c, i)[j] = Prefix(d, i)[j]
    <3>1. Prefix(c, i)[j] = c[j] /\ Prefix(d, i)[j] = d[j]
      BY <2>1, PrefixOf
    <3>2. j \in 1 .. Len(c) /\ j <= Len(d)
      BY <1>1
    <3> QED
      BY <3>1, <3>2 DEF Agree
  <2> QED
    BY <2>2, <2>3, SeqEqual DEF Chains
<1>3. S = 1 .. k
  BY <1>1, <1>2
<1>4. Cardinality(1 .. k) = k
  <2> HIDE DEF k
  <2>1. Cardinality(1 .. k) = IF 1 > k THEN 0 ELSE k - 1 + 1
    BY <1>1, FS_Interval
  <2> QED
    BY <1>1, <2>1
<1> QED
  BY <1>3, <1>4 DEF Shared

LEMMA OnLine ==
  ASSUME Quiet, NEW c \in Known, NEW d \in Known, Len(c) <= Len(d)
  PROVE  Within(c, d)
<1>1. c \in Chains /\ d \in Chains /\ Agree(c, d)
  BY DEF Quiet, Types, AllAgree
<1>2. Len(c) \in Nat /\ Len(d) \in Nat
  BY <1>1 DEF Chains
<1> QED
  BY <1>1, <1>2 DEF Agree, Within

LEMMA WithinTransitive ==
  ASSUME NEW c \in Chains, NEW d \in Chains, NEW e \in Chains, Within(c, d), Within(d, e)
  PROVE  Within(c, e)
<1>1. /\ Len(c) \in Nat /\ Len(d) \in Nat /\ Len(e) \in Nat
  BY DEF Chains
<1> QED
  BY <1>1 DEF Within

LEMMA WithinSelf ==
  ASSUME NEW c \in Chains
  PROVE  Within(c, c)
BY DEF Within, Chains

\* The prefixes of a prefix are the same
LEMMA PrefixWithin ==
  ASSUME NEW c \in Chains, NEW d \in Chains, Within(c, d), NEW i \in 0 .. Len(c)
  PROVE  Prefix(c, i) = Prefix(d, i)
<1>1. Len(c) \in Nat /\ Len(d) \in Nat /\ Len(c) <= Len(d)
  BY DEF Within, Chains
<1>2. i \in 0 .. Len(d)
  BY <1>1
<1>3. /\ Prefix(c, i) \in Chains /\ Prefix(d, i) \in Chains
      /\ Len(Prefix(c, i)) = i /\ Len(Prefix(d, i)) = i
      /\ \A j \in 1 .. i : Prefix(c, i)[j] = c[j] /\ Prefix(d, i)[j] = d[j]
  BY <1>2, PrefixOf
<1>4. \A j \in 1 .. i : c[j] = d[j]
  BY <1>1 DEF Within
<1>5. \A j \in 1 .. i : Prefix(c, i)[j] = Prefix(d, i)[j]
  BY <1>3, <1>4
<1> QED
  BY <1>3, <1>5, SeqEqual DEF Chains

------------------------------------------------------------------------
(* What a step keeps that makes nothing new known                        *)

\* Chains grow by what is known, and who had a block has it still
LEMMA LineKept ==
  ASSUME Quiet, UNCHANGED <<life, slot, cut>>,
         chain' \in [Nodes -> Chains], forge' \in [Nodes -> MinerState],
         \A n \in Nodes : forge'[n].slot <= slot /\ (Forging(n)' => forge'[n].slot = slot),
         \A c \in Known' : c \in Chains /\ \E d \in Known : Within(c, d),
         \A n \in Nodes : \A i \in Nat : Reaches(n, i) => Reaches(n, i)'
  PROVE  Types' /\ AllAgree' /\ SomebodyLeads' /\ LeaderHasBlock'
<1>1. Known \subseteq Chains
  BY DEF Quiet, Types
<1>2. ASSUME NEW c \in Known', NEW d \in Known, Within(c, d)
      PROVE  /\ c \in Chains /\ d \in Chains /\ Len(c) \in Nat /\ Len(d) \in Nat /\ Len(c) <= Len(d)
             /\ \A i \in 1 .. Len(c) : i \in 1 .. Len(d) /\ c[i] = d[i]
  <2>1. c \in Chains /\ d \in Chains /\ Len(c) <= Len(d)
    BY <1>1, <1>2 DEF Within
  <2>2. Len(c) \in Nat /\ Len(d) \in Nat
    BY <2>1 DEF Chains
  <2> QED
    BY <1>2, <2>1, <2>2 DEF Within
<1>3. \A c \in Known' : \A i \in 1 .. Len(c) : c[i][1] <= slot
  <2> SUFFICES ASSUME NEW c \in Known', NEW i \in 1 .. Len(c) PROVE c[i][1] <= slot
    OBVIOUS
  <2>1. PICK d \in Known : Within(c, d)
    OBVIOUS
  <2> QED
    BY <1>2, <2>1 DEF Quiet, Types
<1>4. Types'
  BY <1>3 DEF Quiet, Types
<1>5. AllAgree'
  <2> SUFFICES ASSUME NEW x \in Known', NEW y \in Known' PROVE Agree(x, y)
    BY DEF AllAgree
  <2>1. PICK c \in Known : Within(x, c)
    OBVIOUS
  <2>2. PICK d \in Known : Within(y, d)
    OBVIOUS
  <2>3. Agree(c, d) /\ c \in Chains /\ d \in Chains /\ x \in Chains /\ y \in Chains
    BY <1>1 DEF Quiet, AllAgree
  <2> QED
    BY <2>1, <2>2, <2>3, WithinAgree
<1>6. SomebodyLeads'
  <2> SUFFICES ASSUME NEW c \in Known' PROVE \E n \in Nodes : Reaches(n, Len(c))'
    BY DEF SomebodyLeads
  <2>1. PICK d \in Known : Within(c, d)
    OBVIOUS
  <2>2. PICK n \in Nodes : Reaches(n, Len(d))
    BY DEF Quiet, SomebodyLeads
  <2>3. Len(c) \in Nat /\ Len(d) \in Nat /\ Len(c) <= Len(d)
    BY <1>2, <2>1
  <2>4. Len(chain[n]) \in Nat /\ Len(forge[n].base) \in Nat
    BY DEF Quiet, Types, MinerState, Chains
  <2>5. Reaches(n, Len(c))
    BY <2>2, <2>3, <2>4 DEF Reaches
  <2> QED
    BY <2>3, <2>5
<1>7. LeaderHasBlock'
  <2> SUFFICES ASSUME NEW c \in Known', NEW i \in 1 .. Len(c), NEW n \in Nodes,
                      c[i][1] = slot, Elected(Prefix(c, i - 1), slot) = n
               PROVE  Reaches(n, i)'
    BY DEF LeaderHasBlock
  <2>1. PICK d \in Known : Within(c, d)
    OBVIOUS
  <2>2. i \in 1 .. Len(d) /\ d[i][1] = slot /\ i - 1 \in 0 .. Len(c) /\ i \in Nat
        /\ c \in Chains /\ d \in Chains
    BY <1>2, <2>1
  <2>3. Prefix(c, i - 1) = Prefix(d, i - 1)
    BY <2>1, <2>2, PrefixWithin
  <2>4. Reaches(n, i)
    BY <2>2, <2>3 DEF Quiet, LeaderHasBlock
  <2> QED
    BY <2>2, <2>4
<1> QED
  BY <1>4, <1>5, <1>6, <1>7

\* A leader keeps its place as long as it builds on the same tip
LEMMA LeaderKept ==
  ASSUME Quiet, slot' = slot, chain' \in [Nodes -> Chains],
         \A n \in Nodes : Within(chain[n], chain'[n]),
         \A n \in Nodes : Leading(n)' =>
           Leading(n) /\ forge'[n].base = forge[n].base /\ (Sent(n)' <=> Sent(n)),
         \A c \in Known' : c \in Chains /\ \E d \in Known : Within(c, d)
  PROVE  LeaderIsAlone'
<1> SUFFICES ASSUME NEW n \in Nodes, Leading(n)'
             PROVE  /\ \A p \in Nodes \ {n} : ~Leading(p)'
                    /\ Elected(forge'[n].base, slot) = n
                    /\ Within(forge'[n].base, chain'[n])
                    /\ \A c \in Known' : Len(c) <= Len(forge'[n].base) + (IF Sent(n)' THEN 1 ELSE 0)
  BY DEF LeaderIsAlone
<1> DEFINE b == forge[n].base
           e == IF Sent(n) THEN 1 ELSE 0
<1>1. Leading(n) /\ forge'[n].base = b /\ (Sent(n)' <=> Sent(n))
  OBVIOUS
<1>2. /\ \A p \in Nodes \ {n} : ~Leading(p)
      /\ Elected(b, slot) = n /\ Within(b, chain[n])
      /\ \A c \in Known : Len(c) <= Len(b) + e
  BY <1>1 DEF Quiet, LeaderIsAlone
<1>3. b \in Chains /\ chain[n] \in Chains /\ Known \subseteq Chains /\ Len(b) \in Nat /\ e \in Nat
  BY DEF Quiet, Types, MinerState, Chains
<1>4. Within(b, chain'[n])
  BY <1>2, <1>3, WithinTransitive
<1> HIDE DEF b, e
<1>5. ASSUME NEW c \in Known' PROVE Len(c) <= Len(b) + e
  <2>1. PICK d \in Known : Within(c, d)
    OBVIOUS
  <2>2. Len(c) <= Len(d) /\ Len(d) <= Len(b) + e
    BY <1>2, <2>1 DEF Within
  <2>3. Len(c) \in Nat /\ Len(d) \in Nat
    BY <1>3 DEF Chains
  <2> QED
    BY <1>3, <2>2, <2>3
<1> QED
  BY <1>1, <1>2, <1>4, <1>5 DEF e

\* A round hears no less when chains grow
LEMMA RoundKept ==
  ASSUME Quiet, slot' = slot, chain' \in [Nodes -> Chains],
         \A n \in Nodes : Within(chain[n], chain'[n]),
         \A n \in Nodes : forge'[n].phase = "ask" => forge'[n] = forge[n],
         \A c \in Known' : c \in Chains /\ \E d \in Known : Within(c, d)
  PROVE  HearsAll'
<1> SUFFICES ASSUME NEW n \in Nodes, forge'[n].phase = "ask", forge'[n].slot = slot,
                    NEW c \in Known', NEW i \in 1 .. Len(c), c[i][1] < slot
             PROVE  Hears(n, i)'
  BY DEF HearsAll
<1>1. PICK d \in Known : Within(c, d)
  OBVIOUS
<1>2. Len(c) \in Nat /\ Len(d) \in Nat /\ Len(c) <= Len(d)
  <2>1. c \in Chains /\ d \in Chains
    BY DEF Quiet, Types
  <2>2. Len(c) <= Len(d)
    BY <1>1 DEF Within
  <2> QED
    BY <2>1, <2>2 DEF Chains
<1>3. i \in 1 .. Len(d) /\ d[i] = c[i] /\ i \in Nat
  BY <1>1, <1>2 DEF Within
<1>4. Hears(n, i)
  BY <1>3 DEF Quiet, HearsAll
<1>5. ASSUME NEW p \in Nodes
      PROVE  /\ Len(chain[p]) \in Nat /\ Len(chain'[p]) \in Nat
             /\ Len(chain[p]) <= Len(chain'[p])
  <2>1. chain[p] \in Chains /\ chain'[p] \in Chains /\ Len(chain[p]) <= Len(chain'[p])
    BY DEF Quiet, Types, Within
  <2> QED
    BY <2>1 DEF Chains
<1>6. forge[n].left \subseteq Nodes /\ forge'[n] = forge[n]
  BY DEF Quiet, Types, MinerState
<1> QED
  BY <1>3, <1>4, <1>5, <1>6 DEF Hears

------------------------------------------------------------------------
(* Messages                                                              *)

\* A request or segment that fits goes on fitting when chains grow
LEMMA MessagesFit ==
  ASSUME Quiet, chain' \in [Nodes -> Chains],
         \A n \in Nodes : Within(chain[n], chain'[n]),
         \A x \in msgs' \ msgs : MessageFits(x)'
  PROVE  \A m \in msgs' : MessageFits(m)'
<1> SUFFICES ASSUME NEW m \in msgs' PROVE MessageFits(m)'
  OBVIOUS
<1>1. CASE m \in msgs
  <2>1. MessageFits(m)
    BY <1>1 DEF Quiet
  <2>2. \A n \in Nodes : /\ Len(chain[n]) \in Nat /\ Len(chain'[n]) \in Nat
                        /\ Len(chain[n]) <= Len(chain'[n])
    BY DEF Quiet, Types, Chains, Within
  <2> QED
    BY <2>1, <2>2 DEF MessageFits
<1> QED
  BY <1>1

\* The chain of one node grows by what is known, or none does, while the miners' rounds go on
\* as they are
LEMMA Delivered ==
  ASSUME Quiet, UNCHANGED <<life, slot, cut>>,
         NEW n \in Nodes, NEW c \in Known, chain' = [chain EXCEPT ![n] = c],
         Len(chain[n]) <= Len(c),
         forge' = forge,
         \A x \in msgs' \ msgs :
           /\ MessageFits(x)'
           /\ Carries(x) => x.chain \in Chains /\ \E d \in Known : Within(x.chain, d)
  PROVE  Quiet'
<1>1. Known \subseteq Chains /\ chain \in [Nodes -> Chains] /\ \A p \in Nodes : chain[p] \in Known
  BY DEF Quiet, Types, Known
<1>2. chain' \in [Nodes -> Chains]
  BY <1>1
<1>3. ASSUME NEW p \in Nodes PROVE chain'[p] \in Known /\ Within(chain[p], chain'[p])
  <2>1. CASE p = n
    BY <1>1, <2>1, OnLine
  <2>2. CASE p # n
    BY <1>1, <2>2, WithinSelf
  <2> QED
    BY <2>1, <2>2
<1>4. ASSUME NEW k \in Known' PROVE k \in Chains /\ \E d \in Known : Within(k, d)
  <2>1. CASE k \in {chain'[p] : p \in Nodes}
    BY <1>1, <1>3, <2>1, WithinSelf
  <2>2. CASE k \in {m.chain : m \in {x \in msgs' : Carries(x)}}
    <3>1. PICK m \in msgs' : Carries(m) /\ k = m.chain
      BY <2>2
    <3>2. CASE m \in msgs
      <4>1. k \in Known
        BY <3>1, <3>2 DEF Known
      <4> QED
        BY <1>1, <4>1, WithinSelf
    <3> QED
      BY <3>1, <3>2
  <2>3. CASE k \in {Forged(p) : p \in {q \in Nodes : Sending(q)}}'
    <3>1. k \in Known
      BY <2>3 DEF Known, Forged, Sending, Leading, Forging, Sent
    <3> QED
      BY <1>1, <3>1, WithinSelf
  <2> QED
    BY <2>1, <2>2, <2>3 DEF Known
<1>5. ASSUME NEW p \in Nodes, NEW i \in Nat, Reaches(p, i) PROVE Reaches(p, i)'
  <2>1. Len(chain[p]) \in Nat /\ Len(chain'[p]) \in Nat /\ Len(chain[p]) <= Len(chain'[p])
    BY <1>1, <1>2, <1>3 DEF Chains, Within
  <2> QED
    BY <1>5, <2>1 DEF Reaches, Sending, Leading, Forging, Sent
<1>6. /\ forge' \in [Nodes -> MinerState]
      /\ \A p \in Nodes : forge'[p].slot <= slot /\ (Forging(p)' => forge'[p].slot = slot)
  BY DEF Quiet, Types, Forging
<1>7. Types' /\ AllAgree' /\ SomebodyLeads' /\ LeaderHasBlock'
  BY <1>2, <1>4, <1>5, <1>6, LineKept
<1>8. LeaderIsAlone'
  <2>1. \A p \in Nodes : Leading(p)' =>
          Leading(p) /\ forge'[p].base = forge[p].base /\ (Sent(p)' <=> Sent(p))
    BY DEF Leading, Forging, Sent
  <2> QED
    BY <1>2, <1>3, <1>4, <2>1, LeaderKept
<1>9. HearsAll'
  BY <1>2, <1>3, <1>4, RoundKept
<1>10. \A m \in msgs' : MessageFits(m)'
  BY <1>2, <1>3, MessagesFit
<1> QED
  BY <1>7, <1>8, <1>9, <1>10 DEF Quiet

\* A request says where the chain ends
LEMMA RequestsFit ==
  ASSUME Types, NEW n \in Nodes, NEW c \in Chains, chain' \in [Nodes -> Chains],
         Len(c) <= Len(chain'[n]), NEW x \in ChainRequests(n, c)
  PROVE  MessageFits(x)' /\ ~Carries(x)
<1>1. x.type = "REQUEST_CHAIN_SYNC" /\ x.from = n /\ x.last = Len(c)
  BY DEF ChainRequests
<1>2. Len(c) \in Nat
  BY DEF Chains
<1> QED
  BY <1>1, <1>2 DEF MessageFits, Carries

LEMMA FullRequestsFit ==
  ASSUME NEW n \in Nodes, NEW x \in FullRequests(n)
  PROVE  MessageFits(x)' /\ ~Carries(x)
BY DEF FullRequests, MessageFits, Carries

LEMMA ServeStep ==
  ASSUME Quiet, NEW n \in Nodes, NEW m \in msgs, OnRequestChainSync(n, m) \/ OnRequestFullChain(n, m)
  PROVE  Quiet'
<1>1. UNCHANGED <<chain, forge, life, slot, cut>>
  BY DEF OnRequestChainSync, OnRequestFullChain, node, miner, world
<1>2. /\ chain \in [Nodes -> Chains] /\ chain[n] \in Chains /\ chain[n] \in Known
      /\ Len(chain[n]) \in Nat /\ Len(chain[n]) <= Len(chain[n])
      /\ chain' = [chain EXCEPT ![n] = chain[n]]
  BY <1>1 DEF Quiet, Types, Known, Chains
<1>3. ASSUME NEW x \in msgs' \ msgs
      PROVE  /\ MessageFits(x)'
             /\ Carries(x) => x.chain \in Chains /\ \E d \in Known : Within(x.chain, d)
  <2>1. CASE OnRequestChainSync(n, m)
    <3>1. x = Segment(n, m) /\ m.type = "REQUEST_CHAIN_SYNC" /\ Len(chain[n]) > m.last
      BY <2>1 DEF OnRequestChainSync, Handled
    <3>2. m.from \in Nodes /\ m.last \in Nat /\ m.last <= Len(chain[m.from]) /\ Len(chain[m.from]) \in Nat
      BY <1>2, <3>1 DEF Quiet, MessageFits, Chains
    <3>3. /\ x.type = "CHAIN_SEGMENT" /\ x.to = m.from /\ x.first = m.last + 1
          /\ x.chain = IF Len(chain[n]) > m.last + SegmentLimit
                       THEN Prefix(chain[n], m.last + SegmentLimit) ELSE chain[n]
      BY <3>1 DEF Segment
    <3>4. x.chain \in Chains /\ Within(x.chain, chain[n]) /\ m.last <= Len(x.chain) /\ Len(x.chain) \in Nat
      <4>1. CASE Len(chain[n]) > m.last + SegmentLimit
        <5>1. m.last + SegmentLimit \in 0 .. Len(chain[n]) /\ SegmentLimit \in Nat
          BY <1>2, <3>2, <4>1, SyncConstants DEF SyncConstants
        <5> QED
          BY <1>2, <3>2, <3>3, <4>1, <5>1, PrefixOf
      <4>2. CASE ~(Len(chain[n]) > m.last + SegmentLimit)
        BY <1>2, <3>1, <3>2, <3>3, <4>2, WithinSelf
      <4> QED
        BY <4>1, <4>2
    <3>5. MessageFits(x)'
      BY <1>1, <3>2, <3>3, <3>4 DEF MessageFits
    <3> QED
      BY <1>2, <3>4, <3>5
  <2>2. CASE OnRequestFullChain(n, m)
    <3>1. x.type = "FULL_CHAIN" /\ x.chain = chain[n]
      BY <2>2 DEF OnRequestFullChain, Handled
    <3> QED
      BY <1>2, <3>1, WithinSelf DEF MessageFits
  <2> QED
    BY <2>1, <2>2
<1> QED
  BY <1>1, <1>2, <1>3, Delivered

\* A segment is never ahead of the chain and never beside it: no rollback
LEMMA SegmentFits ==
  ASSUME Quiet, NEW n \in Nodes, NEW m \in msgs, m.to = n, m.type = "CHAIN_SEGMENT"
  PROVE  Fits(chain[n], m)
<1>1. chain[n] \in Chains /\ m.chain \in Chains /\ Agree(chain[n], m.chain)
  BY DEF Quiet, Types, AllAgree, Known, Carries
<1>2. m.first \in Nat /\ m.first <= Len(chain[n]) + 1 /\ m.first <= Len(m.chain) + 1
  BY DEF Quiet, MessageFits
<1>3. Shared(chain[n], m.chain) = IF Len(chain[n]) <= Len(m.chain) THEN Len(chain[n]) ELSE Len(m.chain)
  BY <1>1, SharedIsAll
<1>4. Len(chain[n]) \in Nat /\ Len(m.chain) \in Nat
  BY <1>1 DEF Chains
<1>5. m.first - 1 <= Shared(chain[n], m.chain)
  BY <1>2, <1>3, <1>4
<1> QED
  BY <1>3, <1>5 DEF Fits, Links

LEMMA SegmentStep ==
  ASSUME Quiet, NEW n \in Nodes, NEW m \in msgs, m.to = n, OnChainSegment(n, m)
  PROVE  Quiet'
<1>1. m.type = "CHAIN_SEGMENT" /\ UNCHANGED <<forge, life, slot, cut>>
  BY DEF OnChainSegment, miner, world
<1>2. Integrate(n, m)
  BY <1>1, SegmentFits DEF OnChainSegment, RollbackToAncestor, SafetyRollback, StopRollingBack
<1> DEFINE c == IF Len(m.chain) > Len(chain[n]) THEN m.chain ELSE chain[n]
<1>3. c \in Known /\ chain[n] \in Chains /\ m.chain \in Chains /\ chain \in [Nodes -> Chains]
  BY <1>1 DEF Quiet, Types, Known, Carries
<1>4. Len(chain[n]) <= Len(c) /\ c \in Chains
  BY <1>3 DEF Chains
<1> HIDE DEF c
<1>5. Conclude(n, m, c, FALSE)
  BY <1>2 DEF Integrate, c
<1>6. chain' = [chain EXCEPT ![n] = c]
  BY <1>5 DEF Conclude
<1>7. chain' \in [Nodes -> Chains] /\ Len(c) <= Len(chain'[n])
  BY <1>3, <1>4, <1>6 DEF Chains
<1>8. ASSUME NEW x \in msgs' \ msgs PROVE MessageFits(x)' /\ ~Carries(x)
  <2>1. x \in ChainRequests(n, c)
    BY <1>5 DEF Conclude, Handled
  <2> QED
    BY <1>4, <1>7, <2>1, RequestsFit DEF Quiet
<1> QED
  BY <1>1, <1>3, <1>4, <1>6, <1>8, Delivered

LEMMA NewBlockStep ==
  ASSUME Quiet, NEW n \in Nodes, NEW m \in msgs, OnNewBlock(n, m)
  PROVE  Quiet'
<1>1. m.type = "NEW_BLOCK" /\ UNCHANGED <<forge, life, slot, cut>>
  BY DEF OnNewBlock, miner, world
<1> DEFINE c == IF Continues(m.chain, chain[n]) THEN m.chain ELSE chain[n]
<1>2. chain[n] \in Known /\ Known \subseteq Chains /\ chain \in [Nodes -> Chains]
  BY DEF Quiet, Types, Known
<1>3. c \in Known /\ Len(chain[n]) <= Len(c)
  <2>1. CASE Continues(m.chain, chain[n])
    <3>0. m.chain \in Known
      BY <1>1, <2>1 DEF Known, Carries, Continues, InLaterSlot
    <3>1. m.chain # <<>> /\ Prefix(m.chain, Len(m.chain) - 1) = chain[n] /\ m.chain \in Chains
      BY <1>2, <2>1, <3>0 DEF Continues
    <3>2. Len(m.chain) - 1 \in 0 .. Len(m.chain)
      BY <3>1 DEF Chains
    <3>3. Len(chain[n]) = Len(m.chain) - 1
      BY <3>1, <3>2, PrefixOf
    <3> QED
      BY <1>2, <2>1, <3>0, <3>2, <3>3
  <2>2. CASE ~Continues(m.chain, chain[n])
    BY <1>2, <2>2 DEF Chains
  <2> QED
    BY <2>1, <2>2
<1>4. chain' = [chain EXCEPT ![n] = c]
  BY <1>2 DEF OnNewBlock
<1> HIDE DEF c
<1>5. chain' \in [Nodes -> Chains] /\ Len(chain[n]) <= Len(chain'[n])
  BY <1>2, <1>3, <1>4
<1>6. ASSUME NEW x \in msgs' \ msgs PROVE MessageFits(x)' /\ ~Carries(x)
  <2>1. x \in ChainRequests(n, chain[n]) \/ x \in FullRequests(n)
    BY DEF OnNewBlock, Handled, Asking
  <2> QED
    BY <1>2, <1>5, <2>1, RequestsFit, FullRequestsFit DEF Quiet
<1> QED
  BY <1>1, <1>3, <1>4, <1>6, Delivered

\* A chain of the same length is the same
LEMMA FullChainStep ==
  ASSUME Quiet, NEW n \in Nodes, NEW m \in msgs, OnFullChain(n, m)
  PROVE  Quiet'
<1>1. m.type = "FULL_CHAIN" /\ UNCHANGED <<forge, life, slot, cut>> /\ msgs' \subseteq msgs
  BY DEF OnFullChain, miner, world, Handled
<1> DEFINE c == IF Adopts(chain[n], m) THEN m.chain ELSE chain[n]
<1>2. m.chain \in Known /\ chain[n] \in Known /\ Known \subseteq Chains /\ chain \in [Nodes -> Chains]
  BY <1>1 DEF Quiet, Types, Known, Carries
<1>3. Len(m.chain) \in Nat /\ Len(chain[n]) \in Nat
  BY <1>2 DEF Chains
<1>4. c \in Known /\ Len(chain[n]) <= Len(c)
  BY <1>2, <1>3 DEF Adopts
<1>5. chain' = [chain EXCEPT ![n] = c]
  BY <1>2 DEF OnFullChain
<1> QED
  BY <1>1, <1>4, <1>5, Delivered

LEMMA ReceiveStep ==
  ASSUME Quiet, NEW n \in Nodes, NEW kind, Receive(n, kind)
  PROVE  Quiet'
<1>1. PICK m \in msgs :
        /\ m.to = n
        /\ \/ OnRequestChainSync(n, m) \/ OnRequestFullChain(n, m) \/ OnChainSegment(n, m)
           \/ OnNewBlock(n, m) \/ OnFullChain(n, m)
  BY DEF Receive
<1> QED
  BY <1>1, ServeStep, SegmentStep, NewBlockStep, FullChainStep

LEMMA RequestStep ==
  ASSUME Quiet, NEW n \in Nodes, RequestSync(n) \/ SyncEnds(n)
  PROVE  Quiet'
<1>1. UNCHANGED <<chain, forge, life, slot, cut>>
  BY DEF RequestSync, SyncEnds, miner, world
<1>2. /\ chain \in [Nodes -> Chains] /\ chain[n] \in Chains /\ chain[n] \in Known
      /\ Len(chain[n]) <= Len(chain[n])
      /\ chain' = [chain EXCEPT ![n] = chain[n]]
  BY <1>1 DEF Quiet, Types, Known, Chains
<1>3. ASSUME NEW x \in msgs' \ msgs PROVE MessageFits(x)' /\ ~Carries(x)
  <2>1. x \in ChainRequests(n, chain[n])
    BY DEF RequestSync, SyncEnds
  <2> QED
    BY <1>1, <1>2, <2>1, RequestsFit DEF Quiet
<1> QED
  BY <1>1, <1>2, <1>3, Delivered

------------------------------------------------------------------------
(* The miner                                                             *)

LEMMA IdleState == Idle \in MinerState /\ Idle.phase = "idle" /\ Idle.slot = 0
<1>1. <<>> \in Chains
  BY DEF Chains
<1> QED
  BY <1>1 DEF Idle, MinerState

\* A round of a node begins, goes on or ends, and the node does not lead after it
LEMMA RoundStep ==
  ASSUME Quiet, UNCHANGED <<chain, life, slot, cut>>,
         NEW n \in Nodes, NEW f \in MinerState, forge' = [forge EXCEPT ![n] = f],
         ~Sending(n), f.slot <= slot,
         f.phase \in {"wait", "sent"} => f.slot = slot /\ LastSlot(f.base) >= f.slot,
         f.phase = "ask" /\ f.slot = slot =>
           \A c \in Known : \A i \in 1 .. Len(c) : c[i][1] < slot => Hears(n, i)',
         \A x \in msgs' \ msgs : MessageFits(x)' /\ ~Carries(x),
         LastSlot(f.base) \in Nat
  PROVE  Quiet'
<1>1. /\ chain \in [Nodes -> Chains] /\ Known \subseteq Chains /\ slot \in Nat
      /\ forge \in [Nodes -> MinerState] /\ \A p \in Nodes : chain[p] \in Known
  BY DEF Quiet, Types, Known
<1>2. forge' \in [Nodes -> MinerState] /\ forge'[n] = f /\ \A p \in Nodes \ {n} : forge'[p] = forge[p]
  BY <1>1
<1>3. ~Leading(n)' /\ ~Sending(n)'
  <2>1. CASE f.phase \in {"wait", "sent"}
    <3>1. ~(LastSlot(f.base) < f.slot)
      BY <1>1, <2>1
    <3> QED
      BY <1>2, <3>1 DEF Leading, Sending
  <2>2. CASE f.phase \notin {"wait", "sent"}
    BY <1>2, <2>2 DEF Leading, Sending, Forging
  <2> QED
    BY <2>1, <2>2
<1>4. ASSUME NEW p \in Nodes \ {n}
      PROVE  /\ Leading(p)' <=> Leading(p)
             /\ Sent(p)' <=> Sent(p)
             /\ Sending(p)' <=> Sending(p)
             /\ Forging(p)' <=> Forging(p)
             /\ Forged(p)' = Forged(p) /\ forge'[p].base = forge[p].base
  BY <1>2 DEF Leading, Sending, Sent, Forging, Forged
<1>5. Known' \subseteq Known
  <2> SUFFICES ASSUME NEW c \in Known' PROVE c \in Known
    OBVIOUS
  <2>1. CASE c \in {chain'[p] : p \in Nodes}
    BY <1>1, <2>1
  <2>2. CASE c \in {m.chain : m \in {x \in msgs' : Carries(x)}}
    BY <2>2 DEF Known
  <2>3. CASE c \in {Forged(p) : p \in {q \in Nodes : Sending(q)}}'
    BY <1>3, <1>4, <2>3 DEF Known
  <2> QED
    BY <2>1, <2>2, <2>3 DEF Known
<1>6. \A c \in Known' : c \in Chains /\ \E d \in Known : Within(c, d)
  BY <1>1, <1>5, WithinSelf
<1>7. ASSUME NEW p \in Nodes, NEW i \in Nat, Reaches(p, i) PROVE Reaches(p, i)'
  BY <1>2, <1>4, <1>7 DEF Reaches
<1>8. \A p \in Nodes : Within(chain[p], chain'[p])
  BY <1>1, WithinSelf
<1>9. \A p \in Nodes : forge'[p].slot <= slot /\ (Forging(p)' => forge'[p].slot = slot)
  <2> SUFFICES ASSUME NEW p \in Nodes
               PROVE  forge'[p].slot <= slot /\ (Forging(p)' => forge'[p].slot = slot)
    OBVIOUS
  <2>1. CASE p = n
    BY <1>2, <2>1 DEF Forging
  <2>2. CASE p # n
    BY <1>2, <1>4, <2>2 DEF Quiet, Types
  <2> QED
    BY <2>1, <2>2
<1>10. Types' /\ AllAgree' /\ SomebodyLeads' /\ LeaderHasBlock'
  BY <1>1, <1>2, <1>6, <1>7, <1>9, LineKept
<1>11. LeaderIsAlone'
  <2>1. \A p \in Nodes : Leading(p)' =>
          Leading(p) /\ forge'[p].base = forge[p].base /\ (Sent(p)' <=> Sent(p))
    BY <1>3, <1>4
  <2> QED
    BY <1>1, <1>6, <1>8, <2>1, LeaderKept
<1>12. HearsAll'
  <2> SUFFICES ASSUME NEW p \in Nodes, forge'[p].phase = "ask", forge'[p].slot = slot,
                      NEW c \in Known', NEW i \in 1 .. Len(c), c[i][1] < slot
               PROVE  Hears(p, i)'
    BY DEF HearsAll
  <2>1. c \in Known
    BY <1>5
  <2>2. CASE p = n
    BY <1>2, <2>1, <2>2
  <2>3. CASE p # n
    <3>1. Hears(p, i)
      BY <1>2, <2>1, <2>3 DEF Quiet, HearsAll
    <3> QED
      BY <1>2, <2>3, <3>1 DEF Hears
  <2> QED
    BY <2>2, <2>3
<1>13. \A m \in msgs' : MessageFits(m)'
  BY <1>1, <1>8, MessagesFit
<1> QED
  BY <1>10, <1>11, <1>12, <1>13 DEF Quiet

\* The last slot of a chain is a number
LEMMA LastSlotNat ==
  ASSUME NEW c \in Chains
  PROVE  LastSlot(c) \in Nat
<1>1. CASE c = <<>>
  BY <1>1 DEF LastSlot
<1>2. CASE c # <<>>
  <2>1. Len(c) \in 1 .. Len(c)
    BY <1>2 DEF Chains
  <2>2. c[Len(c)] \in Nat \X Nat
    BY <2>1 DEF Chains
  <2> QED
    BY <1>2, <2>2 DEF LastSlot
<1> QED
  BY <1>1, <1>2

LEMMA ForgedBlock ==
  ASSUME Types, NEW n \in Nodes
  PROVE  /\ forge[n].base \in Chains /\ Forged(n) \in Chains /\ Len(forge[n].base) \in Nat
         /\ Len(Forged(n)) = Len(forge[n].base) + 1
         /\ \A i \in 1 .. Len(forge[n].base) : Forged(n)[i] = forge[n].base[i]
         /\ Forged(n)[Len(forge[n].base) + 1][1] = forge[n].slot
         /\ LastSlot(Forged(n)) = forge[n].slot
         /\ Prefix(Forged(n), Len(Forged(n)) - 1) = forge[n].base
         /\ forge[n].slot \in Nat /\ Forged(n) # <<>>
<1>1. forge[n].base \in Chains /\ forge[n].slot \in Nat /\ life[n] \in Nat
  BY DEF Types, MinerState
<1>2. /\ Forged(n) \in Chains /\ Len(forge[n].base) \in Nat
      /\ Len(Forged(n)) = Len(forge[n].base) + 1
      /\ \A i \in 1 .. Len(forge[n].base) : Forged(n)[i] = forge[n].base[i]
      /\ Forged(n)[Len(forge[n].base) + 1] = <<forge[n].slot, life[n]>>
  BY <1>1 DEF Forged, Chains
<1>3. Forged(n) # <<>>
  BY <1>2
<1>4. LastSlot(Forged(n)) = forge[n].slot
  BY <1>2, <1>3 DEF LastSlot
<1>5. Prefix(Forged(n), Len(Forged(n)) - 1) = forge[n].base
  <2>1. Len(Forged(n)) - 1 = Len(forge[n].base) /\ Len(forge[n].base) \in 0 .. Len(Forged(n))
    BY <1>2
  <2>2. /\ Prefix(Forged(n), Len(forge[n].base)) \in Chains
        /\ Len(Prefix(Forged(n), Len(forge[n].base))) = Len(forge[n].base)
        /\ \A i \in 1 .. Len(forge[n].base) :
             Prefix(Forged(n), Len(forge[n].base))[i] = Forged(n)[i]
    BY <1>2, <2>1, PrefixOf
  <2>3. \A i \in 1 .. Len(forge[n].base) :
          Prefix(Forged(n), Len(forge[n].base))[i] = forge[n].base[i]
    BY <1>2, <2>2
  <2>4. Prefix(Forged(n), Len(forge[n].base)) = forge[n].base
    BY <1>1, <2>2, <2>3, SeqEqual DEF Chains
  <2> QED
    BY <2>1, <2>4
<1> QED
  BY <1>1, <1>2, <1>3, <1>4, <1>5

\* Whoever is asked is one whom all that was heard of so far, or will be, does not miss
LEMMA AskStep ==
  ASSUME Quiet, faults = 0, faults' = 0, NEW n \in Nodes, AskPeer(n)
  PROVE  Quiet'
<1>1. /\ UNCHANGED <<chain, life, slot, cut, msgs>> /\ forge[n].phase = "ask"
      /\ \E p \in forge[n].left : Hear(n, p) \/ HearNothing(n, p)
  BY DEF AskPeer, node
<1>2. PICK p \in forge[n].left : Hear(n, p) \/ HearNothing(n, p)
  BY <1>1
<1>3. /\ forge \in [Nodes -> MinerState] /\ forge[n] \in MinerState /\ chain \in [Nodes -> Chains]
      /\ cut = {} /\ forge[n].left \subseteq Nodes /\ p \in Nodes
      /\ forge[n].slot <= slot
  BY DEF Quiet, Types, MinerState
<1>4. \A q \in Nodes : Len(chain[q]) \in Nat
  BY <1>3 DEF Chains
<1> DEFINE g == [forge[n] EXCEPT !.left = @ \ {p}]
           f == forge'[n]
<1>5. CASE Hear(n, p)
  <2> DEFINE goal == Bigger(forge[n].goal, Len(chain[p]))
             b == forge[n].forked \/ (Len(chain[p]) > 0 /\ Len(chain[p]) = Len(forge[n].base)
                                      /\ chain[p] # forge[n].base)
             r == [forge[n] EXCEPT !.left = @ \ {p}, !.goal = goal, !.forked = b]
  <2>1. goal \in Nat /\ goal >= forge[n].goal /\ goal >= Len(chain[p]) /\ b \in BOOLEAN
    BY <1>3, <1>4 DEF Bigger, MinerState
  <2>2. forge' = [forge EXCEPT ![n] = r]
    <3>1. forge' = [forge EXCEPT ![n].left = @ \ {p}, ![n].goal = goal, ![n].forked = b]
      BY <1>5, Zenon DEF Hear
    <3> HIDE DEF goal, b
    <3> QED
      BY <1>3, <3>1
  <2> HIDE DEF goal, b
  <2>3. r \in MinerState
    BY <1>3, <2>1 DEF MinerState
  <2>4. r.phase = "ask" /\ r.slot = forge[n].slot /\ r.left = forge[n].left \ {p} /\ r.goal = goal
        /\ r.base = forge[n].base
    BY <1>1, <1>3, <2>1 DEF MinerState
  <2> HIDE DEF r
  <2>5. ASSUME r.slot = slot, NEW c \in Known, NEW i \in 1 .. Len(c), c[i][1] < slot
        PROVE  Hears(n, i)'
    <3>1. Hears(n, i)
      BY <1>1, <2>4, <2>5 DEF Quiet, HearsAll
    <3>2. i \in Nat /\ forge[n].goal \in Nat
      BY <1>3 DEF MinerState
    <3>3. forge'[n].left = forge[n].left \ {p} /\ forge'[n].goal = goal /\ chain' = chain
      BY <1>1, <1>3, <2>2, <2>4
    <3>4. CASE i <= Len(chain[n])
      BY <3>3, <3>4 DEF Hears
    <3>5. CASE i <= forge[n].goal
      BY <2>1, <3>2, <3>3, <3>5 DEF Hears
    <3>6. ASSUME NEW q \in forge[n].left, i <= Len(chain[q]) PROVE Hears(n, i)'
      <4>1. CASE q = p
        BY <1>4, <2>1, <1>3, <3>2, <3>3, <3>6, <4>1 DEF Hears
      <4>2. CASE q # p
        BY <3>3, <3>6, <4>2 DEF Hears
      <4> QED
        BY <4>1, <4>2
    <3> QED
      BY <3>1, <3>4, <3>5, <3>6 DEF Hears
  <2>6. ~Sending(n) /\ LastSlot(r.base) \in Nat
    BY <1>1, <1>3, <2>4, LastSlotNat DEF Sending, Sent, MinerState
  <2> QED
    BY <1>1, <1>3, <2>2, <2>3, <2>4, <2>5, <2>6, RoundStep
<1>6. CASE HearNothing(n, p)
  <2>1. p = n
    <3>1. p \in Reach(n) => faults' = faults + 1
      BY <1>6 DEF HearNothing
    <3>2. p \notin Reach(n)
      BY <3>1
    <3> QED
      BY <1>3, <3>2 DEF Reach
  <2>2. forge' = [forge EXCEPT ![n] = g]
    BY <1>3, <1>6 DEF HearNothing
  <2>3. g \in MinerState /\ g.phase = "ask" /\ g.slot = forge[n].slot /\ g.left = forge[n].left \ {n}
        /\ g.goal = forge[n].goal /\ g.base = forge[n].base
    BY <1>1, <1>3, <2>1 DEF MinerState
  <2> HIDE DEF g
  <2>4. ASSUME g.slot = slot, NEW c \in Known, NEW i \in 1 .. Len(c), c[i][1] < slot
        PROVE  Hears(n, i)'
    <3>1. Hears(n, i)
      BY <1>1, <2>3, <2>4 DEF Quiet, HearsAll
    <3>2. forge'[n].left = forge[n].left \ {n} /\ forge'[n].goal = forge[n].goal /\ chain' = chain
      BY <1>1, <1>3, <2>2, <2>3
    <3> QED
      BY <3>1, <3>2 DEF Hears
  <2>5. ~Sending(n) /\ LastSlot(g.base) \in Nat
    BY <1>1, <1>3, <2>3, LastSlotNat DEF Sending, Sent, MinerState
  <2> QED
    BY <1>1, <1>3, <2>2, <2>3, <2>4, <2>5, RoundStep
<1> QED
  BY <1>2, <1>5, <1>6

\* When a round begins, nodes have the blocks of earlier slots: what only a leader knows of
\* is of the current one
LEMMA BeginStep ==
  ASSUME Quiet, AllAreAsked, NEW n \in Nodes, BeginRound(n)
  PROVE  Quiet'
<1>1. PICK S \in Polls(n) :
        forge' = [forge EXCEPT ![n] = [Idle EXCEPT !.phase = "ask", !.slot = slot,
                                                  !.base = chain[n], !.left = S]]
  BY DEF BeginRound
<1>2. UNCHANGED <<chain, life, slot, cut, msgs>> /\ forge[n].phase = "idle"
  BY DEF BeginRound, node, world
<1>3. S = Nodes \ {n}
  <2>1. IsFiniteSet(Nodes) /\ PeersAsked \in Nat /\ Cardinality(Nodes) <= PeersAsked + 1
    BY SyncConstants DEF SyncConstants, AllAreAsked
  <2>2. IsFiniteSet(Nodes \ {n}) /\ Cardinality(Nodes \ {n}) = Cardinality(Nodes) - 1
    BY <2>1, FS_RemoveElement
  <2>3. S \subseteq Nodes \ {n} /\ (S = Nodes \ {n} \/ Cardinality(S) = PeersAsked)
    BY DEF Polls
  <2>4. /\ Cardinality(S) <= Cardinality(Nodes \ {n})
        /\ Cardinality(S) = Cardinality(Nodes \ {n}) => S = Nodes \ {n}
    BY <2>2, <2>3, FS_Subset
  <2>5. Cardinality(Nodes) \in Nat
    BY <2>1, FS_CardinalityType
  <2> QED
    BY <2>1, <2>2, <2>3, <2>4, <2>5
<1> DEFINE f == [Idle EXCEPT !.phase = "ask", !.slot = slot, !.base = chain[n], !.left = S]
<1>4. /\ chain \in [Nodes -> Chains] /\ forge \in [Nodes -> MinerState] /\ slot \in Nat
      /\ \A p \in Nodes : chain[p] \in Chains /\ chain[p] \in Known
      /\ Known \subseteq Chains
  BY DEF Quiet, Types, Known
<1>5. f \in MinerState /\ f.phase = "ask" /\ f.slot = slot /\ f.base = chain[n] /\ f.left = S
  BY <1>3, <1>4 DEF Idle, MinerState
<1> HIDE DEF f
<1>6. ASSUME NEW c \in Known, NEW i \in 1 .. Len(c), c[i][1] < slot
      PROVE  \E p \in Nodes : i <= Len(chain[p])
  <2>1. PICK p \in Nodes : Reaches(p, Len(c))
    BY DEF Quiet, SomebodyLeads
  <2>2. Len(c) \in Nat /\ Len(chain[p]) \in Nat /\ i \in Nat /\ c \in Chains
    BY <1>4 DEF Chains
  <2>3. CASE Len(c) <= Len(chain[p])
    BY <2>2, <2>3
  <2>4. CASE Sending(p) /\ Len(c) <= Len(forge[p].base) + 1
    <3> DEFINE k == Len(forge[p].base)
    <3>1. /\ Forged(p) \in Chains /\ k \in Nat /\ Len(Forged(p)) = k + 1
          /\ Forged(p)[k + 1][1] = forge[p].slot
      BY ForgedBlock DEF Quiet
    <3>2. forge[p].slot = slot /\ Within(forge[p].base, chain[p])
      BY <2>4 DEF Quiet, Types, Sending, Leading, LeaderIsAlone
    <3>3. Agree(c, Forged(p))
      BY <2>4 DEF Quiet, AllAgree, Known
    <3>4. i # k + 1
      <4> SUFFICES ASSUME i = k + 1 PROVE FALSE
        OBVIOUS
      <4>1. c[i] = Forged(p)[i]
        BY <3>1, <3>3 DEF Agree
      <4> QED
        BY <1>4, <1>6, <3>1, <3>2, <4>1
    <3>5. k <= Len(chain[p])
      BY <3>2 DEF Within
    <3> QED
      BY <2>2, <2>4, <3>1, <3>4, <3>5
  <2> QED
    BY <2>1, <2>3, <2>4 DEF Reaches
<1>7. ASSUME NEW c \in Known, NEW i \in 1 .. Len(c), c[i][1] < slot
      PROVE  Hears(n, i)'
  <2>1. PICK p \in Nodes : i <= Len(chain[p])
    BY <1>6, <1>7
  <2>2. forge'[n].left = Nodes \ {n} /\ chain' = chain
    BY <1>1, <1>2, <1>3, <1>4, <1>5 DEF f
  <2> QED
    BY <2>1, <2>2 DEF Hears
<1>8. ~Sending(n) /\ LastSlot(f.base) \in Nat /\ forge' = [forge EXCEPT ![n] = f]
  BY <1>1, <1>2, <1>4, <1>5, LastSlotNat DEF Sending, Sent, f
<1>9. \A c \in Known : \A i \in 1 .. Len(c) : c[i][1] < slot => Hears(n, i)'
  BY <1>7
<1>10. f.slot <= slot /\ msgs' = msgs /\ f.phase \notin {"wait", "sent"}
  BY <1>2, <1>4, <1>5
<1> QED
  BY <1>2, <1>5, <1>8, <1>9, <1>10, RoundStep

\* The checks before an election leave no other leader of the slot and nothing beyond the tip:
\* blocks of earlier slots have been heard of, and one of this slot would be the node's own.
LEMMA NobodyElse ==
  ASSUME Quiet, NEW n \in Nodes, forge[n].phase = "ask", forge[n].left = {}, Leads(n),
         forge[n].slot = slot, LastSlot(chain[n]) < slot
  PROVE  /\ \A c \in Known : Len(c) <= Len(chain[n])
         /\ \A p \in Nodes \ {n} : ~Leading(p)
<1>1. /\ chain[n] \in Chains /\ chain[n] \in Known /\ Known \subseteq Chains /\ slot \in Nat
      /\ forge[n].goal \in Nat
  BY DEF Quiet, Types, Known, MinerState
<1>2. Len(chain[n]) \in Nat
  BY <1>1 DEF Chains
<1>3. forge[n].goal <= Len(chain[n]) /\ Elected(chain[n], slot) = n
  BY <1>1, <1>2 DEF Leads, Lags
<1>4. ASSUME NEW c \in Known, NEW i \in 1 .. Len(c), c[i][1] < slot
      PROVE  i <= Len(chain[n])
  <2>1. Hears(n, i)
    BY <1>4 DEF Quiet, HearsAll
  <2>2. i <= Len(chain[n]) \/ i <= forge[n].goal
    BY <2>1 DEF Hears
  <2> QED
    BY <1>1, <1>2, <1>3, <2>2
<1>5. ASSUME NEW c \in Known, Len(chain[n]) < Len(c) PROVE FALSE
  <2> DEFINE k == Len(chain[n])
  <2>1. c \in Chains /\ Len(c) \in Nat
    BY <1>1 DEF Chains
  <2>2. k + 1 \in 1 .. Len(c) /\ k \in 0 .. Len(c) /\ ~(k + 1 <= k)
    BY <1>2, <1>5, <2>1
  <2>3. Within(chain[n], c)
    BY <1>1, <1>2, <1>5, <2>1, OnLine
  <2>4. Prefix(c, k) = chain[n]
    <3>1. /\ Prefix(c, k) \in Chains /\ Len(Prefix(c, k)) = k
          /\ \A j \in 1 .. k : Prefix(c, k)[j] = c[j]
      BY <2>1, <2>2, PrefixOf
    <3>2. \A j \in 1 .. k : Prefix(c, k)[j] = chain[n][j]
      BY <2>3, <3>1 DEF Within
    <3> QED
      BY <1>1, <3>1, <3>2, SeqEqual DEF Chains
  <2>5. c[k + 1][1] = slot
    <3>1. c[k + 1][1] <= slot
      BY <2>2 DEF Quiet, Types
    <3>2. ~(c[k + 1][1] < slot)
      BY <1>4, <2>2
    <3>3. c[k + 1][1] \in Nat
      BY <2>1, <2>2 DEF Chains
    <3> QED
      BY <1>1, <3>1, <3>2, <3>3
  <2>6. k + 1 - 1 = k
    BY <1>2
  <2>7. Reaches(n, k + 1)
    BY <1>3, <2>2, <2>4, <2>5, <2>6 DEF Quiet, LeaderHasBlock
  <2> QED
    BY <2>2, <2>7 DEF Reaches, Sending, Sent
<1>6. \A c \in Known : Len(c) <= Len(chain[n])
  <2> SUFFICES ASSUME NEW c \in Known PROVE Len(c) <= Len(chain[n])
    OBVIOUS
  <2>1. Len(c) \in Nat
    BY <1>1 DEF Chains
  <2> QED
    BY <1>2, <1>5, <2>1
<1>7. ASSUME NEW p \in Nodes \ {n}, Leading(p) PROVE FALSE
  <2> DEFINE b == forge[p].base
             k == Len(b)
  <2>1. /\ Elected(b, slot) = p /\ Within(b, chain[p])
        /\ Len(chain[n]) <= k + (IF Sent(p) THEN 1 ELSE 0)
        /\ LastSlot(b) < slot
    BY <1>1, <1>7 DEF Quiet, LeaderIsAlone, Leading, Types
  <2>2. /\ b \in Chains /\ k \in Nat /\ chain[p] \in Chains /\ chain[p] \in Known
        /\ Forged(p) \in Chains /\ Len(Forged(p)) = k + 1 /\ LastSlot(Forged(p)) = forge[p].slot
    BY ForgedBlock DEF Quiet, Types, Known
  <2>3. Agree(b, chain[n])
    <3>1. Agree(chain[p], chain[n]) /\ Within(chain[n], chain[n])
      BY <1>1, <2>2, WithinSelf DEF Quiet, AllAgree
    <3> QED
      BY <1>1, <2>1, <2>2, <3>1, WithinAgree
  <2> HIDE DEF b, k
  <2>4. CASE Len(chain[n]) = k
    <3>1. b = chain[n]
      BY <1>1, <2>2, <2>3, <2>4, AgreeEqual DEF k
    <3> QED
      BY <1>3, <2>1, <3>1
  <2>5. CASE Len(chain[n]) < k
    <3>1. k \in 1 .. Len(chain[p]) /\ b[k] = chain[p][k]
      BY <1>2, <2>1, <2>2, <2>5 DEF Within, k
    <3>2. b # <<>>
      BY <1>2, <2>2, <2>5 DEF k
    <3>3. b[k][1] < slot
      BY <2>1, <3>2 DEF LastSlot, k
    <3>4. k <= Len(chain[n])
      BY <1>4, <2>2, <3>1, <3>3
    <3> QED
      BY <1>2, <2>2, <2>5, <3>4
  <2>6. CASE Len(chain[n]) > k
    <3>1. Sent(p) /\ Len(chain[n]) = k + 1
      <4>1. CASE Sent(p)
        BY <1>2, <2>1, <2>2, <2>6, <4>1
      <4>2. CASE ~Sent(p)
        BY <1>2, <2>1, <2>2, <2>6, <4>2
      <4> QED
        BY <4>1, <4>2
    <3>2. Forged(p) \in Known
      BY <1>7, <3>1 DEF Known, Sending
    <3>3. Agree(Forged(p), chain[n])
      BY <1>1, <3>2 DEF Quiet, AllAgree
    <3>4. Forged(p) = chain[n]
      BY <1>1, <2>2, <3>1, <3>3, AgreeEqual
    <3>5. LastSlot(chain[n]) = slot
      BY <1>7, <2>2, <3>4 DEF Quiet, Types, Leading
    <3> QED
      BY <1>1, <3>5
  <2> QED
    BY <1>2, <2>2, <2>4, <2>5, <2>6
<1> QED
  BY <1>6, <1>7

LEMMA ElectStep ==
  ASSUME Quiet, ~overran', NEW n \in Nodes, Elect(n)
  PROVE  Quiet'
<1> DEFINE f == [Idle EXCEPT !.phase = "wait", !.slot = forge[n].slot, !.base = chain[n]]
<1>1. /\ UNCHANGED <<chain, life, slot, cut>> /\ forge[n].phase = "ask" /\ forge[n].left = {}
      /\ forge' = [forge EXCEPT ![n] = IF Leads(n) THEN f ELSE Idle]
      /\ overran' = (overran \/ (Leads(n) /\ forge[n].slot # slot))
      /\ msgs' = msgs \cup (IF Lags(n) THEN Asking(n, chain[n]) ELSE {})
  BY DEF Elect
<1>2. /\ chain \in [Nodes -> Chains] /\ chain[n] \in Chains /\ chain[n] \in Known
      /\ Known \subseteq Chains /\ forge \in [Nodes -> MinerState] /\ slot \in Nat
      /\ forge[n].slot \in Nat
  BY DEF Quiet, Types, Known, MinerState
<1>3. f \in MinerState /\ f.phase = "wait" /\ f.slot = forge[n].slot /\ f.base = chain[n]
  BY <1>2 DEF Idle, MinerState
<1>4. ASSUME NEW x \in msgs' \ msgs PROVE MessageFits(x)' /\ ~Carries(x)
  <2>1. x \in ChainRequests(n, chain[n])
    BY <1>1 DEF Asking
  <2>2. Len(chain[n]) <= Len(chain'[n])
    BY <1>1, <1>2 DEF Chains
  <2> QED
    BY <1>1, <1>2, <2>1, <2>2, RequestsFit DEF Quiet
<1>5. ~Sending(n) /\ ~Sent(n) /\ ~Leading(n)
  BY <1>1 DEF Sending, Sent, Leading, Forging
<1> HIDE DEF f
<1>6. CASE ~Leads(n)
  <2>1. forge' = [forge EXCEPT ![n] = Idle] /\ Idle.slot <= slot /\ LastSlot(Idle.base) \in Nat
    <3>1. Idle.base \in Chains
      BY IdleState DEF MinerState
    <3> QED
      BY <1>1, <1>2, <1>6, <3>1, IdleState, LastSlotNat
  <2>2. Idle.phase \notin {"ask", "wait", "sent"}
    BY IdleState
  <2> QED
    BY <1>1, <1>4, <1>5, <2>1, <2>2, IdleState, RoundStep
<1>7. CASE Leads(n) /\ LastSlot(chain[n]) >= slot
  <2>1. forge[n].slot = slot /\ forge' = [forge EXCEPT ![n] = f]
    BY <1>1, <1>7
  <2>2. f.slot <= slot /\ LastSlot(f.base) >= f.slot /\ f.phase # "ask" /\ LastSlot(f.base) \in Nat
    BY <1>2, <1>3, <1>7, <2>1, LastSlotNat
  <2> QED
    BY <1>1, <1>3, <1>4, <1>5, <2>1, <2>2, RoundStep
<1>8. CASE Leads(n) /\ ~(LastSlot(chain[n]) >= slot)
  <2>1. forge[n].slot = slot /\ forge' = [forge EXCEPT ![n] = f] /\ Elected(chain[n], slot) = n
    BY <1>1, <1>8 DEF Leads
  <2>2. LastSlot(chain[n]) < slot
    BY <1>2, <1>8, LastSlotNat
  <2>3. /\ \A c \in Known : Len(c) <= Len(chain[n])
        /\ \A p \in Nodes \ {n} : ~Leading(p)
    BY <1>1, <1>8, <2>1, <2>2, NobodyElse
  <2>4. /\ forge' \in [Nodes -> MinerState] /\ forge'[n] = f
        /\ \A p \in Nodes \ {n} : forge'[p] = forge[p]
    BY <1>2, <1>3, <2>1
  <2>5. /\ \A p \in Nodes : ~Sending(p) /\ ~Sending(p)'
        /\ \A p \in Nodes \ {n} : ~Leading(p)'
        /\ ~Sent(n)'
    BY <1>3, <1>5, <2>3, <2>4 DEF Sending, Sent, Leading, Forging
  <2>6. Known' \subseteq Known
    <3> SUFFICES ASSUME NEW c \in Known' PROVE c \in Known
      OBVIOUS
    <3>1. CASE c \in {chain'[p] : p \in Nodes}
      BY <1>1, <3>1 DEF Known
    <3>2. CASE c \in {m.chain : m \in {x \in msgs' : Carries(x)}}
      BY <1>4, <3>2 DEF Known
    <3> QED
      BY <2>5, <3>1, <3>2 DEF Known
  <2>7. \A c \in Known' : c \in Chains /\ \E d \in Known : Within(c, d)
    BY <1>2, <2>6, WithinSelf
  <2>8. \A p \in Nodes : Within(chain[p], chain'[p])
    BY <1>1, <1>2, WithinSelf
  <2>9. \A p \in Nodes : forge'[p].slot <= slot /\ (Forging(p)' => forge'[p].slot = slot)
    <3> SUFFICES ASSUME NEW p \in Nodes
                 PROVE  forge'[p].slot <= slot /\ (Forging(p)' => forge'[p].slot = slot)
      OBVIOUS
    <3>1. CASE p = n
      BY <1>2, <1>3, <2>1, <2>4, <3>1
    <3>2. CASE p # n
      BY <2>4, <3>2 DEF Quiet, Types, Forging
    <3> QED
      BY <3>1, <3>2
  <2>10. \A p \in Nodes : \A i \in Nat : Reaches(p, i) => Reaches(p, i)'
    BY <1>1, <2>5 DEF Reaches
  <2>11. Types' /\ AllAgree' /\ SomebodyLeads' /\ LeaderHasBlock'
    BY <1>1, <1>2, <2>4, <2>7, <2>9, <2>10, LineKept
  <2>12. HearsAll'
    <3>1. \A p \in Nodes : forge'[p].phase = "ask" => forge'[p] = forge[p]
      BY <1>3, <2>4
    <3> QED
      BY <1>1, <1>2, <2>7, <2>8, <3>1, RoundKept
  <2>13. \A m \in msgs' : MessageFits(m)'
    BY <1>1, <1>2, <1>4, <2>8, MessagesFit
  <2>14. LeaderIsAlone'
    <3> SUFFICES ASSUME NEW q \in Nodes, Leading(q)'
                 PROVE  /\ \A p \in Nodes \ {q} : ~Leading(p)'
                        /\ Elected(forge'[q].base, slot) = q
                        /\ Within(forge'[q].base, chain'[q])
                        /\ \A c \in Known' : Len(c) <= Len(forge'[q].base) + (IF Sent(q)' THEN 1 ELSE 0)
      BY <1>1 DEF LeaderIsAlone
    <3>1. q = n /\ forge'[q].base = chain[n] /\ chain'[q] = chain[n]
      BY <1>1, <1>3, <2>4, <2>5
    <3>2. ASSUME NEW c \in Known' PROVE Len(c) <= Len(chain[n]) + 0
      <4>1. Len(c) <= Len(chain[n]) /\ Len(chain[n]) \in Nat
        BY <1>2, <2>3, <2>6 DEF Chains
      <4> QED
        BY <4>1
    <3> QED
      BY <1>2, <2>1, <2>5, <3>1, <3>2, WithinSelf
  <2> QED
    BY <2>11, <2>12, <2>13, <2>14 DEF Quiet
<1> QED
  BY <1>6, <1>7, <1>8

\* The leader's block is at the end of the line, and the leader has it
LEMMA BroadcastStep ==
  ASSUME Quiet, NEW n \in Nodes, Broadcast(n)
  PROVE  Quiet'
<1> DEFINE b == forge[n].base
           f == [forge[n] EXCEPT !.phase = "sent"]
<1>1. UNCHANGED <<chain, life, slot, cut>> /\ forge[n].phase = "wait"
  BY DEF Broadcast, node, world
<1>2. /\ chain \in [Nodes -> Chains] /\ Known \subseteq Chains /\ slot \in Nat
      /\ forge \in [Nodes -> MinerState] /\ \A p \in Nodes : chain[p] \in Known
  BY DEF Quiet, Types, Known
<1>3. /\ f \in MinerState /\ f.phase = "sent" /\ f.base = b /\ f.slot = forge[n].slot
      /\ b \in Chains
  BY <1>2 DEF MinerState
<1>4. /\ ~Sent(n) /\ ~Sending(n) /\ Forging(n) /\ forge[n].slot = slot
      /\ LastSlot(b) \in Nat
  BY <1>1, <1>3, LastSlotNat DEF Sent, Sending, Forging, Quiet, Types
<1>5. ASSUME NEW x \in Announcements(n, Forged(n))
      PROVE  MessageFits(x)' /\ x.type = "NEW_BLOCK" /\ x.chain = Forged(n)
  BY DEF Announcements, MessageFits
<1> HIDE DEF b, f
<1>6. CASE chain[n] # b
  <2>1. msgs' = msgs /\ forge' = [forge EXCEPT ![n] = Idle]
    BY <1>6 DEF Broadcast, b
  <2>2. Idle.phase \notin {"ask", "wait", "sent"} /\ Idle.slot <= slot /\ LastSlot(Idle.base) \in Nat
    <3>1. Idle.base \in Chains
      BY IdleState DEF MinerState
    <3> QED
      BY <1>2, <3>1, IdleState, LastSlotNat
  <2>3. \A x \in msgs' \ msgs : MessageFits(x)' /\ ~Carries(x)
    BY <2>1
  <2> QED
    BY <1>1, <1>4, <2>1, <2>2, <2>3, IdleState, RoundStep
<1>7. CASE chain[n] = b
  <2>1. msgs' = msgs \cup Announcements(n, Forged(n)) /\ forge' = [forge EXCEPT ![n] = f]
    BY <1>7 DEF Broadcast, b, f
  <2>2. CASE ~Leading(n)
    <3>1. ~(LastSlot(b) < forge[n].slot)
      BY <1>4, <2>2 DEF Leading, b
    <3>2. LastSlot(f.base) >= f.slot
      BY <1>2, <1>3, <1>4, <3>1
    <3>3. ~InLaterSlot(Forged(n))
      BY <3>1, ForgedBlock DEF InLaterSlot, Quiet, b
    <3>4. \A x \in msgs' \ msgs : MessageFits(x)' /\ ~Carries(x)
      BY <1>5, <2>1, <3>3 DEF Carries
    <3>5. f.slot <= slot /\ f.slot = slot /\ f.phase # "ask" /\ LastSlot(f.base) \in Nat
      BY <1>2, <1>3, <1>4
    <3> QED
      BY <1>1, <1>3, <1>4, <2>1, <3>2, <3>4, <3>5, RoundStep
  <2>3. CASE Leading(n)
    <3>1. /\ forge' \in [Nodes -> MinerState] /\ forge'[n] = f
          /\ \A p \in Nodes \ {n} : forge'[p] = forge[p]
      BY <1>2, <1>3, <2>1
    <3>2. /\ \A p \in Nodes \ {n} : ~Leading(p)
          /\ Elected(b, slot) = n /\ Within(b, chain[n])
          /\ \A c \in Known : Len(c) <= Len(b) + 0
      BY <1>4, <2>3 DEF Quiet, LeaderIsAlone, b
    <3>3. /\ Forged(n) \in Chains /\ Forged(n)' = Forged(n) /\ Len(Forged(n)) = Len(b) + 1
          /\ Len(b) \in Nat
          /\ \A i \in 1 .. Len(b) : Forged(n)[i] = b[i]
          /\ Forged(n)[Len(b) + 1][1] = slot
          /\ Prefix(Forged(n), Len(Forged(n)) - 1) = b
      BY <1>1, <1>3, <1>4, <3>1, ForgedBlock DEF Quiet, Forged, b
    <3>4. /\ \A p \in Nodes \ {n} : ~Leading(p)' /\ ~Sending(p)'
          /\ Sent(n)' /\ Sending(n)' /\ forge'[n].base = b
      BY <1>3, <2>3, <3>1, <3>2 DEF Leading, Forging, Sending, Sent, b
    <3>5. ASSUME NEW c \in Known' PROVE c \in Known \/ c = Forged(n)
      <4>1. CASE c \in {chain'[p] : p \in Nodes}
        BY <1>1, <4>1 DEF Known
      <4>2. CASE c \in {m.chain : m \in {x \in msgs' : Carries(x)}}
        BY <1>5, <2>1, <4>2 DEF Known
      <4>3. CASE c \in {Forged(p) : p \in {q \in Nodes : Sending(q)}}'
        BY <3>3, <3>4, <4>3
      <4> QED
        BY <4>1, <4>2, <4>3 DEF Known
    <3>6. ASSUME NEW c \in Known
          PROVE  /\ Len(c) \in Nat /\ Len(c) <= Len(b)
                 /\ Agree(c, Forged(n)) /\ Agree(Forged(n), c)
      <4>1. c \in Chains /\ Agree(c, b) /\ Len(c) \in Nat /\ Len(c) <= Len(b) + 0
        BY <1>2, <1>7, <3>2 DEF Quiet, AllAgree, Chains
      <4>2. Agree(c, Forged(n))
        BY <3>3, <4>1 DEF Agree
      <4> QED
        BY <3>3, <4>1, <4>2, AgreeSymmetric
    <3>7. Agree(Forged(n), Forged(n))
      BY DEF Agree
    <3>8. AllAgree'
      BY <3>5, <3>6, <3>7 DEF Quiet, AllAgree
    <3>9. ASSUME NEW c \in Known' PROVE c \in Chains /\ \A i \in 1 .. Len(c) : c[i][1] <= slot
      <4>1. CASE c \in Known
        BY <4>1 DEF Quiet, Types
      <4>2. CASE c = Forged(n)
        <5>1. b \in Known
          BY <1>2, <1>7
        <5>2. \A i \in 1 .. Len(b) : b[i][1] <= slot
          BY <5>1 DEF Quiet, Types
        <5> SUFFICES ASSUME NEW i \in 1 .. Len(b) + 1 PROVE Forged(n)[i][1] <= slot
          BY <3>3, <4>2
        <5>3. CASE i = Len(b) + 1
          BY <1>2, <3>3, <5>3
        <5>4. CASE i # Len(b) + 1
          <6>1. i \in 1 .. Len(b)
            BY <3>3, <5>4
          <6> QED
            BY <3>3, <5>2, <6>1
        <5> QED
          BY <5>3, <5>4
      <4> QED
        BY <3>5, <4>1, <4>2
    <3>10. \A p \in Nodes : forge'[p].slot <= slot /\ (Forging(p)' => forge'[p].slot = slot)
      <4> SUFFICES ASSUME NEW p \in Nodes
                   PROVE  forge'[p].slot <= slot /\ (Forging(p)' => forge'[p].slot = slot)
        OBVIOUS
      <4>1. CASE p = n
        BY <1>2, <1>3, <1>4, <3>1, <4>1
      <4>2. CASE p # n
        BY <3>1, <4>2 DEF Quiet, Types, Forging
      <4> QED
        BY <4>1, <4>2
    <3>11. Types'
      BY <1>1, <3>1, <3>9, <3>10 DEF Quiet, Types
    <3>12. \A m \in msgs' : MessageFits(m)'
      <4>1. \A x \in msgs' \ msgs : MessageFits(x)'
        BY <1>5, <2>1
      <4>2. \A p \in Nodes : Within(chain[p], chain'[p])
        BY <1>1, <1>2, WithinSelf
      <4> QED
        BY <1>1, <1>2, <4>1, <4>2, MessagesFit
    <3>13. \A c \in Known' : Len(c) <= Len(b) + 1
      <4> SUFFICES ASSUME NEW c \in Known' PROVE Len(c) <= Len(b) + 1
        OBVIOUS
      <4>1. CASE c \in Known
        BY <3>3, <3>6, <4>1
      <4>2. CASE c = Forged(n)
        BY <3>3, <4>2
      <4> QED
        BY <3>5, <4>1, <4>2
    <3>14. LeaderIsAlone'
      BY <1>1, <3>2, <3>4, <3>13 DEF LeaderIsAlone
    <3>15. \A i \in Nat : i <= Len(b) + 1 => Reaches(n, i)'
      BY <3>4 DEF Reaches
    <3>16. SomebodyLeads'
      <4> SUFFICES ASSUME NEW c \in Known' PROVE \E p \in Nodes : Reaches(p, Len(c))'
        BY DEF SomebodyLeads
      <4>1. Len(c) <= Len(b) + 1 /\ Len(c) \in Nat
        BY <3>9, <3>13 DEF Chains
      <4> QED
        BY <3>15, <4>1
    <3>17. LeaderHasBlock'
      <4> SUFFICES ASSUME NEW c \in Known', NEW i \in 1 .. Len(c), NEW p \in Nodes,
                          c[i][1] = slot, Elected(Prefix(c, i - 1), slot) = p
                   PROVE  Reaches(p, i)'
        BY <1>1 DEF LeaderHasBlock
      <4>1. CASE c \in Known
        <5>1. Reaches(p, i) /\ i \in Nat
          BY <4>1 DEF Quiet, LeaderHasBlock
        <5>2. ~Sending(p)
          BY <1>4, <3>2 DEF Sending
        <5> QED
          BY <1>1, <5>1, <5>2 DEF Reaches
      <4>2. CASE c = Forged(n) /\ i = Len(b) + 1
        <5>1. i - 1 = Len(Forged(n)) - 1 /\ i \in Nat
          BY <3>3, <4>2
        <5>2. p = n
          BY <3>2, <3>3, <4>2, <5>1
        <5> QED
          BY <3>15, <4>2, <5>1, <5>2
      <4>3. CASE c = Forged(n) /\ i # Len(b) + 1
        <5>1. i \in 1 .. Len(b) /\ i \in Nat /\ i - 1 \in 0 .. Len(b)
          BY <3>3, <4>3
        <5>2. Within(b, c)
          BY <3>3, <4>3 DEF Within
        <5>3. Prefix(b, i - 1) = Prefix(c, i - 1)
          BY <1>3, <3>3, <4>3, <5>1, <5>2, PrefixWithin
        <5>4. b \in Known /\ b[i] = c[i]
          BY <1>2, <1>7, <3>3, <4>3, <5>1
        <5>5. Reaches(p, i)
          BY <5>1, <5>3, <5>4 DEF Quiet, LeaderHasBlock
        <5>6. ~Sending(p)
          BY <1>4, <3>2 DEF Sending
        <5> QED
          BY <1>1, <5>5, <5>6 DEF Reaches
      <4> QED
        BY <3>5, <4>1, <4>2, <4>3
    <3>18. HearsAll'
      <4> SUFFICES ASSUME NEW p \in Nodes, forge'[p].phase = "ask", forge'[p].slot = slot,
                          NEW c \in Known', NEW i \in 1 .. Len(c), c[i][1] < slot
                   PROVE  Hears(p, i)'
        BY <1>1 DEF HearsAll
      <4>1. p # n /\ forge'[p] = forge[p]
        BY <1>3, <3>1
      <4>2. \E d \in Known : i \in 1 .. Len(d) /\ d[i] = c[i]
        <5>1. CASE c \in Known
          BY <5>1
        <5>2. CASE c = Forged(n)
          <6>1. i # Len(b) + 1
            BY <1>2, <3>3, <5>2
          <6>2. i \in 1 .. Len(b)
            BY <3>3, <5>2, <6>1
          <6> QED
            BY <1>2, <1>7, <3>3, <5>2, <6>2
        <5> QED
          BY <3>5, <5>1, <5>2
      <4>3. Hears(p, i)
        BY <4>1, <4>2 DEF Quiet, HearsAll
      <4> QED
        BY <1>1, <4>1, <4>3 DEF Hears
    <3> QED
      BY <3>8, <3>11, <3>12, <3>14, <3>16, <3>17, <3>18 DEF Quiet
  <2> QED
    BY <2>2, <2>3
<1> QED
  BY <1>6, <1>7

\* A leader's own block, or its tip, is the end of the line
LEMMA AddOwnBlockStep ==
  ASSUME Quiet, NEW n \in Nodes, AddOwnBlock(n)
  PROVE  Quiet'
<1> DEFINE b == forge[n].base
<1>1. /\ UNCHANGED <<life, msgs, slot, cut>> /\ forge[n].phase = "sent"
      /\ forge' = [forge EXCEPT ![n] = Idle]
      /\ chain' = IF Continues(Forged(n), chain[n]) THEN [chain EXCEPT ![n] = Forged(n)] ELSE chain
  BY DEF AddOwnBlock, world
<1>2. /\ chain \in [Nodes -> Chains] /\ Known \subseteq Chains /\ slot \in Nat
      /\ forge \in [Nodes -> MinerState] /\ \A p \in Nodes : chain[p] \in Known
  BY DEF Quiet, Types, Known
<1>3. /\ b \in Chains /\ Forged(n) \in Chains /\ Len(b) \in Nat /\ Len(Forged(n)) = Len(b) + 1
      /\ LastSlot(Forged(n)) = forge[n].slot /\ Forged(n) # <<>>
      /\ Prefix(Forged(n), Len(Forged(n)) - 1) = b
      /\ LastSlot(b) \in Nat /\ forge[n].slot \in Nat
  BY ForgedBlock, LastSlotNat DEF Quiet
<1>4. Sent(n) /\ Forging(n)
  BY <1>1 DEF Sent, Forging
<1>5. Continues(Forged(n), chain[n]) <=> chain[n] = b /\ Leading(n)
  BY <1>3, <1>4 DEF Continues, Leading
<1>6. /\ forge' \in [Nodes -> MinerState] /\ forge'[n] = Idle
      /\ \A p \in Nodes \ {n} : forge'[p] = forge[p]
  BY <1>1, <1>2, IdleState
<1> HIDE DEF b
<1>7. CASE ~Leading(n)
  <2>1. chain' = chain /\ ~Sending(n)
    BY <1>1, <1>5, <1>7 DEF Sending
  <2>2. Idle.phase \notin {"ask", "wait", "sent"} /\ Idle.slot <= slot /\ LastSlot(Idle.base) \in Nat
    <3>1. Idle.base \in Chains
      BY IdleState DEF MinerState
    <3> QED
      BY <1>2, <3>1, IdleState, LastSlotNat
  <2> QED
    BY <1>1, <2>1, <2>2, IdleState, RoundStep
<1>8. CASE Leading(n)
  <2>1. Sending(n) /\ Forged(n) \in Known
    BY <1>4, <1>8 DEF Sending, Known
  <2>2. /\ \A p \in Nodes \ {n} : ~Leading(p)
        /\ Within(b, chain[n]) /\ \A c \in Known : Len(c) <= Len(b) + 1
    BY <1>4, <1>8 DEF Quiet, LeaderIsAlone, b
  <2>3. chain' \in [Nodes -> Chains] /\ \A p \in Nodes : chain'[p] \in Known
    BY <1>1, <1>2, <1>3, <2>1
  <2>4. Len(b) + 1 <= Len(chain'[n])
    <3>1. CASE chain[n] = b
      BY <1>1, <1>2, <1>3, <1>5, <1>8, <3>1
    <3>2. CASE chain[n] # b
      <4>1. Len(b) <= Len(chain[n]) /\ Agree(b, chain[n]) /\ chain[n] \in Chains
        BY <1>2, <2>2 DEF Within, Agree
      <4>2. Len(b) # Len(chain[n])
        BY <1>3, <3>2, <4>1, AgreeEqual
      <4>3. Len(chain[n]) \in Nat /\ chain' = chain
        BY <1>1, <1>5, <3>2, <4>1 DEF Chains
      <4> QED
        BY <1>3, <4>1, <4>2, <4>3
    <3> QED
      BY <3>1, <3>2
  <2>5. ASSUME NEW p \in Nodes PROVE Within(chain[p], chain'[p])
    <3>1. CASE chain'[p] = chain[p]
      BY <1>2, <3>1, WithinSelf
    <3>2. CASE chain'[p] # chain[p]
      <4>1. p = n /\ chain'[n] = Forged(n)
        BY <1>1, <1>2, <3>2
      <4>2. Len(chain[n]) <= Len(Forged(n))
        BY <1>2, <1>3, <2>2
      <4> QED
        BY <1>2, <2>1, <4>1, <4>2, OnLine
    <3> QED
      BY <3>1, <3>2
  <2>6. /\ ~Leading(n)' /\ ~Sending(n)'
        /\ \A p \in Nodes \ {n} : ~Leading(p)' /\ ~Sending(p)' /\ ~Sending(p)
    BY <1>6, <2>2, IdleState DEF Leading, Forging, Sending
  <2>7. Known' \subseteq Known
    <3> SUFFICES ASSUME NEW c \in Known' PROVE c \in Known
      OBVIOUS
    <3>1. CASE c \in {chain'[p] : p \in Nodes}
      BY <2>3, <3>1
    <3>2. CASE c \in {m.chain : m \in {x \in msgs' : Carries(x)}}
      BY <1>1, <3>2 DEF Known
    <3> QED
      BY <2>6, <3>1, <3>2 DEF Known
  <2>8. \A c \in Known' : c \in Chains /\ \E d \in Known : Within(c, d)
    BY <1>2, <2>7, WithinSelf
  <2>9. \A p \in Nodes : forge'[p].slot <= slot /\ (Forging(p)' => forge'[p].slot = slot)
    <3> SUFFICES ASSUME NEW p \in Nodes
                 PROVE  forge'[p].slot <= slot /\ (Forging(p)' => forge'[p].slot = slot)
      OBVIOUS
    <3>1. CASE p = n
      BY <1>2, <1>6, <3>1, IdleState DEF Forging
    <3>2. CASE p # n
      BY <1>6, <3>2 DEF Quiet, Types, Forging
    <3> QED
      BY <3>1, <3>2
  <2>10. ASSUME NEW p \in Nodes, NEW i \in Nat, Reaches(p, i) PROVE Reaches(p, i)'
    <3>1. Len(chain[p]) \in Nat /\ Len(chain'[p]) \in Nat /\ Len(chain[p]) <= Len(chain'[p])
      BY <1>2, <2>3, <2>5 DEF Chains, Within
    <3>2. CASE i <= Len(chain[p])
      BY <3>1, <3>2 DEF Reaches
    <3>3. CASE Sending(p) /\ i <= Len(forge[p].base) + 1
      <4>1. p = n
        BY <2>6, <3>3
      <4> QED
        BY <1>3, <2>4, <3>1, <3>3, <4>1 DEF Reaches, b
    <3> QED
      BY <2>10, <3>2, <3>3 DEF Reaches
  <2>11. Types' /\ AllAgree' /\ SomebodyLeads' /\ LeaderHasBlock'
    BY <1>1, <1>6, <2>3, <2>8, <2>9, <2>10, LineKept
  <2>12. LeaderIsAlone'
    <3>1. \A p \in Nodes : Leading(p)' =>
            Leading(p) /\ forge'[p].base = forge[p].base /\ (Sent(p)' <=> Sent(p))
      BY <2>6
    <3> QED
      BY <1>1, <2>3, <2>5, <2>8, <3>1, LeaderKept
  <2>13. HearsAll'
    <3>1. \A p \in Nodes : forge'[p].phase = "ask" => forge'[p] = forge[p]
      BY <1>6, IdleState
    <3> QED
      BY <1>1, <2>3, <2>5, <2>8, <3>1, RoundKept
  <2>14. \A m \in msgs' : MessageFits(m)'
    BY <1>1, <2>3, <2>5, MessagesFit
  <2> QED
    BY <2>11, <2>12, <2>13, <2>14 DEF Quiet
<1> QED
  BY <1>7, <1>8

\* Where a slot ends before a block that is forged in it, the history says so
LEMMA NextSlotStep ==
  ASSUME Quiet, ~overran', NextSlot
  PROVE  Quiet'
<1>1. /\ UNCHANGED <<chain, life, msgs, forge, cut>> /\ slot' = slot + 1
      /\ \A n \in Nodes : ~Forging(n)
  BY DEF NextSlot, node, miner
<1>2. \A n \in Nodes : ~Sending(n) /\ ~Sending(n)' /\ ~Leading(n)' /\ ~Forging(n)'
  BY <1>1 DEF Sending, Leading, Forging
<1>3. Known' \subseteq Known
  BY <1>1, <1>2 DEF Known
<1>4. /\ \A n \in Nodes : forge[n].slot <= slot /\ forge[n].slot \in Nat
      /\ \A c \in Known : \A i \in 1 .. Len(c) : c[i][1] <= slot
      /\ slot \in Nat /\ Known \subseteq Chains /\ forge \in [Nodes -> MinerState]
  BY DEF Quiet, Types, MinerState
<1>5. ASSUME NEW c \in Known', NEW i \in 1 .. Len(c)
      PROVE  c[i][1] <= slot' /\ c[i][1] # slot'
  <2>1. c[i][1] <= slot /\ c \in Chains
    BY <1>3, <1>4
  <2>2. c[i][1] \in Nat
    BY <2>1 DEF Chains
  <2> QED
    BY <1>1, <1>4, <2>1, <2>2
<1>6. Types'
  <2>1. \A n \in Nodes : forge[n].slot <= slot' /\ forge[n].slot # slot'
    BY <1>1, <1>4
  <2> QED
    BY <1>1, <1>2, <1>3, <1>4, <1>5, <2>1 DEF Quiet, Types
<1>7. AllAgree' /\ LeaderIsAlone' /\ \A m \in msgs' : MessageFits(m)'
  BY <1>1, <1>2, <1>3 DEF Quiet, AllAgree, LeaderIsAlone, MessageFits
<1>8. SomebodyLeads'
  BY <1>1, <1>2, <1>3 DEF Quiet, SomebodyLeads, Reaches
<1>9. LeaderHasBlock'
  BY <1>5 DEF LeaderHasBlock
<1>10. HearsAll'
  <2>1. \A n \in Nodes : forge'[n].slot # slot'
    BY <1>1, <1>4
  <2> QED
    BY <2>1 DEF HearsAll
<1> QED
  BY <1>6, <1>7, <1>8, <1>9, <1>10 DEF Quiet

------------------------------------------------------------------------
(* The result                                                            *)

LEMMA InitQuiet ==
  ASSUME StartsAgree, Init
  PROVE  faults \in Nat /\ Quiet
<1>1. /\ chain \in StartChains /\ slot \in 1 .. MaxSlot
      /\ \A n \in Nodes : LastSlot(chain[n]) <= slot
      /\ msgs = {} /\ cut = {} /\ life = [n \in Nodes |-> 0] /\ faults = 0
      /\ forge = [n \in Nodes |-> Idle]
  BY DEF Init
<1>2. /\ chain \in [Nodes -> Chains] /\ \A m, n \in Nodes : Agree(chain[m], chain[n])
      /\ \A n \in Nodes : \A i \in 1 .. Len(chain[n]) :
           /\ chain[n][i][1] <= LastSlot(chain[n])
           /\ \A p \in Nodes : Elected(Prefix(chain[n], i - 1), chain[n][i][1]) = p => i <= Len(chain[p])
  BY <1>1 DEF StartsAgree
<1>3. \A n \in Nodes : /\ forge[n].phase = "idle" /\ ~Forging(n) /\ ~Leading(n) /\ ~Sending(n)
                      /\ forge[n].slot = 0
  BY <1>1, IdleState DEF Forging, Leading, Sending
<1>4. Known = {chain[n] : n \in Nodes}
  BY <1>1, <1>3 DEF Known
<1>5. slot \in Nat /\ 0 <= slot
  BY <1>1, SyncConstants DEF SyncConstants
<1>6. \A c \in Known : \A i \in 1 .. Len(c) : c[i][1] <= slot
  <2> SUFFICES ASSUME NEW n \in Nodes, NEW i \in 1 .. Len(chain[n]) PROVE chain[n][i][1] <= slot
    BY <1>4
  <2>1. chain[n] \in Chains
    BY <1>2
  <2>2. LastSlot(chain[n]) \in Nat /\ chain[n][i][1] \in Nat
    BY <2>1, LastSlotNat DEF Chains
  <2> QED
    BY <1>1, <1>2, <1>5, <2>2
<1>7. Types
  <2>1. forge \in [Nodes -> MinerState] /\ life \in [Nodes -> Nat]
    BY <1>1, IdleState
  <2> QED
    BY <1>1, <1>2, <1>3, <1>4, <1>5, <1>6, <2>1 DEF Types
<1>8. AllAgree /\ LeaderIsAlone /\ HearsAll /\ \A m \in msgs : MessageFits(m)
  BY <1>1, <1>2, <1>3, <1>4 DEF AllAgree, LeaderIsAlone, HearsAll
<1>9. SomebodyLeads
  <2>1. \A n \in Nodes : Len(chain[n]) <= Len(chain[n])
    BY <1>2 DEF Chains
  <2> QED
    BY <1>4, <2>1 DEF SomebodyLeads, Reaches
<1>10. LeaderHasBlock
  BY <1>2, <1>4 DEF LeaderHasBlock, Reaches
<1> QED
  BY <1>1, <1>7, <1>8, <1>9, <1>10 DEF Quiet

\* Faults are counted, and the history is never taken back
LEMMA HistoryStays ==
  ASSUME faults \in Nat, [Next]_vars
  PROVE  faults' \in Nat /\ faults <= faults' /\ (overran => overran')
<1> DEFINE Goal == faults' \in Nat /\ faults <= faults' /\ (overran => overran')
<1>0. ASSUME UNCHANGED overran \/ (overran => overran'), faults' = faults \/ faults' = faults + 1
      PROVE  Goal
  BY <1>0
<1>1. ASSUME NEW n \in Nodes, NEW kind \in Kinds, Receive(n, kind) PROVE Goal
  <2>1. UNCHANGED <<faults, overran>>
    BY <1>1 DEF Receive, OnRequestChainSync, OnRequestFullChain, OnChainSegment, OnNewBlock,
                OnFullChain, world
  <2> QED
    BY <1>0, <2>1
<1>2. ASSUME NEW n \in Nodes, \/ RequestSync(n) \/ SyncEnds(n) \/ BeginRound(n)
                              \/ Broadcast(n) \/ AddOwnBlock(n) \/ Started(n)
      PROVE  Goal
  <2>1. UNCHANGED <<faults, overran>>
    BY <1>2 DEF RequestSync, SyncEnds, BeginRound, Broadcast, AddOwnBlock, Started, world
  <2> QED
    BY <1>0, <2>1
<1>3. ASSUME NEW n \in Nodes, AskPeer(n) \/ Start(n) \/ Restart(n)
      PROVE  Goal
  <2>1. CASE AskPeer(n)
    BY <1>0, <2>1 DEF AskPeer, Hear, HearNothing
  <2>2. CASE Start(n)
    <3>1. \E S \in SUBSET Nodes : Answers(n, S)
      BY <2>2 DEF Start
    <3>2. UNCHANGED overran
      BY <2>2 DEF Start
    <3> QED
      BY <1>0, <3>1, <3>2 DEF Answers
  <2>3. CASE Restart(n)
    BY <1>0, <2>3 DEF Restart
  <2> QED
    BY <1>3, <2>1, <2>2, <2>3
<1>4. ASSUME NEW n \in Nodes, Elect(n) PROVE Goal
  <2>1. UNCHANGED faults /\ (overran => overran')
    BY <1>4 DEF Elect
  <2> QED
    BY <1>0, <2>1
<1>5. ASSUME NextSlot \/ Split \/ Heal PROVE Goal
  BY <1>0, <1>5 DEF NextSlot, Split, Heal
<1>6. ASSUME UNCHANGED vars PROVE Goal
  <2>1. UNCHANGED <<faults, overran>>
    BY <1>6 DEF vars, world
  <2> QED
    BY <1>0, <2>1
<1> HIDE DEF Goal
<1>7. ASSUME NEW n \in Nodes, \/ \E kind \in Kinds : Receive(n, kind)
                              \/ RequestSync(n) \/ SyncEnds(n) \/ BeginRound(n)
                              \/ Finish(n) \/ Restart(n)
      PROVE  Goal
  BY <1>1, <1>2, <1>3, <1>4, <1>7, Zenon DEF Finish
<1>8. Goal
  BY <1>5, <1>6, <1>7, Zenon DEF Next
<1> QED
  BY <1>8 DEF Goal

\* The invariant holds initially and every step without a fault and in time keeps it
THEOREM Inductive ==
  ASSUME StartsAgree, AllAreAsked
  PROVE  Spec => []IInv
<1>1. Init => IInv
  BY InitQuiet DEF IInv
<1>2. IInv /\ [Next]_vars => IInv'
  <2> SUFFICES ASSUME IInv, [Next]_vars PROVE IInv'
    OBVIOUS
  <2>1. faults' \in Nat /\ faults \in Nat /\ faults <= faults' /\ (overran => overran')
    BY HistoryStays DEF IInv
  <2> SUFFICES ASSUME faults = 0, faults' = 0, ~overran', Quiet PROVE Quiet'
    BY <2>1 DEF IInv
  <2>2. CASE UNCHANGED vars
    <3>1. UNCHANGED <<chain, forge, life, msgs, cut, slot>>
      BY <2>2 DEF vars, node, miner, world
    <3>2. \A n \in Nodes : /\ (Sent(n)' <=> Sent(n)) /\ (Forging(n)' <=> Forging(n))
                          /\ (Leading(n)' <=> Leading(n)) /\ (Sending(n)' <=> Sending(n))
                          /\ Forged(n)' = Forged(n)
      BY <3>1 DEF Sent, Sending, Leading, Forging, Forged
    <3>3. Known' = Known
      BY <3>1, <3>2 DEF Known
    <3>4. Types' /\ AllAgree' /\ HearsAll'
      BY <3>1, <3>2, <3>3 DEF Quiet, Types, AllAgree, HearsAll, Hears
    <3>5. LeaderIsAlone' /\ SomebodyLeads' /\ LeaderHasBlock'
      BY <3>1, <3>2, <3>3 DEF Quiet, LeaderIsAlone, SomebodyLeads, LeaderHasBlock, Reaches
    <3>6. \A m \in msgs' : MessageFits(m)'
      BY <3>1 DEF Quiet, MessageFits
    <3> QED
      BY <3>4, <3>5, <3>6 DEF Quiet
  <2>3. CASE \E n \in Nodes : \/ \E kind \in Kinds : Receive(n, kind)
                             \/ RequestSync(n) \/ SyncEnds(n)
    BY <2>3, ReceiveStep, RequestStep
  <2>4. CASE \E n \in Nodes : BeginRound(n) \/ AskPeer(n) \/ Elect(n)
    BY <2>4, BeginStep, AskStep, ElectStep
  <2>5. CASE \E n \in Nodes : Broadcast(n) \/ AddOwnBlock(n)
    BY <2>5, BroadcastStep, AddOwnBlockStep
  <2>6. CASE \E n \in Nodes : Start(n) \/ Started(n)
    <3>1. PICK n \in Nodes : forge[n].phase \in {"boot", "await"}
      BY <2>6 DEF Start, Started
    <3> QED
      BY <3>1 DEF Quiet, Types, MinerState
  <2>7. CASE Split \/ Heal \/ \E n \in Nodes : Restart(n)
    BY <2>7 DEF Split, Heal, Restart, Quiet, Types
  <2>8. CASE NextSlot
    BY <2>8, NextSlotStep
  <2> QED
    BY <2>2, <2>3, <2>4, <2>5, <2>6, <2>7, <2>8 DEF Next, Finish
<1> QED
  BY <1>1, <1>2, PTL DEF Spec

\* However late blocks and segments arrive and whichever rounds a slot interrupts, as long as
\* peers answer when they are asked for their height, no link is cut, nobody restarts and no
\* block is forged past the end of its slot, any two chains are one the prefix of the other
\* (miner.py:288-344, 449-453, 516-521, chain.py:362-366). All peers are asked: with more than
\* three others miner.py:306 leaves some out.
THEOREM NoForkWithoutFault ==
  ASSUME StartsAgree, AllAreAsked
  PROVE  Spec => []ForksNeedFaults
<1>1. IInv => ForksNeedFaults
  <2> SUFFICES ASSUME IInv, faults = 0, ~overran, NEW m \in Nodes, NEW n \in Nodes
               PROVE  OneLine(chain[m], chain[n])
    BY DEF ForksNeedFaults
  <2>1. chain[m] \in Chains /\ chain[n] \in Chains /\ Agree(chain[m], chain[n])
    <3>1. Quiet
      BY DEF IInv
    <3>2. chain[m] \in Known /\ chain[n] \in Known
      BY DEF Known
    <3> QED
      BY <3>1, <3>2 DEF Quiet, Types, AllAgree
  <2> QED
    BY <2>1, SharedIsAll DEF OneLine
<1> QED
  BY <1>1, Inductive, PTL

------------------------------------------------------------------------
(* The types, whatever faults there are                                  *)

Blocks == (1 .. MaxSlot) \X (0 .. MaxFaults)

\* A chain of at most one block per slot, none of them later than slot s
Ascends(c, s) ==
  /\ c \in Seq(Blocks)
  /\ \A i \in 1 .. Len(c) :
       /\ i <= c[i][1] /\ c[i][1] <= s
       /\ \A j \in 1 .. Len(c) : i < j => c[i][1] < c[j][1]

\* The nodes begin with chains of that kind
StartsAscend ==
  \A c \in StartChains : c \in [Nodes -> Seq(Blocks)] /\ \A n \in Nodes : Ascends(c[n], MaxSlot)

Phases == {"idle", "ask", "wait", "sent", "boot", "await"}
InRound == {"ask", "wait", "sent"}

\* What a message may be in slot s. A new block may be of the slot of its parent or of an
\* earlier one: nobody adds it then.
Shaped(m, s) ==
  /\ m.to \in Nodes /\ m.type \in Kinds
  /\ m.type \in {"REQUEST_CHAIN_SYNC", "REQUEST_FULL_CHAIN"} => m.from \in Nodes
  /\ m.type = "REQUEST_CHAIN_SYNC" => m.last \in Nat
  /\ m.type = "CHAIN_SEGMENT" => m.height \in 0 .. MaxSlot
  /\ m.type \in {"CHAIN_SEGMENT", "FULL_CHAIN"} => Ascends(m.chain, s)
  /\ m.type = "NEW_BLOCK" => m.chain \in Seq(Blocks) /\ LastSlot(m.chain) <= s

NodeRanges ==
  /\ chain \in [Nodes -> Seq(Blocks)] /\ (\A n \in Nodes : Ascends(chain[n], slot))
  /\ syncing \in [Nodes -> BOOLEAN]
  /\ target \in [Nodes -> 0 .. MaxSlot]
  /\ safety \in [Nodes -> 0 .. MaxSafety]

MinerShape == [phase : Phases, slot : 0 .. MaxSlot, base : Seq(Blocks), left : SUBSET Nodes,
               goal : 0 .. MaxSlot, forked : BOOLEAN]

\* What the round f of a node may be in slot s: of no later slot, on a chain of its time
RoundFits(n, f, s) ==
  /\ f.slot <= s
  /\ IF f.phase \in InRound THEN Ascends(f.base, s) /\ f.slot > 0 ELSE f.base = <<>>
  /\ n \notin f.left /\ (f.left # {} => f.phase = "ask")

MinerRanges ==
  /\ forge \in [Nodes -> MinerShape]
  /\ \A n \in Nodes : RoundFits(n, forge[n], slot)
  /\ mined \in [Nodes -> 0 .. MaxSlot]
  /\ life \in [Nodes -> 0 .. MaxFaults] /\ \A n \in Nodes : life[n] <= faults

WorldRanges ==
  /\ cut \subseteq Nodes /\ slot \in 1 .. MaxSlot
  /\ faults \in Nat /\ late \in Nat /\ faults + late <= MaxFaults
  /\ overran \in BOOLEAN

Ranges ==
  /\ NodeRanges /\ MinerRanges /\ WorldRanges
  /\ \A m \in msgs : Shaped(m, slot)

LEMMA AscendsLater ==
  ASSUME NEW s \in Int, NEW t \in Int, s <= t, NEW c, Ascends(c, s)
  PROVE  Ascends(c, t)
<1>1. \A i \in 1 .. Len(c) : c[i][1] \in Int
  BY DEF Ascends, Blocks
<1> QED
  BY <1>1 DEF Ascends

LEMMA AscendsShort ==
  ASSUME NEW s \in 0 .. MaxSlot, NEW c, Ascends(c, s)
  PROVE  Len(c) \in 0 .. MaxSlot
<1>1. c \in Seq(Blocks) /\ Len(c) \in Nat /\ MaxSlot \in Nat
  BY SyncConstants DEF Ascends, SyncConstants
<1>2. CASE Len(c) = 0
  BY <1>1, <1>2
<1>3. CASE Len(c) # 0
  <2>1. Len(c) \in 1 .. Len(c)
    BY <1>1, <1>3
  <2>2. Len(c) <= c[Len(c)][1] /\ c[Len(c)][1] <= s /\ c[Len(c)] \in Blocks
    BY <1>1, <2>1 DEF Ascends
  <2> QED
    BY <1>1, <2>2 DEF Blocks
<1> QED
  BY <1>2, <1>3

LEMMA AscendsEmpty ==
  ASSUME NEW s
  PROVE  Ascends(<<>>, s)
BY DEF Ascends

LEMMA AscendsPrefix ==
  ASSUME NEW s, NEW c, Ascends(c, s), NEW k \in 0 .. Len(c)
  PROVE  Ascends(Prefix(c, k), s)
<1>1. c \in Seq(Blocks) /\ Len(c) \in Nat
  BY DEF Ascends
<1>2. /\ Prefix(c, k) \in Seq(Blocks) /\ Len(Prefix(c, k)) = k
      /\ \A j \in 1 .. k : Prefix(c, k)[j] = c[j]
  BY <1>1 DEF Prefix
<1> QED
  BY <1>1, <1>2 DEF Ascends

\* A block that continues a chain, and is not of a later slot than s
LEMMA AscendsOn ==
  ASSUME NEW s \in 1 .. MaxSlot, NEW c, NEW d \in Seq(Blocks), Ascends(c, s),
         Continues(d, c), LastSlot(d) <= s
  PROVE  Ascends(d, s)
<1> DEFINE k == Len(c)
<1>1. c \in Seq(Blocks) /\ k \in Nat /\ MaxSlot \in Nat /\ s \in Nat /\ Len(d) \in Nat
  BY SyncConstants DEF Ascends, SyncConstants
<1>2. d # <<>> /\ Prefix(d, Len(d) - 1) = c /\ LastSlot(d) > LastSlot(c)
  BY DEF Continues
<1>3. Len(d) = k + 1 /\ \A i \in 1 .. k : d[i] = c[i]
  <2>1. Len(d) - 1 \in 0 .. Len(d)
    BY <1>1, <1>2
  <2>2. ASSUME NEW j \in 0 .. Len(d)
        PROVE  Len(Prefix(d, j)) = j /\ \A i \in 1 .. j : Prefix(d, j)[i] = d[i]
    BY <1>1 DEF Prefix
  <2>3. Len(d) - 1 = k
    BY <1>2, <2>1, <2>2
  <2> QED
    BY <1>1, <1>2, <2>1, <2>2, <2>3
<1>4. d[k + 1] \in Blocks /\ d[k + 1][1] = LastSlot(d)
  BY <1>1, <1>2, <1>3 DEF LastSlot
<1>5. ASSUME NEW i \in 1 .. k
      PROVE  /\ d[i][1] = c[i][1] /\ c[i][1] \in Nat /\ i <= c[i][1] /\ c[i][1] <= s
             /\ \A j \in 1 .. k : i < j => c[i][1] < c[j][1]
  <2>1. c[i] \in Blocks /\ d[i] = c[i]
    BY <1>1, <1>3
  <2>2. c[i][1] \in Nat
    BY <1>1, <2>1 DEF Blocks
  <2> QED
    BY <2>1, <2>2 DEF Ascends
<1>6. d[k + 1][1] \in 1 .. MaxSlot /\ d[k + 1][1] <= s
  BY <1>4 DEF Blocks
<1>7. ASSUME NEW i \in 1 .. k PROVE c[i][1] < d[k + 1][1]
  <2>1. k \in 1 .. k /\ c # <<>> /\ c[k][1] \in Nat
    BY <1>1, <1>5
  <2>2. c[k][1] = LastSlot(c)
    BY <2>1 DEF LastSlot
  <2>3. i = k \/ c[i][1] < c[k][1]
    BY <1>1, <1>5, <2>1
  <2> QED
    BY <1>1, <1>2, <1>4, <1>5, <1>6, <2>1, <2>2, <2>3
<1>8. k + 1 <= d[k + 1][1]
  <2>1. CASE k = 0
    BY <1>1, <1>6, <2>1
  <2>2. CASE k # 0
    <3>1. k \in 1 .. k
      BY <1>1, <2>2
    <3>2. k <= c[k][1] /\ c[k][1] < d[k + 1][1] /\ c[k][1] \in Nat
      BY <1>5, <1>7, <3>1
    <3> QED
      BY <1>1, <1>6, <3>2
  <2> QED
    BY <2>1, <2>2
<1> HIDE DEF k
<1>9. ASSUME NEW i \in 1 .. k + 1
      PROVE  /\ i <= d[i][1] /\ d[i][1] <= s
             /\ \A j \in 1 .. k + 1 : i < j => d[i][1] < d[j][1]
  <2>1. CASE i = k + 1
    BY <1>1, <1>6, <1>8, <2>1
  <2>2. CASE i # k + 1
    <3>1. i \in 1 .. k
      BY <1>1, <2>2
    <3>2. ASSUME NEW j \in 1 .. k + 1, i < j PROVE d[i][1] < d[j][1]
      <4>1. CASE j = k + 1
        BY <1>5, <1>7, <3>1, <4>1
      <4>2. CASE j # k + 1
        <5>1. j \in 1 .. k
          BY <1>1, <4>2
        <5>2. d[i][1] = c[i][1] /\ d[j][1] = c[j][1] /\ c[i][1] < c[j][1]
          BY <1>5, <3>1, <3>2, <5>1
        <5> QED
          BY <5>2
      <4> QED
        BY <4>1, <4>2
    <3>3. i <= d[i][1] /\ d[i][1] <= s
      BY <1>5, <3>1
    <3> QED
      BY <3>2, <3>3
  <2> QED
    BY <2>1, <2>2
<1> QED
  BY <1>3, <1>9 DEF Ascends

\* What two chains have in common is no longer than the first
LEMMA SharedRange ==
  ASSUME NEW c, NEW d, Len(c) \in Nat
  PROVE  Shared(c, d) \in 0 .. Len(c)
<1> DEFINE S == {i \in 1 .. Len(c) : i <= Len(d) /\ Prefix(c, i) = Prefix(d, i)}
<1>1. IsFiniteSet(1 .. Len(c)) /\ Cardinality(1 .. Len(c)) = Len(c)
  <2> DEFINE k == Len(c)
  <2>1. k \in Nat /\ 1 \in Int /\ k \in Int
    OBVIOUS
  <2> HIDE DEF k
  <2>2. IsFiniteSet(1 .. k) /\ Cardinality(1 .. k) = IF 1 > k THEN 0 ELSE k - 1 + 1
    BY <2>1, FS_Interval, Zenon
  <2>3. Cardinality(1 .. k) = k
    BY <2>1, <2>2
  <2> QED
    BY <2>2, <2>3 DEF k
<1>2. S \subseteq 1 .. Len(c)
  OBVIOUS
<1> HIDE DEF S
<1>3. IsFiniteSet(S) /\ Cardinality(S) <= Cardinality(1 .. Len(c))
  BY <1>1, <1>2, FS_Subset
<1>4. Cardinality(S) \in Nat
  BY <1>3, FS_CardinalityType
<1>5. Cardinality(S) \in 0 .. Len(c)
  BY <1>1, <1>3, <1>4
<1> QED
  BY <1>5 DEF S, Shared

------------------------------------------------------------------------

LEMMA RangesUsed ==
  ASSUME Ranges, NEW n \in Nodes
  PROVE  /\ Ascends(chain[n], slot) /\ Len(chain[n]) \in 0 .. MaxSlot
         /\ chain[n] \in Seq(Blocks) /\ slot \in 1 .. MaxSlot /\ MaxSlot \in Nat
<1>1. Ascends(chain[n], slot) /\ slot \in 1 .. MaxSlot /\ MaxSlot \in Nat
  BY SyncConstants DEF Ranges, NodeRanges, WorldRanges, SyncConstants
<1>2. slot \in 0 .. MaxSlot
  BY <1>1
<1> QED
  BY <1>1, <1>2, AscendsShort DEF Ascends

\* A handler of a node leaves the miner and the world alone
LEMMA NodeStep ==
  ASSUME Ranges, UNCHANGED <<miner, world>>,
         NEW n \in Nodes, NEW c, NEW b \in BOOLEAN, NEW h \in 0 .. MaxSlot, NEW k \in 0 .. MaxSafety,
         Ascends(c, slot),
         chain' = [chain EXCEPT ![n] = c], syncing' = [syncing EXCEPT ![n] = b],
         target' = [target EXCEPT ![n] = h], safety' = [safety EXCEPT ![n] = k],
         \A x \in msgs' \ msgs : Shaped(x, slot)
  PROVE  Ranges'
<1>1. UNCHANGED <<forge, mined, life, cut, slot, faults, late, overran>>
  BY DEF miner, world
<1>2. MinerRanges' /\ WorldRanges'
  BY <1>1 DEF Ranges, MinerRanges, WorldRanges
<1>3. c \in Seq(Blocks)
  BY DEF Ascends
<1>4. NodeRanges'
  <2>1. NodeRanges
    BY DEF Ranges
  <2>2. chain' \in [Nodes -> Seq(Blocks)] /\ \A p \in Nodes : Ascends(chain'[p], slot)
    BY <1>3, <2>1 DEF NodeRanges
  <2>3. /\ syncing' \in [Nodes -> BOOLEAN]
        /\ target' \in [Nodes -> 0 .. MaxSlot]
        /\ safety' \in [Nodes -> 0 .. MaxSafety]
    BY <2>1 DEF NodeRanges
  <2> QED
    BY <1>1, <2>2, <2>3 DEF NodeRanges
<1>5. \A m \in msgs' : Shaped(m, slot')
  BY <1>1 DEF Ranges
<1> QED
  BY <1>2, <1>4, <1>5 DEF Ranges

\* What a node is without a change
LEMMA NodeStays ==
  ASSUME NodeRanges, NEW n \in Nodes
  PROVE  /\ chain = [chain EXCEPT ![n] = chain[n]]
         /\ syncing = [syncing EXCEPT ![n] = syncing[n]] /\ syncing[n] \in BOOLEAN
         /\ target = [target EXCEPT ![n] = target[n]] /\ target[n] \in 0 .. MaxSlot
         /\ safety = [safety EXCEPT ![n] = safety[n]] /\ safety[n] \in 0 .. MaxSafety
BY DEF NodeRanges

LEMMA RequestsShaped ==
  ASSUME NEW n \in Nodes, NEW c, Len(c) \in Nat, NEW x, NEW s,
         x \in ChainRequests(n, c) \/ x \in FullRequests(n)
  PROVE  Shaped(x, s)
<1>1. CASE x \in ChainRequests(n, c)
  <2>1. PICK p \in Asked(n, c) :
          x = [type |-> "REQUEST_CHAIN_SYNC", from |-> n, to |-> p, last |-> Len(c)]
    BY <1>1 DEF ChainRequests
  <2>2. p \in Nodes
    BY DEF Asked, Reach
  <2> QED
    BY <2>1, <2>2 DEF Shaped, Kinds, Gossip
<1>2. CASE x \in FullRequests(n)
  <2>1. PICK p \in Reach(n) : x = [type |-> "REQUEST_FULL_CHAIN", from |-> n, to |-> p]
    BY <1>2 DEF FullRequests
  <2>2. p \in Nodes
    BY DEF Reach
  <2> QED
    BY <2>1, <2>2 DEF Shaped, Kinds, Gossip
<1> QED
  BY <1>1, <1>2

LEMMA ServeShapes ==
  ASSUME Ranges, NEW n \in Nodes, NEW m \in msgs, OnRequestChainSync(n, m) \/ OnRequestFullChain(n, m)
  PROVE  Ranges'
<1>1. UNCHANGED <<node, miner, world>>
  BY DEF OnRequestChainSync, OnRequestFullChain
<1>2. Ascends(chain[n], slot) /\ Len(chain[n]) \in 0 .. MaxSlot /\ Shaped(m, slot)
  BY RangesUsed DEF Ranges
<1>3. ASSUME NEW x \in msgs' \ msgs PROVE Shaped(x, slot)
  <2>1. CASE OnRequestChainSync(n, m)
    <3>1. x = Segment(n, m) /\ m.type = "REQUEST_CHAIN_SYNC"
      BY <2>1 DEF OnRequestChainSync, Handled
    <3>2. m.from \in Nodes /\ m.last \in Nat
      BY <1>2, <3>1 DEF Shaped
    <3>3. /\ x.type = "CHAIN_SEGMENT" /\ x.to = m.from /\ x.height = Len(chain[n])
          /\ x.chain = IF Len(chain[n]) > m.last + SegmentLimit
                       THEN Prefix(chain[n], m.last + SegmentLimit) ELSE chain[n]
      BY <3>1 DEF Segment
    <3>4. Ascends(x.chain, slot)
      <4>1. CASE Len(chain[n]) > m.last + SegmentLimit
        <5>1. m.last + SegmentLimit \in 0 .. Len(chain[n])
          BY <1>2, <3>2, <4>1, SyncConstants DEF SyncConstants
        <5> QED
          BY <1>2, <3>3, <4>1, <5>1, AscendsPrefix
      <4>2. CASE ~(Len(chain[n]) > m.last + SegmentLimit)
        BY <1>2, <3>3, <4>2
      <4> QED
        BY <4>1, <4>2
    <3> QED
      BY <1>2, <3>2, <3>3, <3>4 DEF Shaped, Kinds, Gossip
  <2>2. CASE OnRequestFullChain(n, m)
    <3>1. x.type = "FULL_CHAIN" /\ x.chain = chain[n] /\ x.to = m.from /\ m.from \in Nodes
      BY <1>2, <2>2 DEF OnRequestFullChain, Handled, Shaped
    <3> QED
      BY <1>2, <3>1 DEF Shaped, Kinds, Gossip
  <2> QED
    BY <2>1, <2>2
<1>4. /\ chain' = [chain EXCEPT ![n] = chain[n]]
      /\ syncing' = [syncing EXCEPT ![n] = syncing[n]] /\ syncing[n] \in BOOLEAN
      /\ target' = [target EXCEPT ![n] = target[n]] /\ target[n] \in 0 .. MaxSlot
      /\ safety' = [safety EXCEPT ![n] = safety[n]] /\ safety[n] \in 0 .. MaxSafety
  BY <1>1, NodeStays DEF Ranges, node
<1> QED
  BY <1>1, <1>2, <1>3, <1>4, NodeStep

\* The part of a segment's handler that all its branches share
LEMMA ConcludeShapes ==
  ASSUME Ranges, UNCHANGED <<miner, world>>, NEW n \in Nodes, NEW m \in msgs, m.type = "CHAIN_SEGMENT",
         NEW c, NEW forced \in BOOLEAN, NEW k \in 0 .. MaxSafety, Ascends(c, slot),
         Conclude(n, m, c, forced), safety' = [safety EXCEPT ![n] = k]
  PROVE  Ranges'
<1> DEFINE goal == Bigger(target[n], m.height)
           below == goal > 0 /\ Len(c) < goal
<1>1. m.height \in 0 .. MaxSlot /\ target[n] \in 0 .. MaxSlot /\ syncing[n] \in BOOLEAN /\ MaxSlot \in Nat
  BY SyncConstants DEF Ranges, Shaped, NodeRanges, SyncConstants
<1>2. goal \in 0 .. MaxSlot
  BY <1>1 DEF Bigger
<1>3. Len(c) \in Nat
  BY DEF Ascends
<1>4. /\ target' = [target EXCEPT ![n] = IF below THEN goal ELSE 0]
      /\ syncing' = [syncing EXCEPT ![n] = forced \/ (below /\ syncing[n])]
      /\ chain' = [chain EXCEPT ![n] = c]
      /\ Handled(m, IF below \/ forced THEN ChainRequests(n, c) ELSE {})
  BY DEF Conclude, NodeRanges, Ranges
<1> HIDE DEF goal, below
<1>5. (forced \/ (below /\ syncing[n])) \in BOOLEAN /\ (IF below THEN goal ELSE 0) \in 0 .. MaxSlot
  BY <1>1, <1>2
<1>6. ASSUME NEW x \in msgs' \ msgs PROVE Shaped(x, slot)
  <2>1. x \in ChainRequests(n, c)
    BY <1>4 DEF Handled
  <2> QED
    BY <1>3, <2>1, RequestsShaped
<1> QED
  BY <1>4, <1>5, <1>6, NodeStep

LEMMA SegmentShapes ==
  ASSUME Ranges, NEW n \in Nodes, NEW m \in msgs, m.to = n, OnChainSegment(n, m)
  PROVE  Ranges'
<1>1. m.type = "CHAIN_SEGMENT" /\ UNCHANGED <<miner, world>>
  BY DEF OnChainSegment
<1>2. /\ Ascends(chain[n], slot) /\ Len(chain[n]) \in 0 .. MaxSlot /\ Ascends(m.chain, slot)
      /\ m.height \in 0 .. MaxSlot /\ MaxSlot \in Nat /\ MaxSafety \in Nat
  BY <1>1, RangesUsed, SyncConstants DEF Ranges, Shaped, SyncConstants
<1>3. /\ syncing[n] \in BOOLEAN /\ target[n] \in 0 .. MaxSlot /\ safety[n] \in 0 .. MaxSafety
      /\ safety \in [Nodes -> 0 .. MaxSafety]
  BY DEF Ranges, NodeRanges
<1>4. CASE Integrate(n, m)
  <2> DEFINE grown == Len(m.chain) > Len(chain[n])
             c == IF grown THEN m.chain ELSE chain[n]
             k == IF grown THEN 0 ELSE safety[n]
  <2>1. Conclude(n, m, c, FALSE) /\ safety' = [safety EXCEPT ![n] = k]
    BY <1>4 DEF Integrate
  <2>2. Ascends(c, slot) /\ k \in 0 .. MaxSafety /\ FALSE \in BOOLEAN
    BY <1>2, <1>3
  <2> HIDE DEF c, k
  <2> QED
    BY <1>1, <2>1, <2>2, ConcludeShapes
<1>5. CASE RollbackToAncestor(n, m)
  <2> DEFINE k == Shared(chain[n], m.chain)
  <2>1. Conclude(n, m, Prefix(chain[n], k), TRUE) /\ safety' = [safety EXCEPT ![n] = safety[n]]
    BY <1>3, <1>5 DEF RollbackToAncestor
  <2>2. k \in 0 .. Len(chain[n])
    BY <1>2, SharedRange
  <2> HIDE DEF k
  <2>3. Ascends(Prefix(chain[n], k), slot) /\ TRUE \in BOOLEAN
    BY <1>2, <2>2, AscendsPrefix
  <2> QED
    BY <1>1, <1>3, <2>1, <2>3, ConcludeShapes
<1>6. CASE SafetyRollback(n, m)
  <2> DEFINE k == SafeHeight(chain[n])
  <2>1. /\ Conclude(n, m, Prefix(chain[n], k), TRUE)
        /\ safety' = [safety EXCEPT ![n] = safety[n] + 1] /\ safety[n] < MaxSafety
    BY <1>6 DEF SafetyRollback
  <2>2. k \in 0 .. Len(chain[n])
    BY <1>2, SyncConstants DEF SafeHeight, SyncConstants
  <2> HIDE DEF k
  <2>3. Ascends(Prefix(chain[n], k), slot) /\ TRUE \in BOOLEAN
    BY <1>2, <2>2, AscendsPrefix
  <2>4. safety[n] + 1 \in 0 .. MaxSafety
    BY <1>2, <1>3, <2>1
  <2> QED
    BY <1>1, <2>1, <2>3, <2>4, ConcludeShapes
<1>7. CASE StopRollingBack(n, m)
  <2> DEFINE h == Bigger(target[n], m.height)
  <2>1. /\ UNCHANGED <<chain, syncing, safety>> /\ target' = [target EXCEPT ![n] = h]
        /\ msgs' = (msgs \ {m}) \cup {}
    BY <1>7 DEF StopRollingBack, Handled
  <2>2. h \in 0 .. MaxSlot
    BY <1>2, <1>3 DEF Bigger
  <2>3. /\ chain' = [chain EXCEPT ![n] = chain[n]]
        /\ syncing' = [syncing EXCEPT ![n] = syncing[n]]
        /\ safety' = [safety EXCEPT ![n] = safety[n]]
    BY <2>1, NodeStays DEF Ranges
  <2>4. \A x \in msgs' \ msgs : Shaped(x, slot)
    BY <2>1
  <2> HIDE DEF h
  <2> QED
    BY <1>1, <1>2, <1>3, <2>1, <2>2, <2>3, <2>4, NodeStep
<1> QED
  BY <1>4, <1>5, <1>6, <1>7 DEF OnChainSegment

LEMMA GossipShapes ==
  ASSUME Ranges, NEW n \in Nodes, NEW m \in msgs, m.to = n, OnNewBlock(n, m) \/ OnFullChain(n, m)
  PROVE  Ranges'
<1>1. Shaped(m, slot) /\ UNCHANGED <<miner, world>>
  BY DEF OnNewBlock, OnFullChain, Ranges
<1>2. Ascends(chain[n], slot) /\ Len(chain[n]) \in 0 .. MaxSlot /\ slot \in 1 .. MaxSlot
  BY RangesUsed
<1>3. /\ syncing[n] \in BOOLEAN /\ target[n] \in 0 .. MaxSlot /\ safety[n] \in 0 .. MaxSafety
      /\ MaxSafety \in Nat
  BY SyncConstants DEF Ranges, NodeRanges, SyncConstants
<1>4. CASE OnNewBlock(n, m)
  <2> DEFINE new == m.chain
             gap == Len(new) > Len(chain[n]) + 1
             known == Len(new) <= Len(chain[n]) /\ Prefix(chain[n], Len(new)) = new
             extends == Continues(new, chain[n])
             c == IF extends THEN new ELSE chain[n]
             k == IF extends THEN 0 ELSE safety[n]
             b == syncing[n] \/ gap
             sent == CASE gap -> Asking(n, chain[n])
                       [] known \/ extends -> {}
                       [] OTHER -> FullRequests(n)
  <2>1. /\ chain' = [chain EXCEPT ![n] = c] /\ safety' = [safety EXCEPT ![n] = k]
        /\ syncing' = [syncing EXCEPT ![n] = b] /\ target' = target /\ Handled(m, sent)
    BY <1>4 DEF OnNewBlock
  <2>2. Ascends(c, slot) /\ k \in 0 .. MaxSafety /\ b \in BOOLEAN
    <3>1. new \in Seq(Blocks) /\ LastSlot(new) <= slot
      BY <1>1, <1>4 DEF OnNewBlock, Shaped
    <3>2. extends => Ascends(new, slot)
      BY <1>2, <3>1, AscendsOn
    <3> QED
      BY <1>2, <1>3, <3>2
  <2>3. sent \subseteq ChainRequests(n, chain[n]) \cup FullRequests(n)
    BY DEF Asking
  <2> HIDE DEF c, k, b, sent
  <2>4. ASSUME NEW x \in msgs' \ msgs PROVE Shaped(x, slot)
    <3>1. x \in ChainRequests(n, chain[n]) \/ x \in FullRequests(n)
      BY <2>1, <2>3 DEF Handled
    <3>2. Len(chain[n]) \in Nat
      BY <1>2
    <3> QED
      BY <3>1, <3>2, RequestsShaped
  <2>5. target' = [target EXCEPT ![n] = target[n]]
    BY <2>1, NodeStays DEF Ranges
  <2> QED
    BY <1>1, <1>3, <2>1, <2>2, <2>4, <2>5, NodeStep
<1>5. CASE OnFullChain(n, m)
  <2> DEFINE c == IF Adopts(chain[n], m) THEN m.chain ELSE chain[n]
  <2>1. /\ chain' = [chain EXCEPT ![n] = c] /\ UNCHANGED <<syncing, target, safety>>
        /\ msgs' = (msgs \ {m}) \cup {}
    BY <1>5 DEF OnFullChain, Handled
  <2>2. Ascends(c, slot)
    BY <1>1, <1>2, <1>5 DEF OnFullChain, Shaped
  <2> HIDE DEF c
  <2>3. /\ syncing' = [syncing EXCEPT ![n] = syncing[n]]
        /\ target' = [target EXCEPT ![n] = target[n]]
        /\ safety' = [safety EXCEPT ![n] = safety[n]]
    BY <2>1, NodeStays DEF Ranges
  <2>4. chain' = [chain EXCEPT ![n] = c] /\ \A x \in msgs' \ msgs : Shaped(x, slot)
    BY <2>1
  <2> QED
    BY <1>1, <1>3, <2>2, <2>3, <2>4, NodeStep
<1> QED
  BY <1>4, <1>5

LEMMA RequestShapes ==
  ASSUME Ranges, NEW n \in Nodes, RequestSync(n)
  PROVE  Ranges'
<1>1. /\ UNCHANGED <<chain, target, safety, miner, world>>
      /\ syncing' = [syncing EXCEPT ![n] = TRUE]
      /\ \A x \in msgs' \ msgs : x \in ChainRequests(n, chain[n])
  BY DEF RequestSync
<1>2. Ascends(chain[n], slot) /\ Len(chain[n]) \in Nat
  BY RangesUsed
<1>3. \A x \in msgs' \ msgs : Shaped(x, slot)
  BY <1>1, <1>2, RequestsShaped
<1>4. /\ chain' = [chain EXCEPT ![n] = chain[n]]
      /\ target' = [target EXCEPT ![n] = target[n]] /\ target[n] \in 0 .. MaxSlot
      /\ safety' = [safety EXCEPT ![n] = safety[n]] /\ safety[n] \in 0 .. MaxSafety
  BY <1>1, NodeStays DEF Ranges
<1> QED
  BY <1>1, <1>2, <1>3, <1>4, NodeStep

LEMMA SyncEndsShapes ==
  ASSUME Ranges, NEW n \in Nodes, SyncEnds(n)
  PROVE  Ranges'
<1>1. /\ UNCHANGED <<chain, target, safety, miner, msgs, cut, slot, faults, overran>>
      /\ syncing' = [syncing EXCEPT ![n] = FALSE]
      /\ late' = late \/ (late' = late + 1 /\ MayFail)
  <2>1. late \in Nat
    BY DEF Ranges, WorldRanges
  <2> QED
    BY <2>1 DEF SyncEnds
<1>2. NodeRanges'
  BY <1>1 DEF Ranges, NodeRanges
<1>3. MinerRanges'
  BY <1>1 DEF Ranges, MinerRanges, miner
<1>4. WorldRanges'
  BY <1>1, SyncConstants DEF Ranges, WorldRanges, MayFail, SyncConstants
<1>5. \A m \in msgs' : Shaped(m, slot')
  BY <1>1 DEF Ranges
<1> QED
  BY <1>2, <1>3, <1>4, <1>5 DEF Ranges

\* A miner or a restart changes its own record, and sends what its chain allows
LEMMA MinerStep ==
  ASSUME Ranges, UNCHANGED <<cut, slot, late>>, overran' \in BOOLEAN, NodeRanges', NEW n \in Nodes,
         NEW f \in MinerShape, RoundFits(n, f, slot),
         forge' = [forge EXCEPT ![n] = f],
         NEW k \in 0 .. MaxSlot, mined' = mined \/ mined' = [mined EXCEPT ![n] = k],
         \/ life' = life
         \/ life' = [life EXCEPT ![n] = life[n] + 1] /\ faults' = faults + 1,
         faults' = faults \/ (faults' = faults + 1 /\ MayFail),
         \A x \in msgs' \ msgs : Shaped(x, slot)
  PROVE  Ranges'
<1>1. /\ faults \in Nat /\ late \in Nat /\ faults + late <= MaxFaults /\ MaxFaults \in Nat
      /\ slot \in 1 .. MaxSlot /\ MaxSlot \in Nat /\ cut \subseteq Nodes
  BY SyncConstants DEF Ranges, WorldRanges, SyncConstants
<1>2. faults' \in Nat /\ faults <= faults' /\ faults' + late <= MaxFaults
  BY <1>1 DEF MayFail
<1>3. WorldRanges'
  BY <1>1, <1>2 DEF WorldRanges
<1>4. MinerRanges
  BY DEF Ranges
<1>5. forge' \in [Nodes -> MinerShape]
  BY <1>4 DEF MinerRanges
<1>6. ASSUME NEW p \in Nodes
      PROVE  RoundFits(p, forge'[p], slot)
  <2>1. CASE p = n
    BY <1>4, <2>1 DEF MinerRanges
  <2>2. CASE p # n
    BY <1>4, <2>2 DEF MinerRanges
  <2> QED
    BY <2>1, <2>2
<1>7. mined' \in [Nodes -> 0 .. MaxSlot]
  BY <1>1, <1>4 DEF MinerRanges
<1>8. life' \in [Nodes -> 0 .. MaxFaults] /\ \A p \in Nodes : life'[p] <= faults'
  <2>1. life \in [Nodes -> 0 .. MaxFaults] /\ \A p \in Nodes : life[p] <= faults
    BY <1>4 DEF MinerRanges
  <2>2. CASE life' = life
    <3>1. ASSUME NEW p \in Nodes PROVE life'[p] <= faults'
      <4>1. life[p] \in Nat /\ life[p] <= faults
        BY <1>1, <2>1
      <4> QED
        BY <1>1, <1>2, <2>2, <4>1
    <3> QED
      BY <2>1, <2>2, <3>1
  <2>3. CASE life' = [life EXCEPT ![n] = life[n] + 1] /\ faults' = faults + 1
    <3>1. ASSUME NEW p \in Nodes PROVE life'[p] \in 0 .. MaxFaults /\ life'[p] <= faults'
      <4>1. life[p] \in Nat /\ life[p] <= faults
        BY <1>1, <2>1
      <4>2. life'[p] = life[p] \/ life'[p] = life[p] + 1
        BY <2>1, <2>3
      <4> QED
        BY <1>1, <1>2, <2>3, <4>1, <4>2
    <3> QED
      BY <2>1, <2>3, <3>1
  <2> QED
    BY <2>2, <2>3
<1>9. MinerRanges'
  BY <1>5, <1>6, <1>7, <1>8 DEF MinerRanges
<1>10. \A m \in msgs' : Shaped(m, slot')
  BY DEF Ranges
<1> QED
  BY <1>3, <1>9, <1>10 DEF Ranges

LEMMA IdleShape ==
  ASSUME NEW n, NEW s \in Nat
  PROVE  /\ Idle \in MinerShape /\ RoundFits(n, Idle, s) /\ MaxSlot \in Nat
         /\ Idle.phase = "idle" /\ Idle.base = <<>> /\ Idle.left = {} /\ Idle.slot = 0
<1>1. 0 \in 0 .. MaxSlot /\ "idle" \in Phases /\ <<>> \in Seq(Blocks) /\ MaxSlot \in Nat
  BY SyncConstants DEF Phases, SyncConstants
<1>2. /\ Idle \in MinerShape
      /\ Idle.phase = "idle" /\ Idle.base = <<>> /\ Idle.left = {} /\ Idle.slot = 0
  BY <1>1 DEF Idle, MinerShape
<1> QED
  BY <1>1, <1>2 DEF RoundFits, InRound

LEMMA AnswersCount ==
  ASSUME NEW n, NEW S, Answers(n, S), faults \in Nat
  PROVE  S \subseteq Nodes /\ (faults' = faults \/ (faults' = faults + 1 /\ MayFail))
BY DEF Answers, Reach

LEMMA BeginShapes ==
  ASSUME Ranges, NEW n \in Nodes, BeginRound(n)
  PROVE  Ranges'
<1>1. PICK S \in Polls(n) :
        forge' = [forge EXCEPT ![n] = [Idle EXCEPT !.phase = "ask", !.slot = slot,
                                                  !.base = chain[n], !.left = S]]
  BY DEF BeginRound
<1>2. UNCHANGED <<node, mined, life, msgs, world>>
  BY DEF BeginRound
<1> DEFINE f == [Idle EXCEPT !.phase = "ask", !.slot = slot, !.base = chain[n], !.left = S]
<1>3. /\ Ascends(chain[n], slot) /\ chain[n] \in Seq(Blocks) /\ slot \in 0 .. MaxSlot
      /\ S \subseteq Nodes /\ n \notin S /\ 0 \in 0 .. MaxSlot /\ slot \in Nat /\ slot > 0
  BY RangesUsed DEF Polls
<1>4. f \in MinerShape /\ RoundFits(n, f, slot)
  <2>1. Idle \in MinerShape /\ "ask" \in Phases
    BY <1>3, IdleShape DEF Phases
  <2>2. f \in MinerShape /\ f.phase = "ask" /\ f.slot = slot /\ f.base = chain[n] /\ f.left = S
    BY <1>3, <2>1 DEF MinerShape
  <2> HIDE DEF f
  <2> QED
    BY <1>3, <2>2 DEF RoundFits, InRound
<1> HIDE DEF f
<1>5. /\ UNCHANGED <<cut, slot, late, faults, overran, mined, life, msgs>>
      /\ NodeRanges' /\ overran' \in BOOLEAN
  BY <1>2 DEF node, world, Ranges, NodeRanges, WorldRanges
<1> QED
  BY <1>1, <1>3, <1>4, <1>5, MinerStep DEF f

\* What a peer says of its height is at most the height of a node
LEMMA AskShapes ==
  ASSUME Ranges, NEW n \in Nodes, AskPeer(n)
  PROVE  Ranges'
<1>1. /\ UNCHANGED <<node, mined, life, msgs, cut, slot, late, overran>> /\ forge[n].phase = "ask"
      /\ \E p \in forge[n].left : Hear(n, p) \/ HearNothing(n, p)
  BY DEF AskPeer
<1>2. PICK p \in forge[n].left : Hear(n, p) \/ HearNothing(n, p)
  BY <1>1
<1>3. /\ forge \in [Nodes -> MinerShape] /\ forge[n] \in MinerShape /\ RoundFits(n, forge[n], slot)
      /\ faults \in Nat /\ NodeRanges
  BY DEF Ranges, MinerRanges, WorldRanges
<1>4. p \in Nodes /\ Len(chain[p]) \in 0 .. MaxSlot /\ MaxSlot \in Nat
  <2>1. p \in Nodes
    BY <1>3 DEF MinerShape
  <2> QED
    BY <2>1, RangesUsed
<1>5. NodeRanges' /\ overran' \in BOOLEAN
  BY <1>1, <1>3 DEF node, Ranges, NodeRanges, WorldRanges
<1> DEFINE goal == Bigger(forge[n].goal, Len(chain[p]))
           b == forge[n].forked \/ (Len(chain[p]) > 0 /\ Len(chain[p]) = Len(forge[n].base)
                                    /\ chain[p] # forge[n].base)
           f == [forge[n] EXCEPT !.left = @ \ {p}, !.goal = goal, !.forked = b]
           g == [forge[n] EXCEPT !.left = @ \ {p}]
<1>6. CASE Hear(n, p)
  <2>1. goal \in 0 .. MaxSlot /\ b \in BOOLEAN
    BY <1>3, <1>4 DEF Bigger, MinerShape
  <2>2. forge' = [forge EXCEPT ![n] = f]
    <3>1. forge' = [forge EXCEPT ![n].left = @ \ {p}, ![n].goal = goal, ![n].forked = b]
      BY <1>6, Zenon DEF Hear
    <3> HIDE DEF goal, b
    <3> QED
      BY <1>3, <3>1
  <2>3. faults' = faults
    BY <1>6 DEF Hear
  <2> HIDE DEF goal, b
  <2>4. f \in MinerShape /\ RoundFits(n, f, slot)
    BY <1>1, <1>3, <2>1 DEF MinerShape, RoundFits
  <2> HIDE DEF f
  <2> QED
    BY <1>1, <1>4, <1>5, <2>2, <2>3, <2>4, MinerStep
<1>7. CASE HearNothing(n, p)
  <2>1. forge' = [forge EXCEPT ![n] = g] /\ (faults' = faults \/ (faults' = faults + 1 /\ MayFail))
    BY <1>3, <1>7 DEF HearNothing
  <2>2. g \in MinerShape /\ RoundFits(n, g, slot)
    BY <1>1, <1>3 DEF MinerShape, RoundFits
  <2> HIDE DEF g, f, goal, b
  <2> QED
    BY <1>1, <1>4, <1>5, <2>1, <2>2, MinerStep
<1> QED
  BY <1>2, <1>6, <1>7

LEMMA ElectShapes ==
  ASSUME Ranges, NEW n \in Nodes, Elect(n)
  PROVE  Ranges'
<1> DEFINE f == [Idle EXCEPT !.phase = "wait", !.slot = forge[n].slot, !.base = chain[n]]
           g == IF Leads(n) THEN f ELSE Idle
<1>1. /\ UNCHANGED <<chain, target, safety, mined, life, cut, slot, faults, late>>
      /\ forge' = [forge EXCEPT ![n] = g]
      /\ syncing' = [syncing EXCEPT ![n] = @ \/ Lags(n)]
      /\ overran' = (overran \/ (Leads(n) /\ forge[n].slot # slot))
      /\ msgs' = msgs \cup (IF Lags(n) THEN Asking(n, chain[n]) ELSE {})
  BY DEF Elect
<1>2. /\ Ascends(chain[n], slot) /\ chain[n] \in Seq(Blocks) /\ slot \in 0 .. MaxSlot
      /\ Len(chain[n]) \in Nat /\ slot \in Nat
  BY RangesUsed
<1>3. /\ forge[n].slot \in 0 .. MaxSlot /\ forge[n].slot <= slot /\ forge[n].slot > 0 /\ NodeRanges
      /\ 0 \in 0 .. MaxSlot
  <2>1. forge[n] \in MinerShape /\ RoundFits(n, forge[n], slot) /\ NodeRanges
    BY DEF Ranges, MinerRanges
  <2>2. forge[n].phase \in InRound
    BY DEF Elect, InRound
  <2>3. MaxSlot \in Nat
    BY SyncConstants DEF SyncConstants
  <2> QED
    BY <2>1, <2>2, <2>3 DEF MinerShape, RoundFits
<1>4. f \in MinerShape /\ RoundFits(n, f, slot)
  <2>1. Idle \in MinerShape /\ Idle.left = {} /\ "wait" \in Phases
    BY <1>2, IdleShape DEF Phases
  <2>2. f \in MinerShape /\ f.phase = "wait" /\ f.slot = forge[n].slot /\ f.base = chain[n] /\ f.left = {}
    BY <1>2, <1>3, <2>1 DEF MinerShape
  <2> HIDE DEF f
  <2> QED
    BY <1>2, <1>3, <2>2 DEF RoundFits, InRound
<1> HIDE DEF f
<1>5. g \in MinerShape /\ RoundFits(n, g, slot)
  BY <1>2, <1>4, IdleShape
<1> HIDE DEF g
<1>6. \A x \in msgs' \ msgs : Shaped(x, slot)
  <2> SUFFICES ASSUME NEW x \in msgs' \ msgs PROVE Shaped(x, slot)
    OBVIOUS
  <2>1. x \in ChainRequests(n, chain[n])
    BY <1>1 DEF Asking
  <2> QED
    BY <1>2, <2>1, RequestsShaped
<1>7. NodeRanges'
  <2> DEFINE b == syncing[n] \/ Lags(n)
  <2>1. syncing' = [syncing EXCEPT ![n] = b] /\ b \in BOOLEAN
    BY <1>1, <1>3 DEF NodeRanges
  <2> HIDE DEF b
  <2> QED
    BY <1>1, <1>3, <2>1 DEF NodeRanges
<1>8. overran' \in BOOLEAN
  <2> DEFINE b == overran \/ (Leads(n) /\ forge[n].slot # slot)
  <2>1. overran' = b /\ b \in BOOLEAN
    BY <1>1
  <2> HIDE DEF b
  <2> QED
    BY <2>1
<1> QED
  BY <1>1, <1>3, <1>5, <1>6, <1>7, <1>8, MinerStep

LEMMA ForgedShape ==
  ASSUME Ranges, NEW n \in Nodes, Forging(n)
  PROVE  Forged(n) \in Seq(Blocks) /\ LastSlot(Forged(n)) = forge[n].slot /\ forge[n].slot <= slot
<1>1. /\ forge[n].base \in Seq(Blocks) /\ forge[n].slot <= slot /\ forge[n].slot \in 0 .. MaxSlot
      /\ life[n] \in 0 .. MaxFaults
  BY DEF Ranges, MinerRanges, MinerShape, RoundFits
<1>2. forge[n].slot \in 1 .. MaxSlot
  <2>1. forge[n].slot > 0
    BY DEF Ranges, MinerRanges, RoundFits, Forging, InRound
  <2> QED
    BY <1>1, <2>1
<1>3. <<forge[n].slot, life[n]>> \in Blocks
  BY <1>1, <1>2 DEF Blocks
<1>4. /\ Forged(n) \in Seq(Blocks) /\ Len(Forged(n)) = Len(forge[n].base) + 1
      /\ Forged(n)[Len(forge[n].base) + 1] = <<forge[n].slot, life[n]>>
  BY <1>1, <1>3 DEF Forged
<1> QED
  BY <1>1, <1>4 DEF LastSlot

LEMMA ForgeShapes ==
  ASSUME Ranges, NEW n \in Nodes, Broadcast(n) \/ AddOwnBlock(n) \/ Started(n)
  PROVE  Ranges'
<1>1. /\ forge \in [Nodes -> MinerShape] /\ forge[n] \in MinerShape /\ NodeRanges
      /\ RoundFits(n, forge[n], slot) /\ slot \in 1 .. MaxSlot /\ slot \in Nat /\ overran \in BOOLEAN
      /\ MaxSlot \in Nat
  BY RangesUsed DEF Ranges, MinerRanges, WorldRanges
<1>2. Idle \in MinerShape /\ RoundFits(n, Idle, slot) /\ 0 \in 0 .. MaxSlot
  BY <1>1, IdleShape
<1>3. CASE Broadcast(n) /\ chain[n] = forge[n].base
  <2> DEFINE f == [forge[n] EXCEPT !.phase = "sent"]
  <2>1. /\ UNCHANGED <<node, mined, life, world>> /\ forge[n].phase = "wait"
        /\ msgs' = msgs \cup Announcements(n, Forged(n)) /\ forge' = [forge EXCEPT ![n] = f]
    BY <1>3 DEF Broadcast
  <2>2. Forged(n) \in Seq(Blocks) /\ LastSlot(Forged(n)) <= slot
    BY <2>1, ForgedShape DEF Forging
  <2>3. f \in MinerShape /\ RoundFits(n, f, slot)
    BY <1>1, <2>1 DEF MinerShape, RoundFits, InRound, Phases
  <2> HIDE DEF f
  <2>4. ASSUME NEW x \in msgs' \ msgs PROVE Shaped(x, slot)
    <3>1. PICK p \in Reach(n) : x = [type |-> "NEW_BLOCK", to |-> p, chain |-> Forged(n)]
      BY <2>1 DEF Announcements
    <3>2. p \in Nodes
      BY DEF Reach
    <3> QED
      BY <2>2, <3>1, <3>2 DEF Shaped, Kinds, Gossip
  <2>5. NodeRanges' /\ UNCHANGED <<mined, life, faults, cut, slot, late, overran>>
    BY <1>1, <2>1 DEF NodeRanges, node, world
  <2> QED
    BY <1>1, <1>2, <2>1, <2>3, <2>4, <2>5, MinerStep
<1>4. CASE Broadcast(n) /\ chain[n] # forge[n].base
  <2>1. /\ UNCHANGED <<node, mined, life, world>> /\ msgs' = msgs /\ forge' = [forge EXCEPT ![n] = Idle]
    BY <1>4 DEF Broadcast
  <2>2. NodeRanges' /\ UNCHANGED <<mined, life, faults, cut, slot, late, overran>>
    BY <1>1, <2>1 DEF NodeRanges, node, world
  <2> QED
    BY <1>1, <1>2, <2>1, <2>2, MinerStep
<1>5. CASE AddOwnBlock(n)
  <2>1. /\ UNCHANGED <<syncing, target, safety, life, msgs, world>> /\ forge[n].phase = "sent"
        /\ forge' = [forge EXCEPT ![n] = Idle]
        /\ \/ /\ Continues(Forged(n), chain[n])
              /\ chain' = [chain EXCEPT ![n] = Forged(n)] /\ mined' = [mined EXCEPT ![n] = forge[n].slot]
           \/ UNCHANGED <<chain, mined>>
    BY <1>5 DEF AddOwnBlock
  <2>2. Forged(n) \in Seq(Blocks) /\ LastSlot(Forged(n)) <= slot /\ Ascends(chain[n], slot)
    BY <2>1, ForgedShape, RangesUsed DEF Forging
  <2>3. Continues(Forged(n), chain[n]) => Ascends(Forged(n), slot)
    BY <1>1, <2>2, AscendsOn
  <2>4. chain' \in [Nodes -> Seq(Blocks)] /\ \A p \in Nodes : Ascends(chain'[p], slot)
    BY <1>1, <2>1, <2>2, <2>3 DEF NodeRanges
  <2>5. UNCHANGED <<life, msgs, faults, cut, slot, late, overran>> /\ forge[n].slot \in 0 .. MaxSlot
    BY <1>1, <2>1 DEF world, MinerShape
  <2>6. NodeRanges'
    BY <1>1, <2>1, <2>4, <2>5 DEF NodeRanges
  <2>7. mined' = mined \/ mined' = [mined EXCEPT ![n] = forge[n].slot]
    BY <2>1
  <2> QED
    BY <1>1, <1>2, <2>1, <2>5, <2>6, <2>7, MinerStep
<1>6. CASE Started(n)
  <2>1. UNCHANGED <<node, mined, life, msgs, world>> /\ forge' = [forge EXCEPT ![n] = Idle]
    BY <1>6 DEF Started
  <2>2. NodeRanges' /\ UNCHANGED <<mined, life, msgs, faults, cut, slot, late, overran>>
    BY <1>1, <2>1 DEF NodeRanges, node, world
  <2> QED
    BY <1>1, <1>2, <2>1, <2>2, MinerStep
<1> QED
  BY <1>3, <1>4, <1>5, <1>6

\* The height that a start awaits is that of a node
LEMMA StartShapes ==
  ASSUME Ranges, NEW n \in Nodes, Start(n)
  PROVE  Ranges'
<1>1. PICK S \in SUBSET Nodes :
        /\ Answers(n, S)
        /\ LET best == {h \in Heights(S) : \A g \in Heights(S) : g <= h}
               ahead == {h \in best : h > Len(chain[n])}
               ask == ahead # {} \/ (Len(chain[n]) \in best /\ Forked(n, S))
           IN /\ forge' = [forge EXCEPT ![n] =
                    IF ahead = {} THEN Idle
                    ELSE [Idle EXCEPT !.phase = "await", !.goal = CHOOSE h \in ahead : TRUE]]
              /\ msgs' = msgs \cup (IF ask THEN Asking(n, chain[n]) ELSE {})
              /\ syncing' = [syncing EXCEPT ![n] = @ \/ ask]
  BY DEF Start
<1> DEFINE best == {h \in Heights(S) : \A g \in Heights(S) : g <= h}
           ahead == {h \in best : h > Len(chain[n])}
           goal == CHOOSE h \in ahead : TRUE
           f == IF ahead = {} THEN Idle ELSE [Idle EXCEPT !.phase = "await", !.goal = goal]
<1>2. UNCHANGED <<chain, target, safety, mined, life, cut, slot, late, overran>>
  BY DEF Start
<1>3. faults' = faults \/ (faults' = faults + 1 /\ MayFail)
  BY <1>1, AnswersCount DEF Ranges, WorldRanges
<1>4. \A p \in Nodes : Len(chain[p]) \in 0 .. MaxSlot
  BY RangesUsed
<1>5. ahead \subseteq 0 .. MaxSlot
  BY <1>1, <1>4 DEF Heights
<1>6. ahead # {} => goal \in 0 .. MaxSlot
  BY <1>5
<1>7. forge' = [forge EXCEPT ![n] = f]
  BY <1>1
<1>8. f \in MinerShape /\ RoundFits(n, f, slot) /\ 0 \in 0 .. MaxSlot
  <2>1. slot \in Nat /\ slot \in 1 .. MaxSlot /\ MaxSlot \in Nat
    BY RangesUsed
  <2>2. CASE ahead = {}
    <3>1. f = Idle
      BY <2>2
    <3> HIDE DEF f
    <3> QED
      BY <2>1, <3>1, IdleShape
  <2>3. CASE ahead # {}
    <3>1. f = [Idle EXCEPT !.phase = "await", !.goal = goal] /\ goal \in 0 .. MaxSlot
      BY <1>6, <2>3
    <3> HIDE DEF f, goal
    <3>2. Idle \in MinerShape /\ Idle.left = {} /\ Idle.slot = 0 /\ Idle.base = <<>> /\ "await" \in Phases
      BY <2>1, IdleShape DEF Phases
    <3>3. f \in MinerShape /\ f.phase = "await" /\ f.slot = 0 /\ f.base = <<>> /\ f.left = {}
      BY <3>1, <3>2 DEF MinerShape
    <3> QED
      BY <2>1, <3>3 DEF RoundFits, InRound
  <2> QED
    BY <2>2, <2>3
<1>9. ASSUME NEW x \in msgs' \ msgs PROVE Shaped(x, slot)
  <2>1. x \in ChainRequests(n, chain[n])
    BY <1>1 DEF Asking
  <2>2. Len(chain[n]) \in Nat
    BY <1>4
  <2> QED
    BY <2>1, <2>2, RequestsShaped
<1>10. NodeRanges'
  <2>1. NodeRanges
    BY DEF Ranges
  <2>2. syncing' \in [Nodes -> BOOLEAN]
    <3> DEFINE b == syncing[n] \/ (ahead # {} \/ (Len(chain[n]) \in best /\ Forked(n, S)))
    <3>1. syncing' = [syncing EXCEPT ![n] = b] /\ syncing \in [Nodes -> BOOLEAN]
      BY <1>1, <2>1 DEF NodeRanges
    <3>2. b \in BOOLEAN
      BY <3>1
    <3> HIDE DEF b
    <3> QED
      BY <3>1, <3>2
  <2> QED
    BY <1>2, <2>1, <2>2 DEF NodeRanges
<1>11. mined' = mined /\ life' = life /\ UNCHANGED <<cut, slot, late>> /\ overran' \in BOOLEAN
  BY <1>2 DEF Ranges, WorldRanges
<1> HIDE DEF best, ahead, goal, f
<1> QED
  BY <1>3, <1>7, <1>8, <1>9, <1>10, <1>11, MinerStep

LEMMA RestartShapes ==
  ASSUME Ranges, NEW n \in Nodes, Restart(n)
  PROVE  Ranges'
<1> DEFINE f == [Idle EXCEPT !.phase = "boot"]
<1>1. /\ MayFail /\ faults' = faults + 1 /\ UNCHANGED <<cut, slot, late>> /\ overran' = overran
      /\ forge' = [forge EXCEPT ![n] = f] /\ mined' = [mined EXCEPT ![n] = 0]
      /\ msgs' = {m \in msgs : m.to # n}
  BY DEF Restart
<1>3. /\ 0 \in 0 .. MaxSlot /\ 0 \in 0 .. MaxSafety /\ "boot" \in Phases /\ slot \in Nat
      /\ 0 <= slot /\ overran \in BOOLEAN
  BY SyncConstants DEF Phases, SyncConstants, Ranges, WorldRanges
<1>4. f \in MinerShape /\ RoundFits(n, f, slot)
  <2>1. Idle \in MinerShape /\ Idle.left = {} /\ Idle.slot = 0 /\ Idle.base = <<>>
    BY <1>3, IdleShape
  <2>2. f \in MinerShape /\ f.phase = "boot" /\ f.slot = 0 /\ f.base = <<>> /\ f.left = {}
    BY <1>3, <2>1 DEF MinerShape
  <2> HIDE DEF f
  <2> QED
    BY <1>3, <2>2 DEF RoundFits, InRound
<1> HIDE DEF f
<1>5. life' = [life EXCEPT ![n] = life[n] + 1]
  BY DEF Restart
<1>6. NodeRanges'
  <2>1. NodeRanges
    BY DEF Ranges
  <2> QED
    BY <1>3, <2>1 DEF NodeRanges, Restart
<1>7. \A x \in msgs' \ msgs : Shaped(x, slot)
  BY <1>1
<1>8. overran' \in BOOLEAN
  BY <1>1, <1>3
<1> QED
  BY <1>1, <1>3, <1>4, <1>5, <1>6, <1>7, <1>8, MinerStep

LEMMA WorldShapes ==
  ASSUME Ranges, NextSlot \/ Split \/ Heal
  PROVE  Ranges'
<1>1. /\ faults \in Nat /\ late \in Nat /\ faults + late <= MaxFaults /\ MaxFaults \in Nat
      /\ slot \in 1 .. MaxSlot /\ MaxSlot \in Nat /\ cut \subseteq Nodes
  BY SyncConstants DEF Ranges, WorldRanges, SyncConstants
<1>2. CASE NextSlot
  <2>1. /\ slot' = slot + 1 /\ UNCHANGED <<node, miner, msgs, cut, faults>>
        /\ overran' = (overran \/ \E n \in Nodes : Forging(n))
    BY <1>2 DEF NextSlot
  <2>2. late' \in Nat /\ faults + late' <= MaxFaults
    BY <1>1, <1>2 DEF NextSlot, MayFail
  <2>3. slot' \in 1 .. MaxSlot
    <3> DEFINE S == {n \in Nodes : life[n] > 0}
    <3>1. IsFiniteSet(S)
      BY SyncConstants, FS_Subset DEF SyncConstants
    <3>2. Cardinality(S) \in Nat
      BY <3>1, FS_CardinalityType
    <3>3. slot + Cardinality(S) < MaxSlot
      BY <1>2 DEF NextSlot
    <3> HIDE DEF S
    <3> QED
      BY <1>1, <2>1, <3>2, <3>3
  <2>4. \A c : Ascends(c, slot) => Ascends(c, slot')
    BY <1>1, <2>1, AscendsLater
  <2>5. NodeRanges'
    BY <2>1, <2>4 DEF Ranges, NodeRanges, node
  <2>6. MinerRanges'
    <3>1. \A n \in Nodes : RoundFits(n, forge[n], slot) => RoundFits(n, forge[n], slot')
      <4> SUFFICES ASSUME NEW n \in Nodes, RoundFits(n, forge[n], slot)
                   PROVE  RoundFits(n, forge[n], slot')
        OBVIOUS
      <4>1. forge[n].slot \in Nat /\ forge[n].slot <= slot
        BY <1>1 DEF Ranges, MinerRanges, MinerShape, RoundFits
      <4>2. forge[n].slot <= slot'
        BY <1>1, <2>1, <4>1
      <4> QED
        BY <2>4, <4>2 DEF RoundFits
    <3> QED
      BY <2>1, <3>1 DEF Ranges, MinerRanges, miner
  <2>7. ASSUME NEW m \in msgs' PROVE Shaped(m, slot')
    <3>1. Shaped(m, slot)
      BY <2>1 DEF Ranges
    <3>2. m.type = "NEW_BLOCK" => LastSlot(m.chain) <= slot'
      <4> SUFFICES ASSUME m.type = "NEW_BLOCK" PROVE LastSlot(m.chain) <= slot'
        OBVIOUS
      <4>1. m.chain \in Seq(Blocks) /\ LastSlot(m.chain) <= slot
        BY <3>1 DEF Shaped
      <4>2. LastSlot(m.chain) \in Nat
        <5>1. CASE m.chain = <<>>
          BY <5>1 DEF LastSlot
        <5>2. CASE m.chain # <<>>
          <6>1. Len(m.chain) \in 1 .. Len(m.chain)
            BY <4>1, <5>2
          <6>2. m.chain[Len(m.chain)] \in Blocks
            BY <4>1, <6>1
          <6> QED
            BY <5>2, <6>2 DEF LastSlot, Blocks
        <5> QED
          BY <5>1, <5>2
      <4> QED
        BY <1>1, <2>1, <4>1, <4>2
    <3> QED
      BY <2>4, <3>1, <3>2 DEF Shaped
  <2>8. WorldRanges'
    <3> DEFINE b == overran \/ \E n \in Nodes : Forging(n)
    <3>1. overran' = b /\ b \in BOOLEAN
      BY <2>1
    <3> HIDE DEF b
    <3> QED
      BY <1>1, <2>1, <2>2, <2>3, <3>1 DEF WorldRanges
  <2> QED
    BY <2>5, <2>6, <2>7, <2>8 DEF Ranges
<1>3. CASE Split \/ Heal
  <2>1. /\ UNCHANGED <<node, miner, msgs, slot, late, overran>> /\ cut' \subseteq Nodes
        /\ faults' = faults \/ (faults' = faults + 1 /\ MayFail)
    BY <1>3 DEF Split, Heal
  <2>2. faults' \in Nat /\ faults <= faults' /\ faults' + late <= MaxFaults
    BY <1>1, <2>1 DEF MayFail
  <2>3. NodeRanges' /\ WorldRanges'
    BY <1>1, <2>1, <2>2 DEF Ranges, NodeRanges, WorldRanges, node
  <2>4. \A p \in Nodes : life[p] <= faults'
    <3>1. life \in [Nodes -> 0 .. MaxFaults] /\ \A p \in Nodes : life[p] <= faults
      BY DEF Ranges, MinerRanges
    <3> QED
      BY <1>1, <2>2, <3>1
  <2>5. MinerRanges'
    BY <2>1, <2>4 DEF Ranges, MinerRanges, miner
  <2>6. \A m \in msgs' : Shaped(m, slot')
    BY <2>1 DEF Ranges
  <2> QED
    BY <2>3, <2>5, <2>6 DEF Ranges
<1> QED
  BY <1>2, <1>3

\* Slots ascend and ranges last, with any faults
THEOREM RangesHold ==
  ASSUME StartsAscend
  PROVE  Spec => []Ranges
<1>1. Init => Ranges
  <2> SUFFICES ASSUME Init PROVE Ranges
    OBVIOUS
  <2>0. {MaxSafety, MaxSlot, MaxFaults} \subseteq Nat
    BY SyncConstants DEF SyncConstants
  <2>1. /\ chain \in [Nodes -> Seq(Blocks)] /\ (\A n \in Nodes : Ascends(chain[n], MaxSlot))
        /\ slot \in 1 .. MaxSlot /\ (\A n \in Nodes : LastSlot(chain[n]) <= slot)
    BY DEF Init, StartsAscend
  <2>2. ASSUME NEW n \in Nodes PROVE Ascends(chain[n], slot)
    <3>1. chain[n] \in Seq(Blocks) /\ Len(chain[n]) \in Nat
      BY <2>1
    <3> SUFFICES ASSUME NEW i \in 1 .. Len(chain[n]) PROVE chain[n][i][1] <= slot
      BY <2>1, <3>1 DEF Ascends
    <3>2. Len(chain[n]) \in 1 .. Len(chain[n]) /\ chain[n] # <<>>
      BY <3>1
    <3>3. chain[n][i] \in Blocks /\ chain[n][Len(chain[n])] \in Blocks
      BY <3>1, <3>2
    <3>4. i < Len(chain[n]) => chain[n][i][1] < chain[n][Len(chain[n])][1]
      BY <2>1, <3>2 DEF Ascends
    <3>5. chain[n][Len(chain[n])][1] <= slot
      BY <2>1, <3>2 DEF LastSlot
    <3> QED
      BY <2>1, <3>1, <3>3, <3>4, <3>5 DEF Blocks
  <2>3. NodeRanges
    BY <2>0, <2>1, <2>2 DEF Init, NodeRanges
  <2>4. MinerRanges
    <3>1. slot \in Nat
      BY <2>0, <2>1
    <3>2. \A n \in Nodes : forge[n] = Idle /\ life[n] = 0
      BY DEF Init
    <3>3. Idle \in MinerShape /\ \A n \in Nodes : RoundFits(n, Idle, slot)
      BY <3>1, IdleShape
    <3>4. /\ forge \in [Nodes -> MinerShape]
          /\ mined \in [Nodes -> 0 .. MaxSlot] /\ life \in [Nodes -> 0 .. MaxFaults] /\ faults = 0
      BY <2>0, <3>3 DEF Init
    <3> QED
      BY <3>2, <3>3, <3>4 DEF MinerRanges
  <2>5. WorldRanges /\ \A m \in msgs : Shaped(m, slot)
    <3>1. cut = {} /\ faults = 0 /\ late = 0 /\ overran = FALSE /\ msgs = {}
      BY DEF Init
    <3>2. 0 \in Nat /\ 0 + 0 <= MaxFaults /\ FALSE \in BOOLEAN /\ {} \subseteq Nodes
      BY <2>0
    <3>3. slot \in 1 .. MaxSlot
      BY <2>1
    <3>4. WorldRanges
      BY <3>1, <3>2, <3>3, Zenon DEF WorldRanges
    <3> QED
      BY <3>1, <3>4
  <2> QED
    BY <2>3, <2>4, <2>5 DEF Ranges
<1>2. Ranges /\ [Next]_vars => Ranges'
  <2> SUFFICES ASSUME Ranges, [Next]_vars PROVE Ranges'
    OBVIOUS
  <2>1. CASE UNCHANGED vars
    BY <2>1 DEF vars, node, miner, world, Ranges, NodeRanges, MinerRanges, WorldRanges
  <2>2. ASSUME NEW n \in Nodes, NEW kind \in Kinds, Receive(n, kind) PROVE Ranges'
    BY <2>2, ServeShapes, SegmentShapes, GossipShapes DEF Receive
  <2>3. ASSUME NEW n \in Nodes, RequestSync(n) \/ SyncEnds(n) \/ BeginRound(n) \/ Finish(n) \/ Restart(n)
        PROVE  Ranges'
    BY <2>3, RequestShapes, SyncEndsShapes, BeginShapes, AskShapes, ElectShapes, ForgeShapes, StartShapes,
       RestartShapes DEF Finish
  <2> QED
    BY <2>1, <2>2, <2>3, WorldShapes DEF Next
<1> QED
  BY <1>1, <1>2, PTL DEF Spec

\* Every chain of a node, of a message or under a new block has at most one block per slot, in
\* ascending slots, the safety counter keeps to its limit and no target lies above a height that
\* was announced, whatever is lost, late, split or restarted (p2p.py:544-695, miner.py:444-528).
THEOREM SyncIsTyped ==
  ASSUME StartsAscend
  PROVE  Spec => []TypeOK
<1>1. Ranges => TypeOK
  <2> SUFFICES ASSUME Ranges PROVE TypeOK
    OBVIOUS
  <2>1. ASSUME NEW s \in 0 .. MaxSlot, NEW c, Ascends(c, s) PROVE IsChain(c)
    <3>1. Len(c) \in 0 .. MaxSlot /\ c \in Seq(Blocks)
      BY <2>1, AscendsShort DEF Ascends
    <3>2. MaxSlot \in Nat
      BY SyncConstants DEF SyncConstants
    <3>3. \A i \in 1 .. Len(c) : c[i] \in Blocks
      BY <3>1
    <3>4. ASSUME NEW i \in 1 .. Len(c), i > 1 PROVE c[i - 1][1] < c[i][1]
      <4>1. i - 1 \in 1 .. Len(c) /\ i - 1 < i
        BY <3>1, <3>4
      <4> QED
        BY <2>1, <4>1 DEF Ascends
    <3> QED
      BY <3>1, <3>2, <3>3, <3>4 DEF IsChain, Blocks
  <2>2. slot \in 1 .. MaxSlot /\ MaxSlot \in Nat /\ slot \in 0 .. MaxSlot /\ slot - 1 \in 0 .. MaxSlot
    BY SyncConstants DEF Ranges, WorldRanges, SyncConstants
  <2>3. \A n \in Nodes : IsChain(chain[n])
    BY <2>1, <2>2 DEF Ranges, NodeRanges
  <2>4. \A n \in Nodes : IsChain(forge[n].base)
    <3> SUFFICES ASSUME NEW n \in Nodes PROVE IsChain(forge[n].base)
      OBVIOUS
    <3>1. CASE forge[n].phase \in InRound
      BY <2>1, <2>2, <3>1 DEF Ranges, MinerRanges, RoundFits
    <3>2. CASE forge[n].phase \notin InRound
      <4>1. Ascends(<<>>, slot)
        BY AscendsEmpty
      <4> QED
        BY <2>1, <2>2, <3>2, <4>1 DEF Ranges, MinerRanges, RoundFits
    <3> QED
      BY <3>1, <3>2
  <2>5. \A m \in msgs : m.to \in Nodes /\ m.type \in Kinds
    BY DEF Ranges, Shaped
  <2>6. ASSUME NEW n \in Nodes
        PROVE  /\ forge[n].phase \in Phases
               /\ forge[n].slot \in 0 .. slot /\ forge[n].goal \in Slots
               /\ forge[n].left \subseteq Nodes \ {n} /\ forge[n].forked \in BOOLEAN
               /\ forge[n].left # {} => forge[n].phase = "ask"
               /\ forge[n].phase \notin InRound => forge[n].base = <<>>
    <3>1. forge[n] \in MinerShape /\ RoundFits(n, forge[n], slot)
      BY DEF Ranges, MinerRanges
    <3> QED
      BY <2>2, <3>1 DEF MinerShape, RoundFits, Slots
  <2> QED
    BY <2>3, <2>4, <2>5, <2>6
       DEF TypeOK, Ranges, NodeRanges, MinerRanges, WorldRanges, Phases, InRound, Slots
<1> QED
  BY <1>1, RangesHold, PTL

=============================================================================
