--------------------------- MODULE SyncProperties ---------------------------
(***************************************************************************)
(* What synchronisation and mining promise together.                       *)
(***************************************************************************)
EXTENDS Sync

Slots == 0..MaxSlot

IsChain(c) ==
  /\ Len(c) <= MaxSlot
  /\ \A i \in 1..Len(c) : /\ c[i] \in (1..MaxSlot) \X (0..MaxFaults)
                          /\ i > 1 => c[i - 1][1] < c[i][1]

\* Shapes and ranges: chains of ascending slots, a rollback counter within its
\* limit, a target that some node once had, a base only while forging.
TypeOK ==
  /\ \A n \in Nodes : IsChain(chain[n]) /\ IsChain(forge[n].base)
  /\ syncing \in [Nodes -> BOOLEAN]
  /\ target \in [Nodes -> 0..MaxSlot]
  /\ safety \in [Nodes -> 0..MaxSafety]
  /\ \A n \in Nodes :
       /\ forge[n].phase \in {"idle", "ask", "wait", "sent", "boot", "await"}
       /\ forge[n].slot \in 0..slot /\ forge[n].goal \in Slots
       /\ forge[n].left \subseteq Nodes \ {n} /\ forge[n].forked \in BOOLEAN
       /\ forge[n].left # {} => forge[n].phase = "ask"
       /\ forge[n].phase \notin {"ask", "wait", "sent"} => forge[n].base = <<>>
  /\ mined \in [Nodes -> Slots]
  /\ life \in [Nodes -> 0..MaxFaults]
  /\ \A m \in msgs : m.to \in Nodes /\ m.type \in Kinds
  /\ cut \subseteq Nodes /\ slot \in 1..MaxSlot
  /\ faults \in Nat /\ late \in Nat /\ faults + late <= MaxFaults
  /\ overran \in BOOLEAN

\* One of the chains continues the other
OneLine(c, d) == Shared(c, d) \in {Len(c), Len(d)}

\* However late blocks and segments arrive, as long as peers answer when they
\* are asked for their height, no link is cut, nobody restarts and no block is
\* forged past the end of its slot, any two chains are on one line: the checks
\* before an election (miner.py:288-344), after the waiting times
\* (miner.py:449-453, 516-521) and of a block's slot (chain.py:362-366) leave
\* no room for two blocks on one parent.
ForksNeedFaults ==
  faults = 0 /\ ~overran => \A m, n \in Nodes : OneLine(chain[m], chain[n])

\* "Propagar antes de aplicar local elimina la race condition donde dos lideres
\* aplican su bloque y rechazan el del otro" (miner.py:511-512): where peers
\* answer, no link is cut and nobody restarts, no two nodes hold each a block of
\* its own on one parent.
Own(n, c, i) == i <= Len(c) /\ Elected(Prefix(c, i - 1), c[i][1]) = n
NobodyRaces ==
  faults = 0 =>
    ~\E m, n \in Nodes :
       LET k == Shared(chain[m], chain[n]) IN
       m # n /\ Own(m, chain[m], k + 1) /\ Own(n, chain[n], k + 1)

\* Once slots and splits are over, the nodes come to one height and stay there,
\* whatever was lost, late or rolled back before (p2p.py:216-261, 544-665).
HeightsMeet == <>[](\A m, n \in Nodes : Len(chain[m]) = Len(chain[n]))

\* Nodes of one height whose miners all pause before each other's tips do not
\* stay so: "El mecanismo replace_chain (p2p) resuelve el fork automaticamente"
\* (miner.py:336).
Paused == \A n \in Nodes : Forked(n, Nodes)
ForksResolve == Paused ~> ~Paused

\* A node does not go on rolling back for ever (p2p.py:47-52).
CascadeEnds == <>[][\A n \in Nodes : Len(chain'[n]) >= Len(chain[n])]_chain

\* The best height of all nodes never falls: "el nodo con mas bloques es la
\* fuente de verdad" (miner.py:180).
LongestSurvives ==
  [][\E m \in Nodes : \A n \in Nodes : Len(chain'[m]) >= Len(chain[n])]_chain

\* A height that no node has any more does not keep a miner waiting for ever
\* (miner.py:293, p2p.py:557).
NobodyAwaits == <>[](\A n \in Nodes : ~AwaitsTarget(n))

=============================================================================
