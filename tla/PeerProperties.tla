--------------------------- MODULE PeerProperties ---------------------------
(***************************************************************************)
(* What the peer table of PeerTable must provide.                          *)
(***************************************************************************)
EXTENDS PeerTable

\* Every variable has its type, no running node runs where another does, and a
\* count of failures is at max_failures (p2p.py:95) or past it only during a ban.
TypeOK ==
  /\ at \in [Nodes -> Addresses]
  /\ up \subseteq Nodes /\ waiting \subseteq up
  /\ peers \in [Nodes -> SUBSET Addresses] /\ banned \in [Nodes -> SUBSET Addresses]
  /\ failures \in [Nodes -> [Addresses -> 0 .. MaxFailures + MaxLate]]
  /\ \A n \in Nodes, a \in Addresses : failures[n][a] >= MaxFailures => a \in banned[n]
  /\ \A v \in Validators : published[v] \in Seq(Addresses)
  /\ \A n \in Nodes, v \in Validators : known[n][v] \in 1 .. Len(published[v])
  /\ hears \in [Nodes -> BOOLEAN]
  /\ faults \in 0 .. MaxFaults
  /\ \A n, m \in up : at[n] = at[m] => n = m

\* "full mesh discovery" (p2p.py:207): from some time on every node talks to every
\* other one, whatever stops, moves, bans and rollbacks there were before.
MeshForms == <>[](\A n, m \in Nodes : n # m => m \in up /\ at[m] \in Contacts(n))

\* "eliminar el peer viejo del P2P para evitar entradas fantasma" (main.py:171): an
\* address where nobody runs any more, and that the registry does not hold, leaves
\* every table, also where a rollback has lost the callback that removes it.
GhostsLeave ==
  <>[](\A n \in Nodes : peers[n] \subseteq {at[m] : m \in Nodes} \cup Permanent(n))
=============================================================================
