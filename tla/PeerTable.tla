----------------------------- MODULE PeerTable -----------------------------
(***************************************************************************)
(* Which addresses every node talks to: the peer table of network/p2p.py   *)
(* with its handshakes, peer lists, bans and maintenance loop, and the     *)
(* start-up of main.py that fills it. Nodes stop, start again, perhaps at  *)
(* another address, and validators publish their address on the chain.     *)
(* A contact is one step, but one that overlaps others may fail after the  *)
(* peer was banned for theirs.                                             *)
(***************************************************************************)
EXTENDS Naturals, Sequences, FiniteSets

CONSTANTS Nodes, Addresses,
          Validators,     \* the nodes whose endpoint the registry holds
          Home(_),        \* where a node first runs
          Places(_),      \* where it may run later
          Static,         \* _static_peers and BOOTSTRAP_PEERS
          OwnLike(_),     \* addresses that contain the text of the node's port
          SamePort(_),    \* addresses with the node's port
          MaxFailures,    \* max_failures
          MaxLate,        \* bound: failures counted after the ban
          MaxFaults       \* bound: failed contacts, stops, moves and rollbacks

ASSUME PeerConstants ==
  /\ IsFiniteSet(Nodes) /\ Validators \subseteq Nodes
  /\ \A n \in Nodes : Home(n) \in Addresses /\ Places(n) \subseteq Addresses
  /\ Static \subseteq Addresses
  /\ \A n \in Nodes : SamePort(n) \subseteq OwnLike(n) /\ OwnLike(n) \subseteq Addresses
  /\ MaxFailures \in Nat \ {0} /\ {MaxLate, MaxFaults} \subseteq Nat

VARIABLES
  at,         \* the address of a node, host_public and port
  up,         \* the nodes that run
  waiting,    \* miners that wait for a first peer
  peers, banned, failures,  \* self.peers, self.banned_peers, self.peer_failures
  published,  \* per validator, the endpoints the chain has recorded so far
  known,      \* how many of them a node's registry has applied
  hears,      \* whether on_endpoint_change is set on a node's registry
  faults      \* failed contacts, stops, moves and rollbacks so far

table == <<peers, banned, failures>>
registry == <<published, known, hears>>
vars == <<at, up, waiting, table, registry, faults>>

Endpoint(n, v) == published[v][known[n][v]]
Permanent(n) == Static \cup {Endpoint(n, v) : v \in Validators}

\* The nodes that accept a connection to address a
Listening(a) == {m \in up : at[m] = a}

MayFail == faults < MaxFaults
Fault == MayFail /\ faults' = faults + 1

------------------------------------------------------------------------
(* Contacts                                                              *)

\* A ban does not take the peer out of the table of those it talks to us from
Contacts(n) == peers[n] \ banned[n]

\* A contact of n with a succeeded, and m, who listens there, learns new
Reached(n, a, m, new) ==
  /\ failures' = [failures EXCEPT ![n][a] = 0]
  /\ peers' = [peers EXCEPT ![m] = @ \cup new]
  /\ UNCHANGED <<at, up, waiting, banned, registry, faults>>

Greet(n, a) ==
  /\ n \in up /\ a \in Contacts(n)
  /\ \E m \in Listening(a) : Reached(n, a, m, {at[n]} \ OwnLike(m))

ShareList(n, a) ==
  /\ n \in up /\ a \in Contacts(n)
  /\ \E m \in Listening(a) :
       Reached(n, a, m, (peers[n] \cup {at[n]}) \ (banned[m] \cup OwnLike(m) \cup {at[m]}))

\* Mutants of Penalize: nobody is ever expelled; the count starts anew after a ban only
PenalizeMildly(n, a) ==
  /\ failures' = [failures EXCEPT ![n][a] = IF @ + 1 >= MaxFailures THEN 0 ELSE @ + 1]
  /\ UNCHANGED <<peers, banned>>
PenalizePermanent(n, a) ==
  /\ failures' = [failures EXCEPT ![n][a] = @ + 1]
  /\ IF failures[n][a] + 1 >= MaxFailures /\ a \notin Permanent(n)
     THEN peers' = [peers EXCEPT ![n] = @ \ {a}] /\ banned' = [banned EXCEPT ![n] = @ \cup {a}]
     ELSE UNCHANGED <<peers, banned>>
Penalize(n, a) ==
  LET count == failures[n][a] + 1 IN
  IF count < MaxFailures
  THEN failures' = [failures EXCEPT ![n][a] = count] /\ UNCHANGED <<peers, banned>>
  ELSE IF a \in Permanent(n)
  THEN failures' = [failures EXCEPT ![n][a] = 0] /\ UNCHANGED <<peers, banned>>
  ELSE /\ failures' = [failures EXCEPT ![n][a] = count]
       /\ peers' = [peers EXCEPT ![n] = @ \ {a}]
       /\ banned' = [banned EXCEPT ![n] = @ \cup {a}]

\* Nobody is there, or the connection fails
Miss(n, a) ==
  /\ n \in up /\ a \in Contacts(n)
  /\ Penalize(n, a)
  /\ IF Listening(a) = {} THEN UNCHANGED faults ELSE Fault
  /\ UNCHANGED <<at, up, waiting, registry>>

\* A contact that overlaps others fails after they have had the peer banned
MissLate(n, a) ==
  /\ n \in up /\ a \in banned[n] /\ failures[n][a] < MaxFailures + MaxLate
  /\ Penalize(n, a)
  /\ IF Listening(a) = {} THEN UNCHANGED faults ELSE Fault
  /\ UNCHANGED <<at, up, waiting, registry>>

------------------------------------------------------------------------
(* Maintenance                                                           *)

\* What the maintenance loop tries again: the banned, and permanent peers it lost
Retried(n) == (banned[n] \cup (Permanent(n) \ peers[n])) \ {at[n]}

\* Mutants of Rejoin: the ban stays; only permanent peers are tried again
RejoinBanned(n, a) ==
  /\ n \in up /\ a \in Retried(n) /\ Listening(a) # {}
  /\ failures' = [failures EXCEPT ![n][a] = 0]
  /\ peers' = [peers EXCEPT ![n] = @ \cup {a}]
  /\ UNCHANGED <<at, up, waiting, banned, registry, faults>>
Rejoin(n, a) ==
  /\ n \in up /\ a \in Retried(n) /\ Listening(a) # {}
  /\ banned' = [banned EXCEPT ![n] = @ \ {a}]
  /\ failures' = [failures EXCEPT ![n][a] = 0]
  /\ peers' = [peers EXCEPT ![n] = @ \cup {a}]
  /\ UNCHANGED <<at, up, waiting, registry, faults>>

\* A miner without peers puts the permanent ones, perhaps itself, into its table
Bootstrap(n) ==
  /\ n \in up /\ n \in waiting /\ peers[n] = {}
  /\ peers' = [peers EXCEPT ![n] = Permanent(n)]
  /\ UNCHANGED <<at, up, waiting, banned, failures, registry, faults>>

\* It has found one, or has waited long enough
StopWaiting(n) ==
  /\ n \in up /\ n \in waiting
  /\ waiting' = waiting \ {n}
  /\ UNCHANGED <<at, up, table, registry, faults>>

------------------------------------------------------------------------
(* The registry                                                          *)

\* auto_update_endpoint, once the transaction is in a block
Publish(v) ==
  /\ v \in up /\ Endpoint(v, v) # at[v]
  /\ published[v][Len(published[v])] # at[v]
  /\ published' = [published EXCEPT ![v] = Append(@, at[v])]
  /\ UNCHANGED <<at, up, waiting, table, known, hears, faults>>

\* n's chain applies the next update of v: the old endpoint leaves the table
Learn(n, v) ==
  /\ n \in up /\ known[n][v] < Len(published[v])
  /\ known' = [known EXCEPT ![n][v] = @ + 1]
  /\ peers' = IF hears[n] THEN [peers EXCEPT ![n] = @ \ {Endpoint(n, v)}] ELSE peers
  /\ UNCHANGED <<at, up, waiting, banned, failures, published, hears, faults>>

\* n's chain is rolled back; its new registry object has no callback
RollbackRegistry(n) ==
  /\ n \in up /\ Fault
  /\ \E v \in Validators : \E k \in 1 .. known[n][v] : known' = [known EXCEPT ![n][v] = k]
  /\ hears' = [hears EXCEPT ![n] = FALSE]
  /\ UNCHANGED <<at, up, waiting, table, published>>

------------------------------------------------------------------------
(* Stop and start                                                        *)

\* The table is in memory only
Stop(n) ==
  /\ n \in up /\ Fault
  /\ up' = up \ {n}
  /\ waiting' = waiting \ {n}
  /\ peers' = [peers EXCEPT ![n] = {}]
  /\ banned' = [banned EXCEPT ![n] = {}]
  /\ failures' = [failures EXCEPT ![n] = [a \in Addresses |-> 0]]
  /\ hears' = [hears EXCEPT ![n] = FALSE]
  /\ UNCHANGED <<at, published, known>>

StartPeers(n, a) == Static \ (SamePort(n) \cup {a})

\* n starts at address a, where nobody runs
Start(n, a) ==
  /\ n \notin up /\ Listening(a) = {}
  /\ IF a = at[n] THEN UNCHANGED faults ELSE Fault
  /\ at' = [at EXCEPT ![n] = a]
  /\ up' = up \cup {n}
  /\ waiting' = IF n \in Validators THEN waiting \cup {n} ELSE waiting
  /\ peers' = [peers EXCEPT ![n] = StartPeers(n, a)]
  /\ hears' = [hears EXCEPT ![n] = TRUE]
  /\ UNCHANGED <<banned, failures, published, known>>

------------------------------------------------------------------------

Init ==
  /\ at = [n \in Nodes |-> Home(n)]
  /\ up = {} /\ waiting = {}
  /\ peers = [n \in Nodes |-> {}]
  /\ banned = [n \in Nodes |-> {}]
  /\ failures = [n \in Nodes |-> [a \in Addresses |-> 0]]
  /\ published = [v \in Validators |-> <<Home(v)>>]
  /\ known = [n \in Nodes |-> [v \in Validators |-> 1]]
  /\ hears = [n \in Nodes |-> FALSE]
  /\ faults = 0

Next ==
  \/ \E n \in Nodes, a \in Addresses :
       Greet(n, a) \/ ShareList(n, a) \/ Miss(n, a) \/ MissLate(n, a) \/ Rejoin(n, a)
  \/ \E n \in Nodes : Bootstrap(n) \/ StopWaiting(n) \/ RollbackRegistry(n) \/ Stop(n)
  \/ \E n \in Nodes : \E a \in {at[n]} \cup Places(n) : Start(n, a)
  \/ \E v \in Validators : Publish(v)
  \/ \E n \in Nodes, v \in Validators : Learn(n, v)

Spec == Init /\ [][Next]_vars

\* The maintenance loop contacts every peer and retries every lost one again and
\* again, and a contact does not fail for ever while the peer listens (that is
\* what MaxFaults bounds); blocks keep coming; a service is started again.
Fairness ==
  /\ \A n \in Nodes, a \in Addresses :
       WF_vars(Greet(n, a)) /\ WF_vars(ShareList(n, a)) /\ WF_vars(Rejoin(n, a))
  /\ \A n \in Nodes, a \in Addresses : WF_vars(Listening(a) = {} /\ Miss(n, a))
  /\ \A n \in Nodes, v \in Validators : WF_vars(Learn(n, v))
  /\ \A n \in Nodes : WF_vars(Start(n, at[n]))

FairSpec == Spec /\ Fairness
=============================================================================
