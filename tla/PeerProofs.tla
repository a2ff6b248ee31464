----------------------------- MODULE PeerProofs -----------------------------
(***************************************************************************)
(* The peer table of any number of nodes, whatever stops, moves, fails to  *)
(* answer, is banned or is rolled back.                                    *)
(***************************************************************************)
EXTENDS PeerProperties, SequenceTheorems, TLAPS

\* TypeOK does not say for which nodes and validators there are endpoints.
IInv ==
  /\ TypeOK
  /\ published \in [Validators -> Seq(Addresses)]
  /\ known \in [Nodes -> [Validators -> Nat]]

\* The endpoint that a node knows of a validator, and all permanent peers, are addresses.
LEMMA PermanentShape ==
  ASSUME IInv, NEW n \in Nodes
  PROVE  Permanent(n) \subseteq Addresses
<1>1. ASSUME NEW v \in Validators PROVE Endpoint(n, v) \in Addresses
  <2>1. published[v] \in Seq(Addresses) /\ known[n][v] \in 1 .. Len(published[v])
    BY DEF IInv, TypeOK
  <2>2. QED
    BY <2>1 DEF Endpoint
<1>2. QED
  BY <1>1, PeerConstants DEF PeerConstants, Permanent

\* What a contact may change: the count of the one who calls, the table of the called.
LEMMA ReachedKeeps ==
  ASSUME IInv, NEW n \in Nodes, NEW a \in Addresses, NEW m \in Nodes,
         NEW new \in SUBSET Addresses, Reached(n, a, m, new)
  PROVE  IInv'
<1>1. /\ failures' = [failures EXCEPT ![n][a] = 0]
      /\ peers' = [peers EXCEPT ![m] = @ \cup new]
      /\ at' = at /\ up' = up /\ waiting' = waiting /\ banned' = banned
      /\ published' = published /\ known' = known /\ hears' = hears /\ faults' = faults
  BY DEF Reached, registry
<1>2. peers' \in [Nodes -> SUBSET Addresses]
  BY <1>1 DEF IInv, TypeOK
<1>3. /\ failures' \in [Nodes -> [Addresses -> 0 .. MaxFailures + MaxLate]]
      /\ \A o \in Nodes, b \in Addresses : failures'[o][b] >= MaxFailures => b \in banned'[o]
  <2>1. 0 \in 0 .. MaxFailures + MaxLate /\ ~(0 >= MaxFailures)
    BY PeerConstants DEF PeerConstants
  <2>2. \A o \in Nodes, b \in Addresses : failures'[o][b] \in {0, failures[o][b]}
    BY <1>1 DEF IInv, TypeOK
  <2>3. failures' \in [Nodes -> [Addresses -> 0 .. MaxFailures + MaxLate]]
    BY <1>1, <2>1 DEF IInv, TypeOK
  <2>4. QED
    BY <1>1, <2>1, <2>2, <2>3 DEF IInv, TypeOK
<1>4. QED
  BY <1>1, <1>2, <1>3 DEF IInv, TypeOK

LEMMA GreetKeeps ==
  ASSUME IInv, NEW n \in Nodes, NEW a \in Addresses, Greet(n, a)
  PROVE  IInv'
<1>1. PICK m \in Listening(a) : Reached(n, a, m, {at[n]} \ OwnLike(m))
  BY DEF Greet
<1>2. m \in Nodes /\ {at[n]} \ OwnLike(m) \in SUBSET Addresses
  BY <1>1 DEF IInv, TypeOK, Listening
<1>3. QED
  BY <1>1, <1>2, ReachedKeeps

LEMMA ShareListKeeps ==
  ASSUME IInv, NEW n \in Nodes, NEW a \in Addresses, ShareList(n, a)
  PROVE  IInv'
<1>1. PICK m \in Listening(a) :
        Reached(n, a, m, (peers[n] \cup {at[n]}) \ (banned[m] \cup OwnLike(m) \cup {at[m]}))
  BY DEF ShareList
<1>2. /\ m \in Nodes
      /\ (peers[n] \cup {at[n]}) \ (banned[m] \cup OwnLike(m) \cup {at[m]}) \in SUBSET Addresses
  BY <1>1 DEF IInv, TypeOK, Listening
<1>3. QED
  BY <1>1, <1>2, ReachedKeeps

\* A fault is counted up to the bound.
LEMMA FaultCounts ==
  ASSUME IInv, Fault
  PROVE  faults' \in 0 .. MaxFaults
BY PeerConstants DEF PeerConstants, IInv, TypeOK, Fault, MayFail

\* The count of a failed contact reaches the limit, or passes it, only with the ban: where
\* the peer was not banned before, it was below.
LEMMA MissKeeps ==
  ASSUME IInv, NEW n \in Nodes, NEW a \in Addresses, Miss(n, a) \/ MissLate(n, a)
  PROVE  IInv'
<1> DEFINE count == failures[n][a] + 1
<1>1. /\ at' = at /\ up' = up /\ waiting' = waiting
      /\ published' = published /\ known' = known /\ hears' = hears
  BY DEF Miss, MissLate, registry
<1>2. faults' \in 0 .. MaxFaults
  BY FaultCounts DEF Miss, MissLate, IInv, TypeOK
<1>3. count \in 1 .. MaxFailures + MaxLate /\ MaxFailures \in Nat \ {0} /\ MaxLate \in Nat
  <2>1. failures[n][a] \in 0 .. MaxFailures + MaxLate /\ MaxFailures \in Nat \ {0} /\ MaxLate \in Nat
    BY PeerConstants DEF PeerConstants, IInv, TypeOK
  <2>2. CASE Miss(n, a)
    <3>1. ~(failures[n][a] >= MaxFailures)
      BY <2>2 DEF Miss, Contacts, IInv, TypeOK
    <3>2. QED
      BY <2>1, <3>1
  <2>3. CASE MissLate(n, a)
    <3>1. failures[n][a] < MaxFailures + MaxLate
      BY <2>3 DEF MissLate
    <3>2. QED
      BY <2>1, <3>1
  <2>4. QED
    BY <2>2, <2>3
<1>4. \/ /\ count < MaxFailures
         /\ failures' = [failures EXCEPT ![n][a] = count] /\ peers' = peers /\ banned' = banned
      \/ failures' = [failures EXCEPT ![n][a] = 0] /\ peers' = peers /\ banned' = banned
      \/ /\ failures' = [failures EXCEPT ![n][a] = count]
         /\ peers' = [peers EXCEPT ![n] = @ \ {a}]
         /\ banned' = [banned EXCEPT ![n] = @ \cup {a}]
  BY DEF Miss, MissLate, Penalize
<1> HIDE DEF count
<1>5. PICK k \in 0 .. MaxFailures + MaxLate : failures' = [failures EXCEPT ![n][a] = k]
  BY <1>3, <1>4
<1>6. failures' \in [Nodes -> [Addresses -> 0 .. MaxFailures + MaxLate]]
  BY <1>5 DEF IInv, TypeOK
<1>7. peers' \in [Nodes -> SUBSET Addresses] /\ banned' \in [Nodes -> SUBSET Addresses]
  <2>1. CASE peers' = peers /\ banned' = banned
    BY <2>1 DEF IInv, TypeOK
  <2>2. CASE /\ peers' = [peers EXCEPT ![n] = @ \ {a}]
             /\ banned' = [banned EXCEPT ![n] = @ \cup {a}]
    <3>1. peers' \in [Nodes -> SUBSET Addresses]
      BY <2>2 DEF IInv, TypeOK
    <3>2. banned' \in [Nodes -> SUBSET Addresses]
      BY <2>2 DEF IInv, TypeOK
    <3>3. QED
      BY <3>1, <3>2
  <2>3. QED
    BY <1>4, <2>1, <2>2
<1>8. ASSUME NEW o \in Nodes, NEW b \in Addresses, failures'[o][b] >= MaxFailures
      PROVE  b \in banned'[o]
  <2>1. CASE o = n /\ b = a
    <3>1. \A i \in Nat : [failures EXCEPT ![n][a] = i][n][a] = i
      BY DEF IInv, TypeOK
    <3>2. QED
      BY <1>3, <1>4, <1>8, <2>1, <3>1 DEF IInv, TypeOK
  <2>2. CASE ~(o = n /\ b = a)
    <3>1. failures'[o][b] = failures[o][b]
      BY <1>5, <2>2 DEF IInv, TypeOK
    <3>2. b \in banned[o] /\ banned[o] \subseteq banned'[o]
      BY <1>4, <1>8, <3>1 DEF IInv, TypeOK
    <3>3. QED
      BY <3>2
  <2>3. QED
    BY <2>1, <2>2
<1>9. QED
  BY <1>1, <1>2, <1>6, <1>7, <1>8 DEF IInv, TypeOK

\* A ban is lifted together with its count.
LEMMA RejoinKeeps ==
  ASSUME IInv, NEW n \in Nodes, NEW a \in Addresses, Rejoin(n, a)
  PROVE  IInv'
<1>1. /\ banned' = [banned EXCEPT ![n] = @ \ {a}]
      /\ failures' = [failures EXCEPT ![n][a] = 0]
      /\ peers' = [peers EXCEPT ![n] = @ \cup {a}]
      /\ at' = at /\ up' = up /\ waiting' = waiting
      /\ published' = published /\ known' = known /\ hears' = hears /\ faults' = faults
  BY DEF Rejoin, registry
<1>2. peers' \in [Nodes -> SUBSET Addresses] /\ banned' \in [Nodes -> SUBSET Addresses]
  BY <1>1 DEF IInv, TypeOK
<1>3. 0 \in 0 .. MaxFailures + MaxLate /\ ~(0 >= MaxFailures)
  BY PeerConstants DEF PeerConstants
<1>4. failures' \in [Nodes -> [Addresses -> 0 .. MaxFailures + MaxLate]]
  BY <1>1, <1>3 DEF IInv, TypeOK
<1>5. ASSUME NEW o \in Nodes, NEW b \in Addresses, failures'[o][b] >= MaxFailures
      PROVE  b \in banned'[o]
  <2>1. ~(o = n /\ b = a)
    BY <1>1, <1>3, <1>5 DEF IInv, TypeOK
  <2>2. failures'[o][b] = failures[o][b]
    BY <1>1, <2>1 DEF IInv, TypeOK
  <2>3. b \in banned[o]
    BY <1>5, <2>2 DEF IInv, TypeOK
  <2>4. QED
    BY <1>1, <2>1, <2>3 DEF IInv, TypeOK
<1>6. QED
  BY <1>1, <1>2, <1>4, <1>5 DEF IInv, TypeOK

LEMMA BootstrapKeeps ==
  ASSUME IInv, NEW n \in Nodes, Bootstrap(n)
  PROVE  IInv'
<1>1. peers' \in [Nodes -> SUBSET Addresses]
  BY PermanentShape DEF Bootstrap, IInv, TypeOK
<1>2. QED
  BY <1>1 DEF Bootstrap, registry, IInv, TypeOK

LEMMA StopWaitingKeeps ==
  ASSUME IInv, NEW n \in Nodes, StopWaiting(n)
  PROVE  IInv'
BY DEF StopWaiting, table, registry, IInv, TypeOK

\* The endpoints recorded so far stay; one more follows.
LEMMA PublishKeeps ==
  ASSUME IInv, NEW v \in Validators, Publish(v)
  PROVE  IInv'
<1>1. /\ published' = [published EXCEPT ![v] = Append(@, at[v])]
      /\ at' = at /\ up' = up /\ waiting' = waiting /\ peers' = peers /\ banned' = banned
      /\ failures' = failures /\ known' = known /\ hears' = hears /\ faults' = faults
  BY DEF Publish, table
<1>2. at[v] \in Addresses
  BY PeerConstants DEF PeerConstants, IInv, TypeOK
<1>3. ASSUME NEW w \in Validators
      PROVE  /\ published'[w] \in Seq(Addresses)
             /\ Len(published'[w]) >= Len(published[w]) /\ Len(published[w]) \in Nat
  BY <1>1, <1>2 DEF IInv
<1>4. published' \in [Validators -> Seq(Addresses)]
  BY <1>1, <1>3 DEF IInv
<1>5. \A n \in Nodes, w \in Validators : known'[n][w] \in 1 .. Len(published'[w])
  <2> SUFFICES ASSUME NEW n \in Nodes, NEW w \in Validators
               PROVE  known'[n][w] \in 1 .. Len(published'[w])
    OBVIOUS
  <2>1. known[n][w] \in 1 .. Len(published[w])
    BY DEF IInv, TypeOK
  <2>2. Len(published'[w]) \in Nat
    BY <1>3
  <2>3. QED
    BY <1>1, <1>3, <2>1, <2>2
<1>6. QED
  BY <1>1, <1>3, <1>4, <1>5 DEF IInv, TypeOK

LEMMA LearnKeeps ==
  ASSUME IInv, NEW n \in Nodes, NEW v \in Validators, Learn(n, v)
  PROVE  IInv'
<1>1. /\ known[n][v] < Len(published[v]) /\ known' = [known EXCEPT ![n][v] = @ + 1]
      /\ at' = at /\ up' = up /\ waiting' = waiting /\ banned' = banned
      /\ failures' = failures /\ published' = published /\ hears' = hears
      /\ faults' = faults
  BY DEF Learn
<1>2. peers' \in [Nodes -> SUBSET Addresses]
  BY DEF Learn, IInv, TypeOK
<1>3. known' \in [Nodes -> [Validators -> Nat]]
  BY <1>1 DEF IInv
<1>4. \A m \in Nodes, w \in Validators : known'[m][w] \in 1 .. Len(published'[w])
  <2> SUFFICES ASSUME NEW m \in Nodes, NEW w \in Validators
               PROVE  known'[m][w] \in 1 .. Len(published[w])
    BY <1>1
  <2>1. known[m][w] \in 1 .. Len(published[w]) /\ Len(published[w]) \in Nat
    BY DEF IInv, TypeOK
  <2>2. CASE m = n /\ w = v
    BY <1>1, <2>1, <2>2 DEF IInv
  <2>3. CASE ~(m = n /\ w = v)
    BY <1>1, <2>1, <2>3 DEF IInv
  <2>4. QED
    BY <2>2, <2>3
<1>5. QED
  BY <1>1, <1>2, <1>3, <1>4 DEF IInv, TypeOK

LEMMA RollbackRegistryKeeps ==
  ASSUME IInv, NEW n \in Nodes, RollbackRegistry(n)
  PROVE  IInv'
<1>1. /\ hears' = [hears EXCEPT ![n] = FALSE] /\ Fault
      /\ at' = at /\ up' = up /\ waiting' = waiting /\ peers' = peers /\ banned' = banned
      /\ failures' = failures /\ published' = published
  BY DEF RollbackRegistry, table
<1>2. PICK v \in Validators : \E k \in 1 .. known[n][v] :
        known' = [known EXCEPT ![n][v] = k]
  BY DEF RollbackRegistry
<1>3. PICK k \in 1 .. known[n][v] : known' = [known EXCEPT ![n][v] = k]
  BY <1>2
<1>4. known[n][v] \in Nat /\ k \in Nat
  BY DEF IInv
<1>5. known' \in [Nodes -> [Validators -> Nat]]
  BY <1>3, <1>4 DEF IInv
<1>6. \A m \in Nodes, w \in Validators : known'[m][w] \in 1 .. Len(published'[w])
  <2> SUFFICES ASSUME NEW m \in Nodes, NEW w \in Validators
               PROVE  known'[m][w] \in 1 .. Len(published[w])
    BY <1>1
  <2>1. known[m][w] \in 1 .. Len(published[w]) /\ Len(published[w]) \in Nat
    BY DEF IInv, TypeOK
  <2>2. CASE m = n /\ w = v
    BY <1>3, <1>4, <2>1, <2>2 DEF IInv
  <2>3. CASE ~(m = n /\ w = v)
    BY <1>3, <2>1, <2>3 DEF IInv
  <2>4. QED
    BY <2>2, <2>3
<1>7. hears' \in [Nodes -> BOOLEAN] /\ faults' \in 0 .. MaxFaults
  BY <1>1, FaultCounts DEF IInv, TypeOK
<1>8. QED
  BY <1>1, <1>5, <1>6, <1>7 DEF IInv, TypeOK

LEMMA StopKeeps ==
  ASSUME IInv, NEW n \in Nodes, Stop(n)
  PROVE  IInv'
<1>1. /\ up' = up \ {n} /\ waiting' = waiting \ {n} /\ Fault
      /\ peers' = [peers EXCEPT ![n] = {}] /\ banned' = [banned EXCEPT ![n] = {}]
      /\ failures' = [failures EXCEPT ![n] = [a \in Addresses |-> 0]]
      /\ hears' = [hears EXCEPT ![n] = FALSE]
      /\ at' = at /\ published' = published /\ known' = known
  BY DEF Stop
<1>2. 0 \in 0 .. MaxFailures + MaxLate /\ ~(0 >= MaxFailures)
  BY PeerConstants DEF PeerConstants
<1>3. failures' \in [Nodes -> [Addresses -> 0 .. MaxFailures + MaxLate]]
  BY <1>1, <1>2 DEF IInv, TypeOK
<1>4. ASSUME NEW o \in Nodes, NEW b \in Addresses, failures'[o][b] >= MaxFailures
      PROVE  b \in banned'[o]
  <2>1. o # n
    BY <1>1, <1>2, <1>4 DEF IInv, TypeOK
  <2>2. QED
    BY <1>1, <1>4, <2>1 DEF IInv, TypeOK
<1>5. /\ peers' \in [Nodes -> SUBSET Addresses] /\ banned' \in [Nodes -> SUBSET Addresses]
      /\ hears' \in [Nodes -> BOOLEAN] /\ faults' \in 0 .. MaxFaults
  BY <1>1, FaultCounts DEF IInv, TypeOK
<1>6. QED
  BY <1>1, <1>3, <1>4, <1>5 DEF IInv, TypeOK

\* A node starts where nobody runs.
LEMMA StartKeeps ==
  ASSUME IInv, NEW n \in Nodes, NEW a \in {at[n]} \cup Places(n), Start(n, a)
  PROVE  IInv'
<1>1. /\ n \notin up /\ Listening(a) = {}
      /\ at' = [at EXCEPT ![n] = a] /\ up' = up \cup {n}
      /\ waiting' = IF n \in Validators THEN waiting \cup {n} ELSE waiting
      /\ peers' = [peers EXCEPT ![n] = StartPeers(n, a)]
      /\ hears' = [hears EXCEPT ![n] = TRUE]
      /\ banned' = banned /\ failures' = failures /\ published' = published /\ known' = known
  BY DEF Start
<1>2. a \in Addresses /\ StartPeers(n, a) \subseteq Addresses
  BY PeerConstants DEF PeerConstants, StartPeers, IInv, TypeOK
<1>3. faults' \in 0 .. MaxFaults
  BY FaultCounts DEF Start, IInv, TypeOK
<1>4. ASSUME NEW o \in up', NEW m \in up', at'[o] = at'[m] PROVE o = m
  <2>1. \A p \in up : at'[p] = at[p] /\ at[p] # a
    BY <1>1 DEF Listening, IInv, TypeOK
  <2>2. at'[n] = a
    BY <1>1 DEF IInv, TypeOK
  <2>3. QED
    BY <1>1, <1>4, <2>1, <2>2 DEF IInv, TypeOK
<1>5. /\ at' \in [Nodes -> Addresses] /\ up' \subseteq Nodes /\ waiting' \subseteq up'
      /\ peers' \in [Nodes -> SUBSET Addresses] /\ hears' \in [Nodes -> BOOLEAN]
  BY <1>1, <1>2 DEF IInv, TypeOK
<1>6. QED
  BY <1>1, <1>3, <1>4, <1>5 DEF IInv, TypeOK

LEMMA InitKeeps == Init => IInv
<1> SUFFICES ASSUME Init PROVE IInv
  OBVIOUS
<1>1. /\ \A n \in Nodes : Home(n) \in Addresses
      /\ Validators \subseteq Nodes /\ MaxFailures \in Nat \ {0} /\ MaxLate \in Nat /\ MaxFaults \in Nat
  BY PeerConstants DEF PeerConstants
<1>2. \A v \in Validators : <<Home(v)>> \in Seq(Addresses) /\ Len(<<Home(v)>>) = 1
  BY <1>1
<1>3. published \in [Validators -> Seq(Addresses)]
  BY <1>2 DEF Init
<1>4. \A n \in Nodes, v \in Validators : known[n][v] \in 1 .. Len(published[v])
  BY <1>2 DEF Init
<1>5. failures \in [Nodes -> [Addresses -> 0 .. MaxFailures + MaxLate]]
      /\ \A n \in Nodes, a \in Addresses : failures[n][a] < MaxFailures
  BY <1>1 DEF Init
<1>6. QED
  BY <1>1, <1>3, <1>4, <1>5 DEF Init, IInv, TypeOK

LEMMA NextKeeps == IInv /\ [Next]_vars => IInv'
<1> SUFFICES ASSUME IInv, [Next]_vars PROVE IInv'
  OBVIOUS
<1>1. ASSUME NEW n \in Nodes, NEW a \in Addresses,
             Greet(n, a) \/ ShareList(n, a) \/ Miss(n, a) \/ MissLate(n, a) \/ Rejoin(n, a)
      PROVE  IInv'
  BY <1>1, GreetKeeps, ShareListKeeps, MissKeeps, RejoinKeeps
<1>2. ASSUME NEW n \in Nodes,
             Bootstrap(n) \/ StopWaiting(n) \/ RollbackRegistry(n) \/ Stop(n)
      PROVE  IInv'
  BY <1>2, BootstrapKeeps, StopWaitingKeeps, RollbackRegistryKeeps, StopKeeps
<1>3. ASSUME NEW n \in Nodes, NEW a \in {at[n]} \cup Places(n), Start(n, a) PROVE IInv'
  BY <1>3, StartKeeps
<1>4. ASSUME NEW v \in Validators, Publish(v) PROVE IInv'
  BY <1>4, PublishKeeps
<1>5. ASSUME NEW n \in Nodes, NEW v \in Validators, Learn(n, v) PROVE IInv'
  BY <1>5, LearnKeeps
<1>6. CASE UNCHANGED vars
  BY <1>6 DEF vars, table, registry, IInv, TypeOK
<1>7. QED
  BY <1>1, <1>2, <1>3, <1>4, <1>5, <1>6 DEF Next

\* p2p.py:92-109, main.py:94-103. Whatever stops, moves, fails and is rolled back, no two
\* running nodes are at one address, a count of failures is at the
\* limit or past it only during a ban, and nobody has applied more of a validator's endpoints than the chain has
\* recorded.
THEOREM TablesAreTyped == Spec => []TypeOK
<1>1. IInv => TypeOK
  BY DEF IInv
<1>2. QED
  BY <1>1, InitKeeps, NextKeeps, PTL DEF Spec
=============================================================================
