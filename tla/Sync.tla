------------------------------- MODULE Sync -------------------------------
(***************************************************************************)
(* Several nodes that forge blocks, gossip them and fetch from each other  *)
(* what they miss: the synchronisation handlers of network/p2p.py with the *)
(* start-up and the loop of network/miner.py. A handler is one step, as    *)
(* the event loop runs it up to its next await. What a node does with a    *)
(* block or a branch is the subject of module Blockchain; here a block is  *)
(* valid where it continues the tip in a later slot.                       *)
(***************************************************************************)
EXTENDS Naturals, Sequences, FiniteSets

CONSTANTS Nodes,
          StartChains,     \* the chains the nodes may begin with
          Elected(_, _),   \* the leader of a slot on a chain
          HashBelow(_, _), \* order of the hashes of two chains' tips
          SegmentLimit,    \* blocks of a CHAIN_SEGMENT
          AncestorWindow,  \* blocks searched for a common ancestor
          RollbackStep,    \* blocks of a safety rollback
          MaxSafety,       \* MAX_ROLLBACKS_SEGURIDAD
          MaxReorg,        \* MAX_REORG_DEPTH
          PeersAsked,      \* peers whose height a miner asks before an election
          IdleRequests,    \* whether requests to peers that are not ahead are followed
          IdleRounds,      \* whether rounds of nodes that do not lead are followed
          MaxSlot, MaxFaults  \* bounds: slots; splits, restarts, silent peers and late slots

ASSUME SyncConstants ==
  /\ IsFiniteSet(Nodes)
  /\ {SegmentLimit, AncestorWindow, RollbackStep} \subseteq Nat \ {0}
  /\ {MaxSafety, MaxReorg, PeersAsked, MaxSlot, MaxFaults} \subseteq Nat
  /\ {IdleRequests, IdleRounds} \subseteq BOOLEAN
  /\ RollbackStep <= MaxReorg /\ AncestorWindow <= MaxReorg

VARIABLES
  chain,    \* per node, its blocks above genesis: <<slot, life of the producer>>
  syncing,  \* self.syncing
  target,   \* self.sync_target
  safety,   \* self._rollbacks_seguridad
  forge,    \* the miner: where its round stands and what the round has read
  mined,    \* self.last_mined_slot
  life,     \* how often the node was restarted
  msgs,     \* messages on their way
  cut,      \* nodes that a split separates from the others
  slot,     \* the current slot
  faults,   \* splits, restarts and unanswered questions so far
  late,     \* slots and synchronisations that ended before what was under way
  overran   \* history: a block was forged past the end of its slot

node == <<chain, syncing, target, safety>>
miner == <<forge, mined, life>>
world == <<cut, slot, faults, late, overran>>
vars == <<node, miner, msgs, world>>

MayFail == faults + late < MaxFaults

------------------------------------------------------------------------
(* Chains. A hash determines the block and all before it.                *)

Prefix(c, i) == SubSeq(c, 1, i)
Bigger(i, j) == IF i > j THEN i ELSE j

\* Number of blocks above genesis that two chains have in common
Shared(c, d) ==
  Cardinality({i \in 1..Len(c) : i <= Len(d) /\ Prefix(c, i) = Prefix(d, i)})

LastSlot(c) == IF c = <<>> THEN 0 ELSE c[Len(c)][1]

\* add_block: the next block after the tip, in a later slot
ContinuesAnySlot(new, c) == new # <<>> /\ Prefix(new, Len(new) - 1) = c
Continues(new, c) ==
  new # <<>> /\ Prefix(new, Len(new) - 1) = c /\ LastSlot(new) > LastSlot(c)

------------------------------------------------------------------------
(* Messages                                                              *)

Reach(n) == {p \in Nodes \ {n} : (p \in cut) = (n \in cut)}

\* A peer ignores the request unless it is ahead, or gets ahead before it reads
\* it; an instance may leave out the second case.
Asked(n, c) == {p \in Reach(n) : IdleRequests \/ Len(chain[p]) > Len(c)}

ChainRequests(n, c) ==
  {[type |-> "REQUEST_CHAIN_SYNC", from |-> n, to |-> p, last |-> Len(c)] : p \in Asked(n, c)}
FullRequests(n) ==
  {[type |-> "REQUEST_FULL_CHAIN", from |-> n, to |-> p] : p \in Reach(n)}
Announcements(n, new) ==
  {[type |-> "NEW_BLOCK", to |-> p, chain |-> new] : p \in Reach(n)}

\* The message m is handled; what the handler sends is under way
Handled(m, sent) == msgs' = (msgs \ {m}) \cup sent

\* request_sync without force asks only when no other call is running
Asking(n, c) == IF syncing[n] THEN {} ELSE ChainRequests(n, c)

------------------------------------------------------------------------
(* Serving                                                               *)

Segment(n, m) ==
  [type |-> "CHAIN_SEGMENT", to |-> m.from, first |-> m.last + 1,
   chain |-> IF Len(chain[n]) > m.last + SegmentLimit
             THEN Prefix(chain[n], m.last + SegmentLimit) ELSE chain[n],
   height |-> Len(chain[n])]

OnRequestChainSync(n, m) ==
  /\ m.type = "REQUEST_CHAIN_SYNC"
  /\ Handled(m, IF Len(chain[n]) > m.last /\ m.from \in Reach(n)
                THEN {Segment(n, m)} ELSE {})
  /\ UNCHANGED <<node, miner, world>>

OnRequestFullChain(n, m) ==
  /\ m.type = "REQUEST_FULL_CHAIN"
  /\ LET base == IF Len(chain[n]) > MaxReorg THEN Len(chain[n]) - MaxReorg ELSE 0 IN
     Handled(m, IF m.from \in Reach(n)
                THEN {[type |-> "FULL_CHAIN", to |-> m.from, base |-> base,
                       chain |-> chain[n]]}
                ELSE {})
  /\ UNCHANGED <<node, miner, world>>

------------------------------------------------------------------------
(* CHAIN_SEGMENT                                                         *)

\* The segment begins at or below the blocks the node has in common with it
Links(c, m) == m.first - 1 <= Shared(c, m.chain)

\* Every block was known, or those beyond the tip were added
Fits(c, m) == Links(c, m) /\ Shared(c, m.chain) \in {Len(c), Len(m.chain)}

\* The block in conflict has its parent among the last blocks, never genesis
HasAncestor(c, m) ==
  LET k == Shared(c, m.chain) IN
  Links(c, m) /\ k > 0 /\ k + AncestorWindow > Len(c)

SafeHeightTip(c) == Len(c)
SafeHeight(c) == IF Len(c) > RollbackStep THEN Len(c) - RollbackStep ELSE 0

\* What ends the handler, on the chain c it leaves: ask on below the target, or
\* forget it. A forced request_sync, created before, runs after.
Conclude(n, m, c, forced) ==
  LET goal == Bigger(target[n], m.height)
      below == goal > 0 /\ Len(c) < goal
  IN /\ target' = [target EXCEPT ![n] = IF below THEN goal ELSE 0]
     /\ syncing' = [syncing EXCEPT ![n] = forced \/ (below /\ @)]
     /\ Handled(m, IF below \/ forced THEN ChainRequests(n, c) ELSE {})
     /\ chain' = [chain EXCEPT ![n] = c]

Integrate(n, m) ==
  LET grown == Len(m.chain) > Len(chain[n])
  IN /\ Fits(chain[n], m)
     /\ Conclude(n, m, IF grown THEN m.chain ELSE chain[n], FALSE)
     /\ safety' = [safety EXCEPT ![n] = IF grown THEN 0 ELSE @]

RollbackToAncestor(n, m) ==
  LET k == Shared(chain[n], m.chain)
  IN /\ ~Fits(chain[n], m) /\ HasAncestor(chain[n], m)
     /\ Conclude(n, m, Prefix(chain[n], k), TRUE)
     /\ UNCHANGED safety

SafetyRollback(n, m) ==
  /\ ~Fits(chain[n], m) /\ ~HasAncestor(chain[n], m)
  /\ safety[n] < MaxSafety
  /\ safety' = [safety EXCEPT ![n] = @ + 1]
  /\ Conclude(n, m, Prefix(chain[n], SafeHeight(chain[n])), TRUE)

\* The limit is reached: nothing but the target has changed
StopRollingBack(n, m) ==
  /\ ~Fits(chain[n], m) /\ ~HasAncestor(chain[n], m)
  /\ safety[n] = MaxSafety
  /\ target' = [target EXCEPT ![n] = Bigger(@, m.height)]
  /\ Handled(m, {})
  /\ UNCHANGED <<chain, syncing, safety>>

OnChainSegment(n, m) ==
  /\ m.type = "CHAIN_SEGMENT"
  /\ \/ Integrate(n, m)
     \/ RollbackToAncestor(n, m)
     \/ SafetyRollback(n, m)
     \/ StopRollingBack(n, m)
  /\ UNCHANGED <<miner, world>>

------------------------------------------------------------------------
(* NEW_BLOCK and FULL_CHAIN                                              *)

\* A block beyond the next starts a synchronisation; one that does not fit
\* makes the node ask for whole chains
OnNewBlock(n, m) ==
  LET new == m.chain
      gap == Len(new) > Len(chain[n]) + 1
      known == Len(new) <= Len(chain[n]) /\ Prefix(chain[n], Len(new)) = new
      extends == Continues(new, chain[n])
  IN /\ m.type = "NEW_BLOCK"
     /\ chain' = [chain EXCEPT ![n] = IF extends THEN new ELSE @]
     /\ safety' = [safety EXCEPT ![n] = IF extends THEN 0 ELSE @]
     /\ syncing' = [syncing EXCEPT ![n] = @ \/ gap]
     /\ Handled(m, CASE gap -> Asking(n, chain[n])
                     [] known \/ extends -> {}
                     [] OTHER -> FullRequests(n))
     /\ UNCHANGED <<target, miner, world>>

\* replace_chain on the local blocks below base and the received ones above
Adopts(c, m) ==
  LET k == Shared(c, m.chain) IN
  /\ m.base <= Len(c) + 1
  /\ m.base - 1 <= k
  /\ \/ Len(m.chain) > Len(c)
     \/ Len(m.chain) = Len(c) /\ m.chain # c /\ HashBelow(m.chain, c)
  /\ Len(c) - k <= MaxReorg

OnFullChain(n, m) ==
  /\ m.type = "FULL_CHAIN"
  /\ chain' = [chain EXCEPT ![n] = IF Adopts(@, m) THEN m.chain ELSE @]
  /\ Handled(m, {})
  /\ UNCHANGED <<syncing, target, safety, miner, world>>

------------------------------------------------------------------------
(* request_sync                                                          *)

\* By peer_maintenance_loop every 30 s, by announce_to_peers, by the miner
\* that lags, and again five seconds after a gap
RequestSync(n) ==
  /\ ~syncing[n]
  /\ syncing' = [syncing EXCEPT ![n] = TRUE]
  /\ msgs' = msgs \cup ChainRequests(n, chain[n])
  /\ UNCHANGED <<chain, target, safety, miner, world>>

\* The height has not changed for three seconds, or two minutes are over. What
\* was asked for may still be on its way: then it is late.
SyncEnds(n) ==
  LET awaited == \E m \in msgs : \/ m.type = "REQUEST_CHAIN_SYNC" /\ m.from = n
                                 \/ m.type = "CHAIN_SEGMENT" /\ m.to = n
  IN /\ syncing[n]
     /\ awaited => MayFail
     /\ late' = late + (IF awaited THEN 1 ELSE 0)
     /\ syncing' = [syncing EXCEPT ![n] = FALSE]
     /\ UNCHANGED <<chain, target, safety, miner, msgs, cut, slot, faults, overran>>

------------------------------------------------------------------------
(* The miner. A round of its loop waits for the answer of one peer after   *)
(* the other, for two to four seconds before it broadcasts its block, and  *)
(* for half a second before it adds the block; the slot it has read at its *)
(* beginning may be over by then.                                          *)

Idle == [phase |-> "idle", slot |-> 0, base |-> <<>>, left |-> {}, goal |-> 0, forked |-> FALSE]

\* The target announced by a peer is not reached: no forging
AwaitsTarget(n) == target[n] > 0 /\ Len(chain[n]) < target[n]

\* The first peers of the table
Polls(n) ==
  {S \in SUBSET (Nodes \ {n}) :
     Cardinality(S) <= PeersAsked /\ (S = Nodes \ {n} \/ Cardinality(S) = PeersAsked)}

\* The slot and the tip are read. That the slot was mined already is checked
\* after the answers; nothing but the round itself changes it. A round of a node
\* that does not lead only asks for what is missing, as RequestSync does; an
\* instance may leave it out where the leader of a slot is the same on all chains.
BeginRound(n) ==
  /\ forge[n].phase = "idle"
  /\ mined[n] # slot
  /\ ~AwaitsTarget(n)
  /\ IdleRounds \/ Elected(chain[n], slot) = n
  /\ \E S \in Polls(n) :
       forge' = [forge EXCEPT ![n] = [Idle EXCEPT !.phase = "ask", !.slot = slot,
                                                 !.base = chain[n], !.left = S]]
  /\ UNCHANGED <<node, mined, life, msgs, world>>

\* /info of a peer: its height, and whether it has another tip of the height at
\* which the round began. A peer at genesis does not count as an answer.
Hear(n, p) ==
  LET h == Len(chain[p]) IN
  /\ p \in Reach(n)
  /\ forge' = [forge EXCEPT
       ![n].left = @ \ {p},
       ![n].goal = Bigger(@, h),
       ![n].forked = @ \/ (h > 0 /\ h = Len(forge[n].base) /\ chain[p] # forge[n].base)]
  /\ UNCHANGED faults

\* No answer within three seconds; that of a peer within reach is a fault
HearNothing(n, p) ==
  /\ p \in Reach(n) => MayFail
  /\ forge' = [forge EXCEPT ![n].left = @ \ {p}]
  /\ faults' = faults + (IF p \in Reach(n) THEN 1 ELSE 0)

AskPeer(n) ==
  /\ forge[n].phase = "ask"
  /\ \E p \in forge[n].left : Hear(n, p) \/ HearNothing(n, p)
  /\ UNCHANGED <<node, mined, life, msgs, cut, slot, late, overran>>

\* A peer was higher than the node is now
LagsNever(n) == FALSE
Lags(n) == Len(chain[n]) < forge[n].goal

Leads(n) == ~Lags(n) /\ ~forge[n].forked /\ Elected(chain[n], forge[n].slot) = n

\* All have answered: ask for what is missing, pause, or be elected and begin
\* the two to four seconds of aggregation
Elect(n) ==
  /\ forge[n].phase = "ask" /\ forge[n].left = {}
  /\ forge' = [forge EXCEPT ![n] =
       IF Leads(n) THEN [Idle EXCEPT !.phase = "wait", !.slot = forge[n].slot, !.base = chain[n]]
       ELSE Idle]
  /\ msgs' = msgs \cup (IF Lags(n) THEN Asking(n, chain[n]) ELSE {})
  /\ syncing' = [syncing EXCEPT ![n] = @ \/ Lags(n)]
  /\ overran' = (overran \/ (Leads(n) /\ forge[n].slot # slot))
  /\ UNCHANGED <<chain, target, safety, mined, life, cut, slot, faults, late>>

Forged(n) == Append(forge[n].base, <<forge[n].slot, life[n]>>)

\* The block is broadcast before it is added, unless the tip has changed
Broadcast(n) ==
  /\ forge[n].phase = "wait"
  /\ IF chain[n] = forge[n].base
     THEN /\ msgs' = msgs \cup Announcements(n, Forged(n))
          /\ forge' = [forge EXCEPT ![n].phase = "sent"]
     ELSE /\ forge' = [forge EXCEPT ![n] = Idle]
          /\ UNCHANGED msgs
  /\ UNCHANGED <<node, mined, life, world>>

\* Half a second later: add it, unless the tip has changed or has its slot
AddOwnBlock(n) ==
  /\ forge[n].phase = "sent"
  /\ forge' = [forge EXCEPT ![n] = Idle]
  /\ IF Continues(Forged(n), chain[n])
     THEN /\ chain' = [chain EXCEPT ![n] = Forged(n)]
          /\ mined' = [mined EXCEPT ![n] = forge[n].slot]
     ELSE UNCHANGED <<chain, mined>>
  /\ UNCHANGED <<syncing, target, safety, life, msgs, world>>

\* Peers whose /info answers in time at the start. Leaving out one that could
\* answer is a fault.
Answers(n, S) ==
  /\ S \subseteq Reach(n)
  /\ S # Reach(n) => MayFail
  /\ faults' = faults + (IF S = Reach(n) THEN 0 ELSE 1)

Heights(S) == {Len(chain[p]) : p \in S} \ {0}

\* Another chain of the same height
Forked(n, S) == \E p \in S : Len(chain[p]) = Len(chain[n]) /\ chain[p] # chain[n]

\* Phase 2 of the start-up: the best height that peers report is awaited. A
\* fork at the same height asks as well, but the wait is over at once.
Start(n) ==
  /\ forge[n].phase = "boot"
  /\ \E S \in SUBSET Nodes :
       /\ Answers(n, S)
       /\ LET best == {h \in Heights(S) : \A g \in Heights(S) : g <= h}
              ahead == {h \in best : h > Len(chain[n])}
              ask == ahead # {} \/ (Len(chain[n]) \in best /\ Forked(n, S))
          IN /\ forge' = [forge EXCEPT ![n] =
                   IF ahead = {} THEN Idle
                   ELSE [Idle EXCEPT !.phase = "await", !.goal = CHOOSE h \in ahead : TRUE]]
             /\ msgs' = msgs \cup (IF ask THEN Asking(n, chain[n]) ELSE {})
             /\ syncing' = [syncing EXCEPT ![n] = @ \/ ask]
  /\ UNCHANGED <<chain, target, safety, mined, life, cut, slot, late, overran>>

Started(n) ==
  /\ forge[n].phase = "await"
  /\ Len(chain[n]) >= forge[n].goal
  /\ forge' = [forge EXCEPT ![n] = Idle]
  /\ UNCHANGED <<node, mined, life, msgs, world>>

------------------------------------------------------------------------
(* The world                                                             *)

Forging(n) == forge[n].phase \in {"wait", "sent"}
Rounds == \E n \in Nodes : forge[n].phase \in {"ask", "wait", "sent"}

\* The slot ends whatever is under way; what is then is late
NextSlot ==
  /\ slot + Cardinality({n \in Nodes : life[n] > 0}) < MaxSlot
  /\ msgs # {} \/ Rounds => MayFail
  /\ late' = late + (IF msgs # {} \/ Rounds THEN 1 ELSE 0)
  /\ overran' = (overran \/ \E n \in Nodes : Forging(n))
  /\ slot' = slot + 1
  /\ UNCHANGED <<node, miner, msgs, cut, faults>>

Split ==
  /\ cut = {} /\ MayFail
  /\ cut' \in (SUBSET Nodes) \ {{}, Nodes}
  /\ faults' = faults + 1
  /\ UNCHANGED <<node, miner, msgs, slot, late, overran>>

Heal ==
  /\ cut # {}
  /\ cut' = {}
  /\ UNCHANGED <<node, miner, msgs, slot, faults, late, overran>>

\* The chain is on disk, the rest is not; what was under way to it is lost
Restart(n) ==
  /\ MayFail /\ slot < MaxSlot
  /\ faults' = faults + 1
  /\ syncing' = [syncing EXCEPT ![n] = FALSE]
  /\ target' = [target EXCEPT ![n] = 0]
  /\ safety' = [safety EXCEPT ![n] = 0]
  /\ forge' = [forge EXCEPT ![n] = [Idle EXCEPT !.phase = "boot"]]
  /\ mined' = [mined EXCEPT ![n] = 0]
  /\ life' = [life EXCEPT ![n] = @ + 1]
  /\ msgs' = {m \in msgs : m.to # n}
  /\ UNCHANGED <<chain, cut, slot, late, overran>>

------------------------------------------------------------------------

Init ==
  /\ chain \in StartChains
  /\ syncing = [n \in Nodes |-> FALSE]
  /\ target = [n \in Nodes |-> 0]
  /\ safety = [n \in Nodes |-> 0]
  /\ forge = [n \in Nodes |-> Idle]
  /\ mined = [n \in Nodes |-> 0]
  /\ life = [n \in Nodes |-> 0]
  /\ slot \in {s \in 1..MaxSlot : \A n \in Nodes : LastSlot(chain[n]) <= s}
  /\ \A n \in Nodes : slot = 1 \/ \E p \in Nodes : LastSlot(chain[p]) = slot
  /\ msgs = {} /\ cut = {} /\ faults = 0 /\ late = 0 /\ overran = FALSE

Gossip == {"NEW_BLOCK", "REQUEST_FULL_CHAIN", "FULL_CHAIN"}
Kinds == {"REQUEST_CHAIN_SYNC", "CHAIN_SEGMENT"} \cup Gossip

Receive(n, kind) ==
  \E m \in msgs :
    /\ m.to = n /\ m.type = kind
    /\ \/ OnRequestChainSync(n, m)
       \/ OnRequestFullChain(n, m)
       \/ OnChainSegment(n, m)
       \/ OnNewBlock(n, m)
       \/ OnFullChain(n, m)

Finish(n) == AskPeer(n) \/ Elect(n) \/ Broadcast(n) \/ AddOwnBlock(n) \/ Start(n) \/ Started(n)

Next ==
  \/ \E n \in Nodes : \/ \E kind \in Kinds : Receive(n, kind)
                     \/ RequestSync(n) \/ SyncEnds(n) \/ BeginRound(n) \/ Finish(n) \/ Restart(n)
  \/ NextSlot \/ Split \/ Heal

Spec == Init /\ [][Next]_vars

\* Messages are handled in the end, by tasks of their own; the maintenance loop
\* asks again and again; what a miner has begun it ends. Splits heal. New
\* rounds, the ends of the slots and faults are not fair.
Fairness ==
  /\ \A n \in Nodes :
       /\ WF_vars(Receive(n, "REQUEST_CHAIN_SYNC"))
       /\ WF_vars(Receive(n, "CHAIN_SEGMENT"))
       /\ WF_vars(RequestSync(n) \/ SyncEnds(n))
       /\ WF_vars(Finish(n))
  /\ WF_vars(Heal)
  /\ WF_vars(\E n \in Nodes, kind \in Gossip : Receive(n, kind))

FairSpec == Spec /\ Fairness

=============================================================================
