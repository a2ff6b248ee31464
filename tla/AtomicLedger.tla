---------------------------- MODULE AtomicLedger ----------------------------
(***************************************************************************)
(* What a node's ledger promises: a log of blocks and, whenever the node   *)
(* answers, the state that executing the log from genesis gives. A block   *)
(* enters with all its effects or not at all; a reorganisation takes back  *)
(* a bounded number of blocks with all of theirs. Neither a restart nor a  *)
(* reorganisation leaves a trace: the node is away for a while, and the    *)
(* state it comes back with depends on the log alone.                      *)
(***************************************************************************)
EXTENDS Integers, SequencesExt

CONSTANTS
  Genesis, Blocks,
  MaxReorg,             \* how many blocks may be taken back at once
  GenesisState,         \* the state before any block
  ExecBlock(_, _)       \* the state after a block; its field ok, whether it applies

VARIABLES log, state

avars == <<log, state>>

\* The node does not answer: it is down or rebuilding its state
Away == [ok |-> FALSE]

\* The state that executing a log from genesis gives
StateOf(blocks) ==
  LET Upto[n \in Nat] == IF n <= 1 THEN GenesisState
                         ELSE ExecBlock(Upto[n - 1], blocks[n])
  IN Upto[Len(blocks)]

Start == log = <<Genesis>> /\ state = GenesisState

\* Some block enters, with all its effects
Extend ==
  LET b == Last(log') IN
  /\ state # Away
  /\ log' = Append(log, b)
  /\ b \in Blocks
  /\ b.prev = Last(log).hash
  /\ state' = ExecBlock(state, b)
  /\ state'.ok

\* At most MaxReorg blocks are taken back, with all their effects
Revert ==
  /\ state # Away /\ state' = Away
  /\ Len(log') \in 1 .. Len(log) - 1
  /\ Len(log) - Len(log') <= MaxReorg
  /\ log' = SubSeq(log, 1, Len(log'))

Stop == state # Away /\ state' = Away /\ log' = log

Return == state = Away /\ state' = StateOf(log) /\ log' = log

Move == Extend \/ Revert \/ Stop \/ Return

Ledger == Start /\ [][Move]_avars
=============================================================================
