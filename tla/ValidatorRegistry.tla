------------------------- MODULE ValidatorRegistry -------------------------
(***************************************************************************)
(* The on-chain registry of validators (blockchain/validator_registry.py): *)
(* who may produce blocks, with which Lyapunov exponent, and the history   *)
(* of that set from which the candidates of an election are read.          *)
(*                                                                         *)
(* A registry is a value, a record with three fields:                      *)
(*   validators  a function from the registered accounts to their entries  *)
(*   slashed     the accounts that may never register again                *)
(*   history     the sequence of [at, validators]: the map as it was after *)
(*               each event recorded at block at                           *)
(* An account stands for the hash of an m3 tensor. An entry keeps the      *)
(* exponent and whether the tensor itself is known: a restored snapshot    *)
(* has entries without it.                                                 *)
(*                                                                         *)
(* A transaction is a record with fields op, from, to, amt, fee, lam,      *)
(* target, votes, ts, id, signed and label (see Blockchain.tla).             *)
(***************************************************************************)
EXTENDS Integers, Sequences, FiniteSets, SequencesExt

CONSTANTS
  Acct,       \* account hashes
  NoAcct,     \* the absent sender of a coinbase, the absent target
  NoLam,      \* a validator without matrices, and a transaction without them
  Stake,      \* VALIDATOR_STAKE_REQUIRED
  LamMin,     \* LAMBDA_MIN, LAMBDA_MAX and D_MIN in fixed point
  LamMax,
  DMin

ASSUME RegistryConstants ==
  /\ NoAcct \notin Acct /\ IsFiniteSet(Acct)
  /\ NoLam \notin Int
  /\ Stake \in Nat \ {0}
  /\ LamMin \in Int /\ LamMax \in Int /\ LamMin < LamMax
  /\ DMin \in Nat

NoValidators == [v \in {} |-> NoLam]

EmptyRegistry ==
  [validators |-> NoValidators, slashed |-> {}, history |-> <<>>]

\* INSERT OR REPLACE, and the assignment of a dictionary entry
Put(f, key, value) ==
  [x \in DOMAIN f \cup {key} |-> IF x = key THEN value ELSE f[x]]

Distance(x, y) == IF x < y THEN y - x ELSE x - y

CeilDiv(n, d) == (n + d - 1) \div d

-----------------------------------------------------------------------------
(* Mutations. Each successful one appends to the history.                   *)

InRange(lam) == LamMin <= lam /\ lam <= LamMax

\* Mutant of Diverse: the distance is not measured
DiverseByRange(reg, lam) == InRange(lam)

\* check_geometric_diversity against the exponents already registered
Diverse(reg, lam) ==
  /\ InRange(lam)
  /\ \A v \in DOMAIN reg.validators :
        reg.validators[v].lam # NoLam =>
          Distance(lam, reg.validators[v].lam) >= DMin

\* the map changes and the change is recorded at block idx
Recorded(reg, map, idx) ==
  [reg EXCEPT !.validators = map,
              !.history = Append(@, [at |-> idx, validators |-> map])]

With(reg, who, entry, idx) ==
  Recorded(reg, Put(reg.validators, who, entry), idx)

Without(reg, who, idx) ==
  Recorded(reg, Restrict(reg.validators, DOMAIN reg.validators \ {who}), idx)

\* A refusal is silent: the stake has been transferred by then
Register(reg, tx, idx) ==
  IF /\ tx.from \in Acct
     /\ tx.from \notin reg.slashed
     /\ tx.from \notin DOMAIN reg.validators
     /\ tx.amt >= Stake
     /\ tx.lam # NoLam => Diverse(reg, tx.lam)
  THEN With(reg, tx.from, [lam |-> tx.lam, m3 |-> TRUE], idx)
  ELSE reg

\* Only the range is checked, not the distance to the other validators
UpdateLambda(reg, tx, idx) ==
  IF tx.from \in DOMAIN reg.validators /\ tx.lam # NoLam /\ InRange(tx.lam)
  THEN With(reg, tx.from, [reg.validators[tx.from] EXCEPT !.lam = tx.lam], idx)
  ELSE reg

ExitValidator(reg, tx, idx) ==
  IF tx.from \in DOMAIN reg.validators THEN Without(reg, tx.from, idx) ELSE reg

Slash(reg, tx, idx) ==
  IF tx.target = NoAcct THEN reg
  ELSE [(IF tx.target \in DOMAIN reg.validators
         THEN Without(reg, tx.target, idx) ELSE reg)
        EXCEPT !.slashed = @ \cup {tx.target}]

\* The one place that expels by vote, shared by StateDB and the registry
ExecuteGovernanceExit(reg, target, idx) ==
  IF target \in DOMAIN reg.validators
  THEN [Without(reg, target, idx) EXCEPT !.slashed = @ \cup {target}]
  ELSE reg

\* The registry's own handler counts the votes given as a bare, complete hash
\* and none of the signed ones; repeated hashes count again.
GovernanceExit(reg, tx, idx) ==
  LET active  == DOMAIN reg.validators \ {tx.target}
      counted == {i \in DOMAIN tx.votes :
                    /\ tx.votes[i].form = "hash"
                    /\ tx.votes[i].spelling = tx.votes[i].by
                    /\ tx.votes[i].by \in active}
  IN IF /\ tx.target \in DOMAIN reg.validators
        /\ Cardinality(counted) >= CeilDiv(2 * Cardinality(active), 3)
     THEN ExecuteGovernanceExit(reg, tx.target, idx)
     ELSE reg

ProcessTx(reg, tx, idx) ==
  CASE tx.op = "VALIDATOR_REGISTER"        -> Register(reg, tx, idx)
    [] tx.op = "VALIDATOR_EXIT"            -> ExitValidator(reg, tx, idx)
    [] tx.op = "VALIDATOR_SLASH"           -> Slash(reg, tx, idx)
    [] tx.op = "VALIDATOR_UPDATE"          -> UpdateLambda(reg, tx, idx)
    [] tx.op = "VALIDATOR_GOVERNANCE_EXIT" -> GovernanceExit(reg, tx, idx)
    [] OTHER                               -> reg

\* All the transactions of block idx, in order
ProcessAll(reg, txs, idx) ==
  FoldLeft(LAMBDA r, tx : ProcessTx(r, tx, idx), reg, txs)

-----------------------------------------------------------------------------
(* Queries and seeding.                                                     *)

\* get_validators_at: the map after the last event at or before block k; when
\* every recorded event is later than k, the current map.
ValidatorsAt(reg, k) ==
  LET past == {i \in DOMAIN reg.history : reg.history[i].at <= k}
  IN IF past # {} THEN reg.history[Max(past)].validators
     ELSE IF reg.history # <<>> THEN reg.validators
     ELSE NoValidators

\* Mutant of SeedHistory: the restored map is recorded as that of genesis
SeedAtGenesis(snap) ==
  IF DOMAIN snap.validators = {} THEN EmptyRegistry
  ELSE LET map == [v \in DOMAIN snap.validators |->
                     [snap.validators[v] EXCEPT !.m3 = FALSE]]
       IN [validators |-> map,
           slashed    |-> snap.slashed,
           history    |-> <<[at |-> 0, validators |-> map]>>]

\* seed_history on a new registry: the restored entries have no tensor, and
\* rollback_to does not call it when the snapshot holds no validator
SeedHistory(snap) ==
  IF DOMAIN snap.validators = {} THEN EmptyRegistry
  ELSE LET map == [v \in DOMAIN snap.validators |->
                     [snap.validators[v] EXCEPT !.m3 = FALSE]]
       IN [validators |-> map,
           slashed    |-> snap.slashed,
           history    |-> <<[at |-> snap.idx, validators |-> map]>>]
=============================================================================
