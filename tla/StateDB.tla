------------------------------ MODULE StateDB ------------------------------
(***************************************************************************)
(* The account ledger (blockchain/state.py over blockchain/storage.py): what *)
(* one transaction does to the balances, to the contracts and, for an      *)
(* expulsion by vote, to the registry of validators.                       *)
(*                                                                         *)
(* A ledger state is a record [ok, bal, con, reg]: bal gives every account *)
(* its balance (an absent row is 0), con are the contracts, and ok is      *)
(* FALSE once an operation was refused, which in the code is a FALSE       *)
(* result or an exception.                                                 *)
(***************************************************************************)
EXTENDS ValidatorRegistry, VirtualMachine

CONSTANTS
  Vault,              \* STAKE_VAULT_M3_HASH
  MaxMoney,           \* MAX_MONEY_RAW, the largest SQLite integer
  V2Activation,       \* TX_V2_ACTIVATION
  SigActivation       \* PROTOCOL_SIG_ACTIVATION

ASSUME StateConstants ==
  /\ Vault \in Acct
  /\ MaxMoney \in Nat
  /\ V2Activation \in Nat /\ SigActivation \in Nat

NoBalances == [a \in Acct |-> 0]

GenesisState ==
  [ok |-> TRUE, bal |-> NoBalances, con |-> NoContracts, reg |-> EmptyRegistry]

Refused(s) == [s EXCEPT !.ok = FALSE]

-----------------------------------------------------------------------------
(* What the type checks of apply_transaction let through                    *)

\* The operations that end in a payment
Payments == {"PAY", "VALIDATOR_REGISTER", "DEPLOY", "INVOKE"}

Typed(tx) ==
  /\ tx.from \in Acct \cup {NoAcct} /\ tx.to \in Acct
  /\ tx.amt \in Nat /\ tx.fee \in Nat
  /\ tx.op \in Payments \cup {"VALIDATOR_EXIT", "VALIDATOR_UPDATE",
                          "VALIDATOR_SLASH", "VALIDATOR_GOVERNANCE_EXIT"}

\* and, of what the registry reads, an exponent and the account to slash
FullyTyped(tx) ==
  /\ Typed(tx)
  /\ tx.lam \in Int \cup {NoLam}
  /\ tx.op = "VALIDATOR_SLASH" => tx.target \in Acct \cup {NoAcct}

AllTyped(txs) == \A i \in DOMAIN txs : FullyTyped(txs[i])

IsBlock(b) == b.idx \in Nat /\ b.txs \in Seq(Range(b.txs)) /\ AllTyped(b.txs)

-----------------------------------------------------------------------------
(* Storage.credit and Storage.transfer                                      *)

\* Mutant of Credit: the ceiling is not looked at
CreditUnbounded(s, to, amt) ==
  IF amt > 0 THEN [s EXCEPT !.bal[to] = @ + amt] ELSE Refused(s)

Credit(s, to, amt) ==
  IF amt > 0 /\ s.bal[to] <= MaxMoney - amt
  THEN [s EXCEPT !.bal[to] = @ + amt]
  ELSE Refused(s)

\* Mutant of Moved: both balances are read before either is written
MovedFromRead(s, from, to, amt, cost) ==
  [s EXCEPT !.bal = [s.bal EXCEPT ![from] = s.bal[from] - cost, ![to] = s.bal[to] + amt]]

\* One account pays cost and another, or the same, receives amt
Moved(s, from, to, amt, cost) ==
  LET paid == [s.bal EXCEPT ![from] = @ - cost]
  IN [s EXCEPT !.bal = [paid EXCEPT ![to] = @ + amt]]

\* The fee leaves the sender and reaches nobody
Transfer(s, from, to, amt, fee) ==
  IF /\ amt > 0
     /\ from # to => s.bal[to] <= MaxMoney - amt
     /\ s.bal[from] >= amt + fee
  THEN Moved(s, from, to, amt, amt + fee)
  ELSE Refused(s)

-----------------------------------------------------------------------------
(* StateDB.apply_transaction, one branch per operation                      *)

\* The stake comes back from the vault; with an empty vault the exit is
\* accepted all the same and nothing is returned.
ApplyExit(s, tx, idx) ==
  IF \/ tx.from \notin DOMAIN s.reg.validators
     \/ idx >= V2Activation /\ tx.to # Vault
  THEN Refused(s)
  ELSE IF s.bal[tx.to] >= Stake
       THEN Transfer(s, tx.to, tx.from, Stake, 0)
       ELSE s

\* A vote counts once per spelling of its voter's hash. From SigActivation it
\* must be signed, and a signature is checked against the voter's tensor.
CountedVotes(s, tx, idx) ==
  LET active == DOMAIN s.reg.validators \ {tx.target}
      Counts(vote) ==
        /\ vote.by \in active
        /\ idx >= SigActivation =>
             vote.form = "signed" /\ s.reg.validators[vote.by].m3
  IN {tx.votes[i].spelling : i \in {j \in DOMAIN tx.votes : Counts(tx.votes[j])}}

VotesRequired(s, target) ==
  LET n == Cardinality(DOMAIN s.reg.validators \ {target})
  IN IF n = 0 THEN 1 ELSE CeilDiv(2 * n, 3)

ApplyGovernanceExit(s, tx, idx) ==
  IF \/ tx.target = NoAcct
     \/ Cardinality(CountedVotes(s, tx, idx)) < VotesRequired(s, tx.target)
  THEN Refused(s)
  ELSE [s EXCEPT !.reg = ExecuteGovernanceExit(@, tx.target, idx)]

ApplyPayment(s, tx) ==
  IF tx.from = NoAcct
  THEN Credit(s, tx.to, tx.amt)
  ELSE Transfer(s, tx.from, tx.to, tx.amt, tx.fee)

\* The machine runs first: what a contract wrote is not taken back here when
\* the payment is refused afterwards
ApplyCall(s, tx) ==
  IF Executes(s.con, tx)
  THEN ApplyPayment([s EXCEPT !.con = Execute(@, tx)], tx)
  ELSE Refused(s)

ApplyTransaction(s, tx, idx) ==
  CASE tx.op = "VALIDATOR_EXIT"                        -> ApplyExit(s, tx, idx)
    [] tx.op \in {"VALIDATOR_UPDATE", "VALIDATOR_SLASH"} -> s
    [] tx.op = "VALIDATOR_GOVERNANCE_EXIT"  -> ApplyGovernanceExit(s, tx, idx)
    [] tx.op \in Payments                   -> ApplyCall(s, tx)

-----------------------------------------------------------------------------
(* A whole block: every transaction, then the registry, as add_block and    *)
(* rollback_to do. add_block stops at the first refusal; the replay of      *)
(* rollback_to drops the result of apply_transaction and goes on.           *)

ApplyAll(s, txs, idx) ==
  FoldLeft(LAMBDA r, tx : IF r.ok THEN ApplyTransaction(r, tx, idx) ELSE r,
           s, txs)

ReplayTxs(s, txs, idx) ==
  FoldLeft(LAMBDA r, tx : [ApplyTransaction(r, tx, idx) EXCEPT !.ok = TRUE],
           s, txs)

Process(s, b) == [s EXCEPT !.reg = ProcessAll(@, b.txs, b.idx)]

ExecBlock(s, b) == Process(ApplyAll(s, b.txs, b.idx), b)

ReplayBlock(s, b) == Process(ReplayTxs(s, b.txs, b.idx), b)

\* The state the blocks of a chain stand for, executed from genesis
StateOf(blocks) ==
  LET Upto[n \in Nat] == IF n <= 1 THEN GenesisState
                         ELSE ExecBlock(Upto[n - 1], blocks[n])
  IN Upto[Len(blocks)]
=============================================================================
