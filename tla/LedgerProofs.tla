---------------------------- MODULE LedgerProofs ----------------------------
(***************************************************************************)
(* The foundations of what is proved about a node's ledger, for all        *)
(* accounts, amounts, registries, blocks and competing histories.          *)
(*                                                                         *)
(* First the operators: what a transaction, a block and a chain do. The    *)
(* guards of Storage.credit and Storage.transfer keep every balance in its *)
(* column, whatever validation let through; replaying a block does what    *)
(* adding it did; money comes from coinbases and goes to fees; the         *)
(* territories of an emission share out the axis. The folds are taken step *)
(* by step with the theorems of FoldTheorems.                              *)
(*                                                                         *)
(* Then the log of blocks, wherever the process may die. The properties    *)
(* are not inductive as they stand: that the table of blocks is a chain    *)
(* after a rollback rests on what RAM held when the rollback began, and    *)
(* that no transaction comes in twice rests on the set of confirmed ones   *)
(* being rebuilt from the table. IInv reads the table as one log that is   *)
(* good in every phase, and says which of chain and kept is that log.      *)
(* Executing a block stays opaque there: nothing is assumed of it.         *)
(***************************************************************************)
EXTENDS ChainProperties, FiniteSetTheorems, SequenceTheorems, TLAPS

\* Every account holds an amount that fits in its column
InColumn(bal) == bal \in [Acct -> 0 .. MaxMoney]

\* The ledger states over some sets of contracts and of registries
States(Contracts, Regs) ==
  [ok : BOOLEAN, bal : [Acct -> 0 .. MaxMoney], con : Contracts, reg : Regs]

\* storage.py:104-123. A credit leaves every balance between 0 and the ceiling.
LEMMA CreditInColumn ==
  ASSUME NEW Contracts, NEW Regs, NEW s \in States(Contracts, Regs),
         NEW to \in Acct, NEW amt \in Nat
  PROVE  InColumn(Credit(s, to, amt).bal)
<1>1. MaxMoney \in Nat /\ s.bal \in [Acct -> 0 .. MaxMoney]
  BY StateConstants DEF StateConstants, States
<1>2. CASE amt > 0 /\ s.bal[to] <= MaxMoney - amt
  <2>1. Credit(s, to, amt).bal = [s.bal EXCEPT ![to] = @ + amt]
    BY <1>2 DEF Credit, States
  <2>2. s.bal[to] + amt \in 0 .. MaxMoney
    BY <1>1, <1>2
  <2>3. QED
    BY <1>1, <2>1, <2>2 DEF InColumn
<1>3. CASE ~(amt > 0 /\ s.bal[to] <= MaxMoney - amt)
  BY <1>1, <1>3 DEF Credit, Refused, InColumn, States
<1>4. QED
  BY <1>2, <1>3

\* storage.py:125-156. A transfer overdraws no account and exceeds no ceiling,
\* to oneself too.
LEMMA TransferInColumn ==
  ASSUME NEW Contracts, NEW Regs, NEW s \in States(Contracts, Regs),
         NEW from \in Acct, NEW to \in Acct,
         NEW amt \in Nat, NEW fee \in Nat
  PROVE  InColumn(Transfer(s, from, to, amt, fee).bal)
<1> DEFINE may == /\ amt > 0
                  /\ from # to => s.bal[to] <= MaxMoney - amt
                  /\ s.bal[from] >= amt + fee
<1>1. MaxMoney \in Nat /\ s.bal \in [Acct -> 0 .. MaxMoney]
  BY StateConstants DEF StateConstants, States
<1>2. CASE may
  <2> DEFINE paid == [s.bal EXCEPT ![from] = @ - (amt + fee)]
  <2>1. Transfer(s, from, to, amt, fee).bal = [paid EXCEPT ![to] = @ + amt]
    BY <1>2 DEF Transfer, Moved, States
  <2>2. paid \in [Acct -> 0 .. MaxMoney]
    <3>1. s.bal[from] - (amt + fee) \in 0 .. MaxMoney
      BY <1>1, <1>2
    <3>2. QED
      BY <1>1, <3>1
  <2>3. paid[to] + amt \in 0 .. MaxMoney
    <3>1. CASE from = to
      <4>1. paid[to] = s.bal[from] - (amt + fee)
        BY <1>1, <3>1
      <4>2. s.bal[from] \in 0 .. MaxMoney
        BY <1>1
      <4>3. QED
        BY <1>1, <1>2, <4>1, <4>2
    <3>2. CASE from # to
      <4>1. paid[to] = s.bal[to]
        BY <1>1, <3>2
      <4>2. s.bal[to] \in 0 .. MaxMoney
        BY <1>1
      <4>3. QED
        BY <1>1, <1>2, <3>2, <4>1, <4>2
    <3>3. QED
      BY <3>1, <3>2
  <2>4. QED
    BY <2>1, <2>2, <2>3 DEF InColumn
<1>3. CASE ~may
  BY <1>1, <1>3 DEF Transfer, Refused, InColumn, States
<1>4. QED
  BY <1>2, <1>3

\* state.py:37-157. No transaction overdraws an account or exceeds the largest
\* integer of the table, on any balances and any registry, validated or not.
THEOREM NoOverdraft ==
  ASSUME NEW Contracts, NEW Regs, NEW s \in States(Contracts, Regs),
         NEW tx, Typed(tx), NEW idx \in Nat,
         DOMAIN s.reg.validators \subseteq Acct
  PROVE  InColumn(ApplyTransaction(s, tx, idx).bal)
<1>1. InColumn(s.bal) /\ InColumn(Refused(s).bal)
  BY DEF States, InColumn, Refused
<1>2. CASE tx.op = "VALIDATOR_EXIT"
  <2>1. ApplyTransaction(s, tx, idx) = ApplyExit(s, tx, idx)
    BY <1>2 DEF ApplyTransaction, Payments
  <2>2. CASE \/ tx.from \notin DOMAIN s.reg.validators
             \/ idx >= V2Activation /\ tx.to # Vault
    BY <1>1, <2>1, <2>2 DEF ApplyExit
  <2>3. CASE ~(\/ tx.from \notin DOMAIN s.reg.validators
               \/ idx >= V2Activation /\ tx.to # Vault)
    <3>1. tx.from \in Acct /\ tx.to \in Acct /\ Stake \in Nat /\ 0 \in Nat
      BY <2>3, RegistryConstants DEF RegistryConstants, Typed
    <3>2. InColumn(Transfer(s, tx.to, tx.from, Stake, 0).bal)
      BY <3>1, TransferInColumn
    <3>3. QED
      BY <1>1, <2>1, <2>3, <3>2 DEF ApplyExit
  <2>4. QED
    BY <2>2, <2>3
<1>3. CASE tx.op \in {"VALIDATOR_UPDATE", "VALIDATOR_SLASH"}
  <2>1. ApplyTransaction(s, tx, idx) = s
    BY <1>3 DEF ApplyTransaction, Payments
  <2>2. QED
    BY <1>1, <2>1
<1>4. CASE tx.op = "VALIDATOR_GOVERNANCE_EXIT"
  <2>1. ApplyTransaction(s, tx, idx) = ApplyGovernanceExit(s, tx, idx)
    BY <1>4 DEF ApplyTransaction, Payments
  <2>2. ApplyGovernanceExit(s, tx, idx).bal \in {s.bal, Refused(s).bal}
    BY DEF ApplyGovernanceExit, States
  <2>3. QED
    BY <1>1, <2>1, <2>2
<1>5. CASE tx.op \in Payments
  <2>1. ApplyTransaction(s, tx, idx) = ApplyCall(s, tx)
    BY <1>5 DEF ApplyTransaction, Payments
  <2> DEFINE con == Execute(s.con, tx)
             t   == [s EXCEPT !.con = con]
  <2>2. t \in States({con}, Regs)
    BY DEF States
  <2>3. InColumn(ApplyPayment(t, tx).bal)
    <3>1. CASE tx.from = NoAcct
      BY <2>2, <3>1, CreditInColumn DEF ApplyPayment, Typed
    <3>2. CASE tx.from # NoAcct
      <4>1. tx.from \in Acct /\ tx.to \in Acct /\ tx.amt \in Nat /\ tx.fee \in Nat
        BY <3>2 DEF Typed
      <4>2. InColumn(Transfer(t, tx.from, tx.to, tx.amt, tx.fee).bal)
        BY <2>2, <4>1, TransferInColumn
      <4>3. QED
        BY <3>2, <4>2 DEF ApplyPayment
    <3>3. QED
      BY <3>1, <3>2
  <2>4. ApplyCall(s, tx) = IF Executes(s.con, tx) THEN ApplyPayment(t, tx) ELSE Refused(s)
    BY DEF ApplyCall
  <2>5. QED
    BY <1>1, <2>1, <2>3, <2>4
<1>6. QED
  BY <1>2, <1>3, <1>4, <1>5 DEF Typed

-----------------------------------------------------------------------------
(* The contracts                                                            *)

\* vm.py:54-69. The rows of a contract stay as they are under every transaction
\* that neither its owner sent nor deployed a contract at its address, one
\* whose payment is refused afterwards included.
THEOREM OnlyOwnerWrites ==
  ASSUME NEW s, NEW tx, NEW idx, NEW address \in DOMAIN s.con,
         s = [ok |-> s.ok, bal |-> s.bal, con |-> s.con, reg |-> s.reg],
         Typed(tx),
         s.con[address]["owner"] # tx.from,
         tx.op = "DEPLOY" => tx.id # address
  PROVE  LET con == ApplyTransaction(s, tx, idx).con
         IN address \in DOMAIN con /\ con[address] = s.con[address]
<1> DEFINE Kept(con) == address \in DOMAIN con /\ con[address] = s.con[address]
<1>1. ASSUME NEW con, Kept(con), NEW other, other # address, NEW rows
      PROVE  Kept(Written(con, other, rows))
  BY <1>1 DEF Written
<1>2. Kept(Execute(s.con, tx))
  <2>1. CASE tx.op = "DEPLOY"
    BY <1>1, <2>1 DEF Execute, Deployed
  <2>2. CASE tx.op = "INVOKE" /\ MayInvoke(s.con, tx)
    <3>1. tx.target # address
      BY <2>2 DEF MayInvoke
    <3>2. QED
      BY <1>1, <2>2, <3>1 DEF Execute
  <2>3. CASE ~(tx.op = "DEPLOY") /\ ~(tx.op = "INVOKE" /\ MayInvoke(s.con, tx))
    BY <2>3 DEF Execute
  <2>4. QED
    BY <2>1, <2>2, <2>3
<1>3. ApplyTransaction(s, tx, idx).con \in {s.con, Execute(s.con, tx)}
  BY DEF ApplyTransaction, Payments, Typed, ApplyExit, ApplyGovernanceExit, ApplyCall,
         ApplyPayment, Credit, Transfer, Moved, Refused
<1>4. QED
  BY <1>2, <1>3

-----------------------------------------------------------------------------
(* Shapes, and what execution reads                                         *)

\* The operators that the folds over a block's transactions fold with
ApplyStep(r, tx, idx)  == IF r.ok THEN ApplyTransaction(r, tx, idx) ELSE r
ReplayStep(r, tx, idx) == [ApplyTransaction(r, tx, idx) EXCEPT !.ok = TRUE]

Applying   == INSTANCE FoldTheorems WITH Op <- ApplyStep
Replaying  == INSTANCE FoldTheorems WITH Op <- ReplayStep
Processing == INSTANCE FoldTheorems WITH Op <- ProcessTx

Entries == [lam : Int \cup {NoLam}, m3 : BOOLEAN]

IsMap(map) == DOMAIN map \subseteq Acct /\ map \in [DOMAIN map -> Entries]

Registries(Pasts) ==
  [validators : {map \in UNION {[D -> Entries] : D \in SUBSET Acct} : IsMap(map)},
   slashed : SUBSET Acct, history : Pasts]

IsRegistry(reg) == reg \in Registries({reg.history})

IsLedger(s) == s \in States({s.con}, {s.reg}) /\ IsRegistry(s.reg)

\* No expulsion by vote among them, and no slashing either
NoVotes(txs) == \A i \in DOMAIN txs : txs[i].op # "VALIDATOR_GOVERNANCE_EXIT"
NoSlash(txs) == \A i \in DOMAIN txs : txs[i].op # "VALIDATOR_SLASH"

IsHistory(h) == h \in Seq(Range(h))

\* The events of the history of a registry up to block k
Past(reg, k) == {i \in DOMAIN reg.history : reg.history[i].at <= k}

SameMap(map, other) ==
  DOMAIN map = DOMAIN other /\ \A v \in DOMAIN map : map[v].lam = other[v].lam

\* Of every block that the history of q reaches back to, r recorded the same.
SameRecord(q, r) ==
  /\ IsHistory(q.history) /\ IsHistory(r.history)
  /\ \A k \in Nat : Past(q, k) # {} =>
       Past(r, k) # {} /\ SameMap(ValidatorsAt(q, k), ValidatorsAt(r, k))

\* Two registries that differ in no more than how far back the history of the map
\* goes and in which tensors are known, which is what a snapshot loses
SameRegistry(q, r) ==
  /\ DOMAIN q.validators = DOMAIN r.validators
  /\ \A v \in DOMAIN q.validators : q.validators[v].lam = r.validators[v].lam
  /\ q.slashed = r.slashed
  /\ SameRecord(q, r)

SameLedger(s, t) ==
  /\ s.ok = t.ok /\ s.bal = t.bal /\ s.con = t.con
  /\ SameRegistry(s.reg, t.reg)

\* The fields of a registry and of a ledger state, and records of such fields.
LEMMA RegistryFields ==
  ASSUME NEW reg
  PROVE  IsRegistry(reg) <=>
           /\ reg \in [validators : {reg.validators}, slashed : {reg.slashed},
                       history : {reg.history}]
           /\ IsMap(reg.validators)
           /\ reg.slashed \subseteq Acct
<1>1. \A map : IsMap(map) => map \in UNION {[D -> Entries] : D \in SUBSET Acct}
  BY DEF IsMap
<1>2. QED
  BY <1>1 DEF IsRegistry, Registries

LEMMA LedgerFields ==
  ASSUME NEW s
  PROVE  IsLedger(s) <=>
           /\ s \in [ok : {s.ok}, bal : {s.bal}, con : {s.con}, reg : {s.reg}]
           /\ s.ok \in BOOLEAN
           /\ InColumn(s.bal)
           /\ IsRegistry(s.reg)
BY DEF IsLedger, States, InColumn

\* Writing an entry of a map, and taking one out.
LEMMA PutInMap ==
  ASSUME NEW map, IsMap(map), NEW who \in Acct, NEW entry \in Entries
  PROVE  IsMap(Put(map, who, entry))
BY DEF IsMap, Put

LEMMA OutOfMap ==
  ASSUME NEW map, IsMap(map), NEW who
  PROVE  IsMap(Restrict(map, DOMAIN map \ {who}))
BY DEF IsMap, Restrict

LEMMA GreatestIs ==
  ASSUME NEW S \in SUBSET Int, NEW x \in S, \A y \in S : y <= x
  PROVE  Max(S) = x
<1>1. x >= x /\ \A y \in S : x >= y
  OBVIOUS
<1>2. Max(S) \in S /\ \A y \in S : Max(S) >= y
  BY <1>1 DEF Max
<1>3. Max(S) \in Int /\ x \in Int
  BY <1>2
<1>4. Max(S) <= x /\ x <= Max(S)
  BY <1>2
<1>5. QED
  BY <1>3, <1>4

LEMMA RecordedIsRegistry ==
  ASSUME NEW reg, IsRegistry(reg), NEW map, IsMap(map), NEW idx
  PROVE  /\ IsRegistry(Recorded(reg, map, idx))
         /\ Recorded(reg, map, idx).validators = map
         /\ Recorded(reg, map, idx).slashed = reg.slashed
<1> DEFINE past == Append(reg.history, [at |-> idx, validators |-> map])
           new  == Recorded(reg, map, idx)
<1>1. reg \in [validators : {reg.validators}, slashed : {reg.slashed}, history : {reg.history}]
      /\ reg.slashed \subseteq Acct
  BY RegistryFields
<1>2. /\ new \in [validators : {map}, slashed : {reg.slashed}, history : {past}]
      /\ new.validators = map /\ new.slashed = reg.slashed /\ new.history = past
  BY <1>1 DEF Recorded
<1> HIDE DEF new
<1>3. QED
  BY <1>1, <1>2, RegistryFields DEF new

LEMMA WithoutIsRegistry ==
  ASSUME NEW reg, IsRegistry(reg), NEW who, NEW idx
  PROVE  /\ IsRegistry(Without(reg, who, idx))
         /\ Without(reg, who, idx).validators
              = Restrict(reg.validators, DOMAIN reg.validators \ {who})
         /\ Without(reg, who, idx).slashed = reg.slashed
<1>1. IsMap(Restrict(reg.validators, DOMAIN reg.validators \ {who}))
  BY OutOfMap, RegistryFields
<1>2. QED
  BY <1>1, RecordedIsRegistry DEF Without

LEMMA WithIsRegistry ==
  ASSUME NEW reg, IsRegistry(reg), NEW who \in Acct, NEW entry \in Entries, NEW idx
  PROVE  /\ IsRegistry(With(reg, who, entry, idx))
         /\ With(reg, who, entry, idx).validators = Put(reg.validators, who, entry)
         /\ With(reg, who, entry, idx).slashed = reg.slashed
<1>1. IsMap(Put(reg.validators, who, entry))
  BY PutInMap, RegistryFields
<1>2. QED
  BY <1>1, RecordedIsRegistry DEF With

LEMMA ExpelIsRegistry ==
  ASSUME NEW reg, IsRegistry(reg), NEW target, NEW idx
  PROVE  IsRegistry(ExecuteGovernanceExit(reg, target, idx))
<1>1. CASE target \in DOMAIN reg.validators
  <2> DEFINE out == Without(reg, target, idx)
             new == ExecuteGovernanceExit(reg, target, idx)
  <2>1. target \in Acct
    BY <1>1, RegistryFields DEF IsMap
  <2>2. IsRegistry(out)
    BY WithoutIsRegistry
  <2>3. /\ out \in [validators : {out.validators}, slashed : {out.slashed},
                   history : {out.history}]
        /\ IsMap(out.validators) /\ out.slashed \subseteq Acct
    BY <2>2, RegistryFields
  <2>4. new = [out EXCEPT !.slashed = @ \cup {target}]
    BY <1>1 DEF ExecuteGovernanceExit
  <2> HIDE DEF out, new
  <2>5. /\ new \in [validators : {out.validators}, slashed : {out.slashed \cup {target}},
                   history : {out.history}]
        /\ new.validators = out.validators /\ new.history = out.history
        /\ new.slashed = out.slashed \cup {target}
    BY <2>3, <2>4
  <2>6. IsRegistry(new)
    BY <2>1, <2>3, <2>5, RegistryFields
  <2>7. QED
    BY <2>6 DEF new
<1>2. CASE target \notin DOMAIN reg.validators
  BY <1>2 DEF ExecuteGovernanceExit
<1>3. QED
  BY <1>1, <1>2

-----------------------------------------------------------------------------
(* One transaction on the ledger                                            *)

\* A credit and a transfer touch the balances and the verdict alone.
LEMMA CreditShape ==
  ASSUME NEW s, IsLedger(s), NEW to \in Acct, NEW amt \in Nat
  PROVE  LET r == Credit(s, to, amt)
         IN IsLedger(r) /\ r.con = s.con /\ r.reg = s.reg
<1>1. s \in States({s.con}, {s.reg})
  BY DEF IsLedger
<1>2. InColumn(Credit(s, to, amt).bal)
  BY <1>1, CreditInColumn
<1> DEFINE new == Credit(s, to, amt)
<1>3. s \in [ok : {s.ok}, bal : {s.bal}, con : {s.con}, reg : {s.reg}] /\ s.ok \in BOOLEAN
      /\ IsRegistry(s.reg)
  BY LedgerFields
<1>4. new \in [ok : {new.ok}, bal : {new.bal}, con : {new.con}, reg : {new.reg}]
      /\ new.ok \in BOOLEAN /\ new.con = s.con /\ new.reg = s.reg
  BY <1>3 DEF Credit, Refused
<1> HIDE DEF new
<1>5. QED
  BY <1>2, <1>3, <1>4, LedgerFields DEF new

LEMMA TransferShape ==
  ASSUME NEW s, IsLedger(s), NEW from \in Acct, NEW to \in Acct,
         NEW amt \in Nat, NEW fee \in Nat
  PROVE  LET r == Transfer(s, from, to, amt, fee)
         IN IsLedger(r) /\ r.con = s.con /\ r.reg = s.reg
<1>1. s \in States({s.con}, {s.reg})
  BY DEF IsLedger, States, InColumn
<1>2. InColumn(Transfer(s, from, to, amt, fee).bal)
  BY <1>1, TransferInColumn
<1> DEFINE new == Transfer(s, from, to, amt, fee)
<1>3. s \in [ok : {s.ok}, bal : {s.bal}, con : {s.con}, reg : {s.reg}] /\ s.ok \in BOOLEAN
      /\ IsRegistry(s.reg)
  BY LedgerFields
<1>4. new \in [ok : {new.ok}, bal : {new.bal}, con : {new.con}, reg : {new.reg}]
      /\ new.ok \in BOOLEAN /\ new.con = s.con /\ new.reg = s.reg
  BY <1>3 DEF Transfer, Moved, Refused
<1> HIDE DEF new
<1>5. QED
  BY <1>2, <1>3, <1>4, LedgerFields DEF new

LEMMA RefusedShape ==
  ASSUME NEW s, IsLedger(s)
  PROVE  LET r == Refused(s)
         IN IsLedger(r) /\ ~r.ok /\ r.bal = s.bal /\ r.con = s.con /\ r.reg = s.reg
<1> DEFINE new == Refused(s)
<1>1. s \in [ok : {s.ok}, bal : {s.bal}, con : {s.con}, reg : {s.reg}]
      /\ InColumn(s.bal) /\ IsRegistry(s.reg)
  BY LedgerFields
<1>2. new \in [ok : {new.ok}, bal : {new.bal}, con : {new.con}, reg : {new.reg}]
      /\ new.ok = FALSE /\ new.bal = s.bal /\ new.con = s.con /\ new.reg = s.reg
  BY <1>1 DEF Refused
<1> HIDE DEF new
<1>3. QED
  BY <1>1, <1>2, LedgerFields DEF new

\* The transaction that the machine lets pass is applied to the written rows.
LEMMA CallShape ==
  ASSUME NEW s, IsLedger(s), NEW tx, FullyTyped(tx)
  PROVE  IsLedger(ApplyCall(s, tx)) /\ ApplyCall(s, tx).reg = s.reg
<1> DEFINE con == Execute(s.con, tx)
           t   == [s EXCEPT !.con = con]
<1>1. IsLedger(t) /\ t.reg = s.reg
  <2>1. s \in [ok : {s.ok}, bal : {s.bal}, con : {s.con}, reg : {s.reg}]
        /\ s.ok \in BOOLEAN /\ InColumn(s.bal) /\ IsRegistry(s.reg)
    BY LedgerFields
  <2>2. t \in [ok : {s.ok}, bal : {s.bal}, con : {con}, reg : {s.reg}]
        /\ t.ok = s.ok /\ t.bal = s.bal /\ t.con = con /\ t.reg = s.reg
    BY <2>1
  <2> HIDE DEF t
  <2>3. QED
    BY <2>1, <2>2, LedgerFields
<1>2. IsLedger(ApplyPayment(t, tx)) /\ ApplyPayment(t, tx).reg = s.reg
  <2> HIDE DEF t
  <2>1. CASE tx.from = NoAcct
    BY <1>1, <2>1, CreditShape DEF ApplyPayment, FullyTyped, Typed
  <2>2. CASE tx.from # NoAcct
    BY <1>1, <2>2, TransferShape DEF ApplyPayment, FullyTyped, Typed
  <2>3. QED
    BY <2>1, <2>2
<1>3. QED
  BY <1>2, RefusedShape DEF ApplyCall

LEMMA ExitShape ==
  ASSUME NEW s, IsLedger(s), NEW tx, FullyTyped(tx), NEW idx
  PROVE  IsLedger(ApplyExit(s, tx, idx)) /\ ApplyExit(s, tx, idx).reg = s.reg
<1>1. CASE \/ tx.from \notin DOMAIN s.reg.validators
           \/ idx >= V2Activation /\ tx.to # Vault
  BY <1>1, RefusedShape DEF ApplyExit
<1>2. CASE ~(\/ tx.from \notin DOMAIN s.reg.validators
             \/ idx >= V2Activation /\ tx.to # Vault)
  <2>1. tx.from \in Acct /\ tx.to \in Acct /\ Stake \in Nat /\ 0 \in Nat
    BY <1>2, RegistryConstants, LedgerFields, RegistryFields
       DEF RegistryConstants, FullyTyped, Typed, IsMap
  <2>2. /\ IsLedger(Transfer(s, tx.to, tx.from, Stake, 0))
        /\ Transfer(s, tx.to, tx.from, Stake, 0).reg = s.reg
    BY <2>1, TransferShape
  <2>3. QED
    BY <1>2, <2>2 DEF ApplyExit
<1>3. QED
  BY <1>1, <1>2

\* A transaction leaves a ledger state, and without a vote the registry as it is.
LEMMA ApplyShape ==
  ASSUME NEW s, IsLedger(s), NEW tx, FullyTyped(tx), NEW idx
  PROVE  /\ IsLedger(ApplyTransaction(s, tx, idx))
         /\ tx.op # "VALIDATOR_GOVERNANCE_EXIT" =>
              ApplyTransaction(s, tx, idx).reg = s.reg
<1>1. CASE tx.op = "VALIDATOR_EXIT"
  <2>1. ApplyTransaction(s, tx, idx) = ApplyExit(s, tx, idx)
    BY <1>1 DEF ApplyTransaction, Payments
  <2>2. QED
    BY <2>1, ExitShape
<1>2. CASE tx.op \in {"VALIDATOR_UPDATE", "VALIDATOR_SLASH"}
  <2>1. ApplyTransaction(s, tx, idx) = s
    BY <1>2 DEF ApplyTransaction, Payments
  <2>2. QED
    BY <2>1
<1>3. CASE tx.op = "VALIDATOR_GOVERNANCE_EXIT"
  <2>1. ApplyTransaction(s, tx, idx) = ApplyGovernanceExit(s, tx, idx)
    BY <1>3 DEF ApplyTransaction, Payments
  <2>2. IsLedger([s EXCEPT !.reg = ExecuteGovernanceExit(@, tx.target, idx)])
    <3> DEFINE new == [s EXCEPT !.reg = ExecuteGovernanceExit(@, tx.target, idx)]
    <3>1. s \in [ok : {s.ok}, bal : {s.bal}, con : {s.con}, reg : {s.reg}]
          /\ s.ok \in BOOLEAN /\ InColumn(s.bal) /\ IsRegistry(s.reg)
      BY LedgerFields
    <3>2. IsRegistry(ExecuteGovernanceExit(s.reg, tx.target, idx))
      BY <3>1, ExpelIsRegistry
    <3>3. new \in [ok : {s.ok}, bal : {s.bal}, con : {s.con}, reg : {new.reg}]
          /\ new.ok = s.ok /\ new.bal = s.bal /\ new.con = s.con
          /\ new.reg = ExecuteGovernanceExit(s.reg, tx.target, idx)
      BY <3>1
    <3> HIDE DEF new
    <3>4. IsLedger(new)
      BY <3>1, <3>2, <3>3, LedgerFields
    <3>5. QED
      BY <3>4 DEF new
  <2>3. QED
    BY <1>3, <2>1, <2>2, RefusedShape DEF ApplyGovernanceExit
<1>4. CASE tx.op \in Payments
  <2>1. ApplyTransaction(s, tx, idx) = ApplyCall(s, tx)
    BY <1>4 DEF ApplyTransaction, Payments
  <2>2. QED
    BY <2>1, CallShape
<1>5. QED
  BY <1>1, <1>2, <1>3, <1>4 DEF FullyTyped, Typed

\* Two states with the same money and contracts stay so under the same payment.
AlikeButRegistry(s, t) ==
  \E ok, bal, con, q, r : /\ s \in [ok : {ok}, bal : {bal}, con : {con}, reg : {q}]
                          /\ t \in [ok : {ok}, bal : {bal}, con : {con}, reg : {r}]

LEMMA RefusedAlike ==
  ASSUME NEW s, NEW t, AlikeButRegistry(s, t)
  PROVE  AlikeButRegistry(Refused(s), Refused(t))
<1>1. PICK ok, bal, con, q, r : /\ s \in [ok : {ok}, bal : {bal}, con : {con}, reg : {q}]
                                /\ t \in [ok : {ok}, bal : {bal}, con : {con}, reg : {r}]
  BY DEF AlikeButRegistry
<1>2. /\ s.ok = ok /\ s.bal = bal /\ s.con = con /\ s.reg = q
      /\ t.ok = ok /\ t.bal = bal /\ t.con = con /\ t.reg = r
  BY <1>1
<1> DEFINE x == Refused(s)
           y == Refused(t)
<1>3. /\ x \in [ok : {x.ok}, bal : {x.bal}, con : {con}, reg : {q}]
      /\ y \in [ok : {x.ok}, bal : {x.bal}, con : {con}, reg : {r}]
  BY <1>1, <1>2 DEF Refused
<1> HIDE DEF x, y
<1>4. QED
  BY <1>3 DEF AlikeButRegistry, x, y

LEMMA CreditAlike ==
  ASSUME NEW s, NEW t, AlikeButRegistry(s, t), NEW to, NEW amt
  PROVE  AlikeButRegistry(Credit(s, to, amt), Credit(t, to, amt))
<1>1. PICK ok, bal, con, q, r : /\ s \in [ok : {ok}, bal : {bal}, con : {con}, reg : {q}]
                                /\ t \in [ok : {ok}, bal : {bal}, con : {con}, reg : {r}]
  BY DEF AlikeButRegistry
<1>2. /\ s.ok = ok /\ s.bal = bal /\ s.con = con /\ s.reg = q
      /\ t.ok = ok /\ t.bal = bal /\ t.con = con /\ t.reg = r
  BY <1>1
<1> DEFINE x == Credit(s, to, amt)
           y == Credit(t, to, amt)
<1>3. /\ x \in [ok : {x.ok}, bal : {x.bal}, con : {con}, reg : {q}]
      /\ y \in [ok : {x.ok}, bal : {x.bal}, con : {con}, reg : {r}]
  BY <1>1, <1>2 DEF Credit, Refused
<1> HIDE DEF x, y
<1>4. QED
  BY <1>3 DEF AlikeButRegistry, x, y

LEMMA TransferAlike ==
  ASSUME NEW s, NEW t, AlikeButRegistry(s, t), NEW from, NEW to, NEW amt, NEW fee
  PROVE  AlikeButRegistry(Transfer(s, from, to, amt, fee), Transfer(t, from, to, amt, fee))
<1>1. PICK ok, bal, con, q, r : /\ s \in [ok : {ok}, bal : {bal}, con : {con}, reg : {q}]
                                /\ t \in [ok : {ok}, bal : {bal}, con : {con}, reg : {r}]
  BY DEF AlikeButRegistry
<1>2. /\ s.ok = ok /\ s.bal = bal /\ s.con = con /\ s.reg = q
      /\ t.ok = ok /\ t.bal = bal /\ t.con = con /\ t.reg = r
  BY <1>1
<1> DEFINE paid  == [bal EXCEPT ![from] = @ - (amt + fee)]
           moved == [paid EXCEPT ![to] = @ + amt]
           x     == [s EXCEPT !.bal = moved]
           y     == [t EXCEPT !.bal = moved]
<1>3. x = Moved(s, from, to, amt, amt + fee) /\ y = Moved(t, from, to, amt, amt + fee)
  BY <1>2 DEF Moved
<1>4. AlikeButRegistry(x, y)
  <2> HIDE DEF moved
  <2>1. /\ x \in [ok : {ok}, bal : {moved}, con : {con}, reg : {q}]
        /\ y \in [ok : {ok}, bal : {moved}, con : {con}, reg : {r}]
    BY <1>1
  <2>2. QED
    BY <2>1 DEF AlikeButRegistry
<1>5. AlikeButRegistry(Refused(s), Refused(t))
  BY RefusedAlike
<1> HIDE DEF x, y
<1>6. QED
  BY <1>2, <1>3, <1>4, <1>5 DEF Transfer

\* What a transaction does does not depend on the history of the registry nor
\* on which tensors are known, unless it counts votes.
LEMMA ApplyAlike ==
  ASSUME NEW s, IsLedger(s), NEW t, IsLedger(t), SameLedger(s, t),
         NEW tx, FullyTyped(tx), tx.op # "VALIDATOR_GOVERNANCE_EXIT", NEW idx
  PROVE  SameLedger(ApplyTransaction(s, tx, idx), ApplyTransaction(t, tx, idx))
<1> DEFINE x == ApplyTransaction(s, tx, idx)
           y == ApplyTransaction(t, tx, idx)
<1>1. x.reg = s.reg /\ y.reg = t.reg
  BY ApplyShape
<1>2. s.ok = t.ok /\ s.bal = t.bal /\ s.con = t.con
      /\ DOMAIN s.reg.validators = DOMAIN t.reg.validators
  BY DEF SameLedger, SameRegistry
<1>3. /\ s \in [ok : {s.ok}, bal : {s.bal}, con : {s.con}, reg : {s.reg}]
      /\ t \in [ok : {t.ok}, bal : {t.bal}, con : {t.con}, reg : {t.reg}]
  BY LedgerFields
<1>4. x.ok = y.ok /\ x.bal = y.bal /\ x.con = y.con
  <2>1. CASE tx.op = "VALIDATOR_EXIT"
    <3>1. x = ApplyExit(s, tx, idx) /\ y = ApplyExit(t, tx, idx)
      BY <2>1 DEF ApplyTransaction, Payments
    <3>2. AlikeButRegistry(s, t)
      BY <1>2, <1>3 DEF AlikeButRegistry
    <3>3. /\ AlikeButRegistry(Refused(s), Refused(t))
          /\ AlikeButRegistry(Transfer(s, tx.to, tx.from, Stake, 0),
                              Transfer(t, tx.to, tx.from, Stake, 0))
      BY <3>2, TransferAlike, RefusedAlike
    <3>4. AlikeButRegistry(x, y)
      BY <1>2, <3>1, <3>2, <3>3 DEF ApplyExit
    <3>5. QED
      BY <3>4 DEF AlikeButRegistry
  <2>2. CASE tx.op \in {"VALIDATOR_UPDATE", "VALIDATOR_SLASH"}
    <3>1. x = s /\ y = t
      BY <2>2 DEF ApplyTransaction, Payments
    <3>2. QED
      BY <1>2, <3>1
  <2>3. CASE tx.op \in Payments
    <3>1. x = ApplyCall(s, tx) /\ y = ApplyCall(t, tx)
      BY <2>3 DEF ApplyTransaction, Payments
    <3> DEFINE con == Execute(s.con, tx)
               u   == [s EXCEPT !.con = con]
               w   == [t EXCEPT !.con = con]
    <3>2. AlikeButRegistry(u, w)
      BY <1>2, <1>3 DEF AlikeButRegistry
    <3>3. AlikeButRegistry(ApplyPayment(u, tx), ApplyPayment(w, tx))
      <4> HIDE DEF u, w
      <4>1. QED
        BY <3>2, CreditAlike, TransferAlike DEF ApplyPayment
    <3>4. AlikeButRegistry(Refused(s), Refused(t))
      BY <1>2, <1>3, RefusedAlike DEF AlikeButRegistry
    <3>5. QED
      BY <1>2, <3>1, <3>3, <3>4 DEF ApplyCall, AlikeButRegistry
  <2>4. QED
    BY <2>1, <2>2, <2>3 DEF FullyTyped, Typed
<1>5. QED
  BY <1>1, <1>4 DEF SameLedger

-----------------------------------------------------------------------------
(* One transaction on the registry                                          *)

LEMMA RegisterShape ==
  ASSUME NEW reg, IsRegistry(reg), NEW tx, FullyTyped(tx), NEW idx
  PROVE  /\ IsRegistry(Register(reg, tx, idx))
         /\ Register(reg, tx, idx).slashed = reg.slashed
<1> DEFINE entry == [lam |-> tx.lam, m3 |-> TRUE]
<1>1. entry \in Entries
  BY DEF Entries, FullyTyped
<1> HIDE DEF entry
<1>2. tx.from \in Acct =>
        /\ IsRegistry(With(reg, tx.from, entry, idx))
        /\ With(reg, tx.from, entry, idx).slashed = reg.slashed
  BY <1>1, WithIsRegistry
<1>3. QED
  BY <1>2 DEF Register, entry

LEMMA UpdateShape ==
  ASSUME NEW reg, IsRegistry(reg), NEW tx, FullyTyped(tx), NEW idx
  PROVE  /\ IsRegistry(UpdateLambda(reg, tx, idx))
         /\ UpdateLambda(reg, tx, idx).slashed = reg.slashed
<1>1. CASE tx.from \in DOMAIN reg.validators
  <2> DEFINE entry == [reg.validators[tx.from] EXCEPT !.lam = tx.lam]
  <2>1. reg.validators[tx.from] \in Entries /\ tx.from \in Acct
    BY <1>1, RegistryFields DEF IsMap
  <2>2. entry \in Entries
    BY <2>1 DEF Entries, FullyTyped
  <2> HIDE DEF entry
  <2>3. /\ IsRegistry(With(reg, tx.from, entry, idx))
        /\ With(reg, tx.from, entry, idx).slashed = reg.slashed
    BY <2>1, <2>2, WithIsRegistry
  <2>4. QED
    BY <2>3 DEF UpdateLambda, entry
<1>2. CASE tx.from \notin DOMAIN reg.validators
  BY <1>2 DEF UpdateLambda
<1>3. QED
  BY <1>1, <1>2

LEMMA SlashShape ==
  ASSUME NEW reg, IsRegistry(reg), NEW tx, FullyTyped(tx), tx.op = "VALIDATOR_SLASH",
         NEW idx
  PROVE  IsRegistry(Slash(reg, tx, idx))
<1> DEFINE out == IF tx.target \in DOMAIN reg.validators
                  THEN Without(reg, tx.target, idx) ELSE reg
           new == [out EXCEPT !.slashed = @ \cup {tx.target}]
<1>1. IsRegistry(out)
  BY WithoutIsRegistry
<1>2. /\ out \in [validators : {out.validators}, slashed : {out.slashed},
                 history : {out.history}]
      /\ IsMap(out.validators) /\ out.slashed \subseteq Acct
  BY <1>1, RegistryFields
<1>3. Slash(reg, tx, idx) = IF tx.target = NoAcct THEN reg ELSE new
  BY DEF Slash
<1>4. ASSUME tx.target # NoAcct PROVE IsRegistry(new)
  <2>1. tx.target \in Acct
    BY <1>4 DEF FullyTyped
  <2> HIDE DEF out
  <2>2. /\ new \in [validators : {out.validators}, slashed : {out.slashed \cup {tx.target}},
                   history : {out.history}]
        /\ new.validators = out.validators /\ new.history = out.history
        /\ new.slashed = out.slashed \cup {tx.target}
    BY <1>2
  <2> HIDE DEF new
  <2>3. QED
    BY <1>2, <2>1, <2>2, RegistryFields
<1> HIDE DEF new
<1>5. QED
  BY <1>3, <1>4

\* A transaction leaves a registry, and none but an expulsion slashes anybody.
LEMMA ProcessShape ==
  ASSUME NEW reg, IsRegistry(reg), NEW tx, FullyTyped(tx), NEW idx
  PROVE  /\ IsRegistry(ProcessTx(reg, tx, idx))
         /\ tx.op \notin {"VALIDATOR_SLASH", "VALIDATOR_GOVERNANCE_EXIT"} =>
              ProcessTx(reg, tx, idx).slashed = reg.slashed
<1>1. CASE tx.op = "VALIDATOR_REGISTER"
  BY <1>1, RegisterShape DEF ProcessTx
<1>2. CASE tx.op = "VALIDATOR_EXIT"
  <2>1. ProcessTx(reg, tx, idx) \in {reg, Without(reg, tx.from, idx)}
    BY <1>2 DEF ProcessTx, ExitValidator
  <2>2. IsRegistry(Without(reg, tx.from, idx)) /\ Without(reg, tx.from, idx).slashed = reg.slashed
    BY WithoutIsRegistry
  <2>3. QED
    BY <2>1, <2>2
<1>3. CASE tx.op = "VALIDATOR_SLASH"
  BY <1>3, SlashShape DEF ProcessTx
<1>4. CASE tx.op = "VALIDATOR_UPDATE"
  BY <1>4, UpdateShape DEF ProcessTx
<1>5. CASE tx.op = "VALIDATOR_GOVERNANCE_EXIT"
  <2>1. ProcessTx(reg, tx, idx)
          \in {reg, ExecuteGovernanceExit(reg, tx.target, idx)}
    BY <1>5 DEF ProcessTx, GovernanceExit
  <2>2. QED
    BY <1>5, <2>1, ExpelIsRegistry
<1>6. CASE tx.op \notin {"VALIDATOR_REGISTER", "VALIDATOR_EXIT", "VALIDATOR_SLASH",
                        "VALIDATOR_UPDATE", "VALIDATOR_GOVERNANCE_EXIT"}
  BY <1>6 DEF ProcessTx
<1>7. QED
  BY <1>1, <1>2, <1>3, <1>4, <1>5, <1>6

LEMMA EventAdded ==
  ASSUME NEW h, IsHistory(h), NEW e
  PROVE  /\ IsHistory(Append(h, e))
         /\ Len(h) \in Nat /\ DOMAIN h = 1 .. Len(h)
         /\ DOMAIN Append(h, e) = 1 .. Len(h) + 1 /\ Append(h, e)[Len(h) + 1] = e
         /\ \A i \in 1 .. Len(h) : Append(h, e)[i] = h[i]
<1> DEFINE g == Append(h, e)
<1>1. h \in Seq(Range(h))
  BY DEF IsHistory
<1> DEFINE V == Range(h) \cup {e}
<1>2. h \in Seq(V) /\ e \in V
  BY <1>1
<1> HIDE DEF V
<1>3. /\ Len(h) \in Nat /\ DOMAIN h = 1 .. Len(h)
      /\ g \in Seq(V) /\ DOMAIN g = 1 .. Len(h) + 1 /\ Len(g) = Len(h) + 1
      /\ g[Len(h) + 1] = e /\ \A i \in 1 .. Len(h) : g[i] = h[i]
  BY <1>2
<1> HIDE DEF g
<1>4. \A i \in 1 .. Len(g) : g[i] \in Range(g)
  BY <1>3 DEF Range
<1>5. g \in Seq(Range(g))
  <2>1. g = [i \in 1 .. Len(g) |-> g[i]]
    BY <1>3
  <2>2. QED
    BY <1>3, <1>4, <2>1
<1>6. QED
  BY <1>3, <1>5 DEF IsHistory, g

\* A recorded event is what the history says of its block and of later ones.
LEMMA RecordedIsPast ==
  ASSUME NEW reg, IsRegistry(reg), IsHistory(reg.history), NEW map, IsMap(map), NEW idx, NEW k
  PROVE  LET new == Recorded(reg, map, idx)
         IN /\ IsHistory(new.history)
            /\ idx <= k => Past(new, k) # {} /\ ValidatorsAt(new, k) = map
            /\ ~(idx <= k) =>
                 /\ Past(new, k) = Past(reg, k)
                 /\ Past(reg, k) # {} => ValidatorsAt(new, k) = ValidatorsAt(reg, k)
<1> DEFINE new == Recorded(reg, map, idx)
           e == [at |-> idx, validators |-> map]
           n == Len(reg.history)
<1>1. new.history = Append(reg.history, e)
  <2>1. reg \in [validators : {reg.validators}, slashed : {reg.slashed},
                 history : {reg.history}]
    BY RegistryFields
  <2>2. QED
    BY <2>1 DEF Recorded
<1>2. e.at = idx /\ e.validators = map
  OBVIOUS
<1> HIDE DEF e, new
<1>3. /\ IsHistory(new.history) /\ n \in Nat /\ DOMAIN reg.history = 1 .. n
      /\ DOMAIN new.history = 1 .. n + 1 /\ new.history[n + 1] = e
      /\ \A i \in 1 .. n : new.history[i] = reg.history[i]
  BY <1>1, EventAdded
<1> HIDE DEF n
<1>4. n + 1 \in 1 .. n + 1 /\ \A i \in 1 .. n + 1 : i # n + 1 => i \in 1 .. n
      /\ \A j \in 1 .. n : j \in 1 .. n + 1 /\ j # n + 1
  BY <1>3
<1>5. ASSUME idx <= k PROVE Past(new, k) # {} /\ ValidatorsAt(new, k) = map
  <2>1. n + 1 \in Past(new, k) /\ Past(new, k) \subseteq 1 .. n + 1
    BY <1>2, <1>3, <1>4, <1>5 DEF Past
  <2>2. Past(new, k) \in SUBSET Int /\ \A i \in Past(new, k) : i <= n + 1
    BY <1>3, <2>1
  <2>3. Max(Past(new, k)) = n + 1
    BY <2>1, <2>2, GreatestIs
  <2>4. ValidatorsAt(new, k) = new.history[Max(Past(new, k))].validators
    BY <2>1 DEF ValidatorsAt, Past
  <2>5. QED
    BY <1>2, <1>3, <2>1, <2>3, <2>4
<1>6. ASSUME ~(idx <= k)
      PROVE  /\ Past(new, k) = Past(reg, k)
             /\ Past(reg, k) # {} => ValidatorsAt(new, k) = ValidatorsAt(reg, k)
  <2>1. Past(new, k) = Past(reg, k)
    BY <1>2, <1>3, <1>4, <1>6 DEF Past
  <2>2. ASSUME Past(reg, k) # {} PROVE ValidatorsAt(new, k) = ValidatorsAt(reg, k)
    <3>1. /\ ValidatorsAt(new, k) = new.history[Max(Past(reg, k))].validators
          /\ ValidatorsAt(reg, k) = reg.history[Max(Past(reg, k))].validators
      BY <2>1, <2>2 DEF ValidatorsAt, Past
    <3>2. Max(Past(reg, k)) \in Past(reg, k)
      <4>1. Past(reg, k) \in SUBSET (1 .. n)
        BY <1>3 DEF Past
      <4>2. QED
        BY <1>3, <2>2, <4>1, Applying!LargestPosition DEF Max, Applying!Max
    <3>3. new.history[Max(Past(reg, k))] = reg.history[Max(Past(reg, k))]
      BY <1>3, <3>2 DEF Past
    <3>4. QED
      BY <3>1, <3>3
  <2>3. QED
    BY <2>1, <2>2
<1>7. QED
  BY <1>3, <1>5, <1>6 DEF new

LEMMA RecordedAlike ==
  ASSUME NEW q, IsRegistry(q), NEW r, IsRegistry(r), SameRecord(q, r), NEW idx,
         NEW map, IsMap(map), NEW other, IsMap(other), SameMap(map, other)
  PROVE  SameRecord(Recorded(q, map, idx), Recorded(r, other, idx))
<1> DEFINE x == Recorded(q, map, idx)
           y == Recorded(r, other, idx)
<1>1. IsHistory(q.history) /\ IsHistory(r.history)
      /\ \A k \in Nat : Past(q, k) # {} =>
           Past(r, k) # {} /\ SameMap(ValidatorsAt(q, k), ValidatorsAt(r, k))
  BY DEF SameRecord
<1>2. /\ IsHistory(x.history)
      /\ \A k : /\ idx <= k => Past(x, k) # {} /\ ValidatorsAt(x, k) = map
                /\ ~(idx <= k) =>
                     /\ Past(x, k) = Past(q, k)
                     /\ Past(q, k) # {} => ValidatorsAt(x, k) = ValidatorsAt(q, k)
  <2> HIDE DEF SameMap, Past
  <2> QED
    BY <1>1, RecordedIsPast
<1>3. /\ IsHistory(y.history)
      /\ \A k : /\ idx <= k => Past(y, k) # {} /\ ValidatorsAt(y, k) = other
                /\ ~(idx <= k) =>
                     /\ Past(y, k) = Past(r, k)
                     /\ Past(r, k) # {} => ValidatorsAt(y, k) = ValidatorsAt(r, k)
  <2> HIDE DEF SameMap, Past
  <2> QED
    BY <1>1, RecordedIsPast
<1> HIDE DEF x, y
<1>4. ASSUME NEW k \in Nat, Past(x, k) # {}
      PROVE  Past(y, k) # {} /\ SameMap(ValidatorsAt(x, k), ValidatorsAt(y, k))
  <2>1. CASE idx <= k
    BY <1>2, <1>3, <2>1
  <2>2. CASE ~(idx <= k)
    BY <1>1, <1>2, <1>3, <1>4, <2>2
  <2>3. QED
    BY <2>1, <2>2
<1>5. SameRecord(x, y)
  BY <1>2, <1>3, <1>4 DEF SameRecord
<1>6. QED
  BY <1>5 DEF x, y

\* The same entry written into, or the same one taken out of, registries alike.
LEMMA WithAlike ==
  ASSUME NEW q, IsRegistry(q), NEW r, IsRegistry(r), SameRegistry(q, r),
         NEW who \in Acct, NEW e \in Entries, NEW f \in Entries, e.lam = f.lam, NEW idx
  PROVE  SameRegistry(With(q, who, e, idx), With(r, who, f, idx))
<1>1. /\ With(q, who, e, idx).validators = Put(q.validators, who, e)
      /\ With(r, who, f, idx).validators = Put(r.validators, who, f)
      /\ With(q, who, e, idx).slashed = q.slashed
      /\ With(r, who, f, idx).slashed = r.slashed
  BY WithIsRegistry
<1>2. /\ IsMap(Put(q.validators, who, e)) /\ IsMap(Put(r.validators, who, f))
      /\ SameMap(Put(q.validators, who, e), Put(r.validators, who, f))
  <2>1. IsMap(Put(q.validators, who, e)) /\ IsMap(Put(r.validators, who, f))
    BY PutInMap, RegistryFields
  <2>2. SameMap(Put(q.validators, who, e), Put(r.validators, who, f))
    BY DEF SameRegistry, SameMap, Put
  <2>3. QED
    BY <2>1, <2>2
<1>3. SameRecord(With(q, who, e, idx), With(r, who, f, idx))
  BY <1>2, RecordedAlike DEF With, SameRegistry
<1>4. QED
  BY <1>1, <1>2, <1>3 DEF SameRegistry, SameMap

LEMMA WithoutAlike ==
  ASSUME NEW q, IsRegistry(q), NEW r, IsRegistry(r), SameRegistry(q, r), NEW who, NEW idx
  PROVE  SameRegistry(Without(q, who, idx), Without(r, who, idx))
<1>1. /\ Without(q, who, idx).validators = Restrict(q.validators, DOMAIN q.validators \ {who})
      /\ Without(r, who, idx).validators = Restrict(r.validators, DOMAIN r.validators \ {who})
      /\ Without(q, who, idx).slashed = q.slashed
      /\ Without(r, who, idx).slashed = r.slashed
  BY WithoutIsRegistry
<1>2. LET map == Restrict(q.validators, DOMAIN q.validators \ {who})
          other == Restrict(r.validators, DOMAIN r.validators \ {who})
      IN IsMap(map) /\ IsMap(other) /\ SameMap(map, other)
  BY OutOfMap, RegistryFields DEF SameRegistry, SameMap, Restrict
<1>3. SameRecord(Without(q, who, idx), Without(r, who, idx))
  BY <1>2, RecordedAlike DEF Without, SameRegistry
<1>4. QED
  BY <1>1, <1>2, <1>3 DEF SameRegistry, SameMap

\* What a transaction does to the map of validators does not depend on its
\* history nor on which tensors are known.
LEMMA ProcessAlike ==
  ASSUME NEW q, IsRegistry(q), NEW r, IsRegistry(r), SameRegistry(q, r),
         NEW tx, FullyTyped(tx),
         tx.op \notin {"VALIDATOR_SLASH", "VALIDATOR_GOVERNANCE_EXIT"}, NEW idx
  PROVE  SameRegistry(ProcessTx(q, tx, idx), ProcessTx(r, tx, idx))
<1>1. /\ DOMAIN q.validators = DOMAIN r.validators /\ q.slashed = r.slashed
      /\ \A v \in DOMAIN q.validators : q.validators[v].lam = r.validators[v].lam
  BY DEF SameRegistry
<1>2. CASE tx.op = "VALIDATOR_REGISTER"
  <2> DEFINE entry == [lam |-> tx.lam, m3 |-> TRUE]
  <2>1. Diverse(q, tx.lam) = Diverse(r, tx.lam)
    BY <1>1 DEF Diverse
  <2>2. entry \in Entries
    BY DEF Entries, FullyTyped
  <2> HIDE DEF entry
  <2>3. tx.from \in Acct =>
          SameRegistry(With(q, tx.from, entry, idx), With(r, tx.from, entry, idx))
    BY <2>2, WithAlike
  <2>4. SameRegistry(Register(q, tx, idx), Register(r, tx, idx))
    BY <1>1, <2>1, <2>3 DEF Register, entry
  <2>5. QED
    BY <1>2, <2>4 DEF ProcessTx
<1>3. CASE tx.op = "VALIDATOR_EXIT"
  BY <1>1, <1>3, WithoutAlike DEF ProcessTx, ExitValidator
<1>4. CASE tx.op = "VALIDATOR_UPDATE"
  <2>1. CASE tx.from \in DOMAIN q.validators
    <3> DEFINE e == [q.validators[tx.from] EXCEPT !.lam = tx.lam]
               f == [r.validators[tx.from] EXCEPT !.lam = tx.lam]
    <3>1. q.validators[tx.from] \in Entries /\ r.validators[tx.from] \in Entries
          /\ tx.from \in Acct
      BY <1>1, <2>1, RegistryFields DEF IsMap
    <3>2. e \in Entries /\ f \in Entries /\ e.lam = f.lam
      BY <3>1 DEF Entries, FullyTyped
    <3> HIDE DEF e, f
    <3>3. SameRegistry(With(q, tx.from, e, idx), With(r, tx.from, f, idx))
      BY <3>1, <3>2, WithAlike
    <3>4. SameRegistry(UpdateLambda(q, tx, idx), UpdateLambda(r, tx, idx))
      BY <1>1, <2>1, <3>3 DEF UpdateLambda, e, f
    <3>5. QED
      BY <1>4, <3>4 DEF ProcessTx
  <2>2. CASE tx.from \notin DOMAIN q.validators
    BY <1>1, <1>4, <2>2 DEF ProcessTx, UpdateLambda
  <2>3. QED
    BY <2>1, <2>2
<1>5. CASE tx.op \notin {"VALIDATOR_REGISTER", "VALIDATOR_EXIT", "VALIDATOR_SLASH",
                        "VALIDATOR_UPDATE", "VALIDATOR_GOVERNANCE_EXIT"}
  BY <1>5 DEF ProcessTx
<1>6. QED
  BY <1>2, <1>3, <1>4, <1>5

\* A registry whose history tells of block t and of none after it, and ends with its map
Chronicled(reg, t) ==
  /\ IsHistory(reg.history)
  /\ \A i \in DOMAIN reg.history : reg.history[i].at \in Nat /\ reg.history[i].at <= t
  /\ IF reg.history = <<>> THEN DOMAIN reg.validators = {}
     ELSE reg.history[Len(reg.history)].validators = reg.validators

LEMMA RecordedIsChronicled ==
  ASSUME NEW reg, IsRegistry(reg), NEW idx \in Nat, Chronicled(reg, idx), NEW map, IsMap(map)
  PROVE  Chronicled(Recorded(reg, map, idx), idx)
<1> DEFINE e == [at |-> idx, validators |-> map]
           new == Recorded(reg, map, idx)
           n == Len(reg.history)
<1>1. new.history = Append(reg.history, e) /\ new.validators = map
  BY RegistryFields DEF Recorded
<1>2. e.at = idx /\ e.validators = map
  OBVIOUS
<1> HIDE DEF e, new
<1>3. /\ IsHistory(new.history) /\ n \in Nat /\ DOMAIN reg.history = 1 .. n
      /\ DOMAIN new.history = 1 .. n + 1 /\ new.history[n + 1] = e
      /\ \A i \in 1 .. n : new.history[i] = reg.history[i]
  BY <1>1, EventAdded DEF Chronicled
<1> HIDE DEF n
<1>4. \A i \in 1 .. n + 1 : i = n + 1 \/ i \in 1 .. n
  BY <1>3
<1>5. \A i \in DOMAIN new.history : new.history[i].at \in Nat /\ new.history[i].at <= idx
  BY <1>2, <1>3, <1>4 DEF Chronicled
<1>6. Len(new.history) = n + 1 /\ new.history # <<>>
  <2>1. Len(new.history) \in Nat /\ DOMAIN new.history = 1 .. Len(new.history)
    BY <1>3, EventAdded
  <2>2. n + 1 \in DOMAIN new.history /\ n + 1 >= 1
    BY <1>3
  <2>3. new.history # <<>>
    BY <2>2
  <2>4. QED
    BY <1>3, <2>1, <2>3
<1>7. QED
  BY <1>1, <1>2, <1>3, <1>5, <1>6 DEF Chronicled, new

LEMMA ProcessChronicled ==
  ASSUME NEW reg, IsRegistry(reg), NEW idx \in Nat, Chronicled(reg, idx),
         NEW tx, FullyTyped(tx),
         tx.op \notin {"VALIDATOR_SLASH", "VALIDATOR_GOVERNANCE_EXIT"}
  PROVE  Chronicled(ProcessTx(reg, tx, idx), idx)
<1>1. \A who \in Acct, entry \in Entries : Chronicled(With(reg, who, entry, idx), idx)
  BY PutInMap, RegistryFields, RecordedIsChronicled DEF With
<1>2. \A who : Chronicled(Without(reg, who, idx), idx)
  BY OutOfMap, RegistryFields, RecordedIsChronicled DEF Without
<1>3. CASE tx.op = "VALIDATOR_REGISTER"
  <2> DEFINE entry == [lam |-> tx.lam, m3 |-> TRUE]
  <2>1. entry \in Entries
    BY DEF Entries, FullyTyped
  <2> HIDE DEF entry
  <2>2. tx.from \in Acct => Chronicled(With(reg, tx.from, entry, idx), idx)
    BY <1>1, <2>1
  <2>3. QED
    BY <1>3, <2>2 DEF ProcessTx, Register, entry
<1>4. CASE tx.op = "VALIDATOR_EXIT"
  BY <1>2, <1>4 DEF ProcessTx, ExitValidator
<1>5. CASE tx.op = "VALIDATOR_UPDATE"
  <2>1. CASE tx.from \in DOMAIN reg.validators
    <3> DEFINE entry == [reg.validators[tx.from] EXCEPT !.lam = tx.lam]
    <3>1. reg.validators[tx.from] \in Entries /\ tx.from \in Acct
      BY <2>1, RegistryFields DEF IsMap
    <3>2. entry \in Entries
      BY <3>1 DEF Entries, FullyTyped
    <3> HIDE DEF entry
    <3>3. Chronicled(With(reg, tx.from, entry, idx), idx)
      BY <1>1, <3>1, <3>2
    <3>4. QED
      BY <1>5, <3>3 DEF ProcessTx, UpdateLambda, entry
  <2>2. CASE tx.from \notin DOMAIN reg.validators
    BY <1>5, <2>2 DEF ProcessTx, UpdateLambda
  <2>3. QED
    BY <2>1, <2>2
<1>6. CASE tx.op \notin {"VALIDATOR_REGISTER", "VALIDATOR_EXIT", "VALIDATOR_SLASH",
                        "VALIDATOR_UPDATE", "VALIDATOR_GOVERNANCE_EXIT"}
  BY <1>6 DEF ProcessTx
<1>7. QED
  BY <1>3, <1>4, <1>5, <1>6

LEMMA EmptyRecord ==
  ASSUME NEW reg, IsHistory(reg.history)
  PROVE  SameRecord(EmptyRegistry, reg)
<1>1. EmptyRegistry.history = <<>>
  BY DEF EmptyRegistry
<1>2. IsHistory(<<>>) /\ DOMAIN <<>> = {}
  BY DEF IsHistory
<1>3. QED
  BY <1>1, <1>2 DEF SameRecord, Past

\* A history that begins with the map of block t, as a snapshot of it does, agrees with
\* the full one.
LEMMA SeedRecord ==
  ASSUME NEW reg, NEW t \in Nat, Chronicled(reg, t), NEW map, DOMAIN map # {},
         SameMap(map, reg.validators),
         NEW seed, seed.history = <<[at |-> t, validators |-> map]>>
  PROVE  SameRecord(seed, reg)
<1> DEFINE e == [at |-> t, validators |-> map]
           n == Len(reg.history)
<1>1. e.at = t /\ e.validators = map
  OBVIOUS
<1> HIDE DEF e
<1>2. /\ DOMAIN seed.history = {1} /\ seed.history[1] = e /\ IsHistory(seed.history)
  <2>1. seed.history = <<e>>
    BY DEF e
  <2>2. DOMAIN <<e>> = {1} /\ <<e>>[1] = e
    OBVIOUS
  <2>3. e \in Range(<<e>>)
    BY <2>2 DEF Range
  <2>4. <<e>> \in Seq(Range(<<e>>))
    BY <2>3
  <2>5. QED
    BY <2>1, <2>2, <2>4 DEF IsHistory
<1>3. reg.history # <<>> /\ reg.history[n].validators = reg.validators
      /\ IsHistory(reg.history)
      /\ \A i \in DOMAIN reg.history : reg.history[i].at \in Nat /\ reg.history[i].at <= t
  <2>1. DOMAIN reg.validators # {}
    BY DEF SameMap
  <2>2. QED
    BY <2>1 DEF Chronicled
<1>4. n \in Nat /\ DOMAIN reg.history = 1 .. n /\ n >= 1
  <2>1. reg.history \in Seq(Range(reg.history))
    BY <1>3 DEF IsHistory
  <2>2. QED
    BY <1>3, <2>1, EmptySeq
<1> HIDE DEF n
<1>5. ASSUME NEW k \in Nat, Past(seed, k) # {}
      PROVE  Past(reg, k) # {} /\ SameMap(ValidatorsAt(seed, k), ValidatorsAt(reg, k))
  <2>1. Past(seed, k) = {1} /\ t <= k
    BY <1>1, <1>2, <1>5 DEF Past
  <2>2. Max({1}) = 1
    BY GreatestIs
  <2>3. ValidatorsAt(seed, k) = map
    BY <1>1, <1>2, <2>1, <2>2 DEF ValidatorsAt, Past
  <2>4. Past(reg, k) = 1 .. n
    <3>1. \A i \in DOMAIN reg.history : reg.history[i].at <= k
      BY <1>3, <2>1
    <3>2. Past(reg, k) = DOMAIN reg.history
      BY <3>1, Zenon DEF Past
    <3>3. QED
      BY <1>4, <3>2
  <2>5. Max(1 .. n) = n /\ 1 .. n # {}
    <3>1. 1 .. n \in SUBSET Int /\ n \in 1 .. n /\ \A y \in 1 .. n : y <= n
      BY <1>4
    <3>2. Max(1 .. n) = n
      BY <3>1, GreatestIs
    <3>3. QED
      BY <3>1, <3>2
  <2>6. ValidatorsAt(reg, k) = reg.validators
    BY <1>3, <2>4, <2>5 DEF ValidatorsAt, Past
  <2>7. QED
    BY <2>3, <2>4, <2>5, <2>6
<1>6. QED
  BY <1>2, <1>3, <1>5 DEF SameRecord

-----------------------------------------------------------------------------
(* The transactions of a block                                              *)

\* The first n transactions
First(n, txs) == SubSeq(txs, 1, n)

LEMMA FirstNone ==
  ASSUME NEW V, NEW txs \in Seq(V)
  PROVE  First(0, txs) = <<>> /\ First(Len(txs), txs) = txs /\ Len(txs) \in Nat
         /\ \A n \in 0 .. Len(txs) : First(n, txs) \in Seq(V)
BY DEF First

\* What add_block, a rollback and the registry make of no transaction.
LEMMA NoneYet ==
  ASSUME NEW V, NEW txs \in Seq(V), NEW s, NEW idx
  PROVE  /\ ApplyAll(s, First(0, txs), idx) = s
         /\ ReplayTxs(s, First(0, txs), idx) = s
         /\ ProcessAll(s, First(0, txs), idx) = s
<1>1. First(0, txs) = <<>>
  BY FirstNone
<1>2. ApplyAll(s, <<>>, idx) = Applying!Fold(s, <<>>, idx)
  BY Zenon DEF ApplyAll, ApplyStep, Applying!Fold, FoldLeft, Applying!FoldLeft,
               MapThenFoldSet, Applying!MapThenFoldSet, Max, Applying!Max
<1>3. ReplayTxs(s, <<>>, idx) = Replaying!Fold(s, <<>>, idx)
  BY Zenon DEF ReplayTxs, ReplayStep, Replaying!Fold, FoldLeft, Replaying!FoldLeft,
               MapThenFoldSet, Replaying!MapThenFoldSet, Max, Replaying!Max
<1>4. ProcessAll(s, <<>>, idx) = Processing!Fold(s, <<>>, idx)
  BY Zenon DEF ProcessAll, Processing!Fold, FoldLeft, Processing!FoldLeft,
               MapThenFoldSet, Processing!MapThenFoldSet, Max, Processing!Max
<1>5. QED
  BY <1>1, <1>2, <1>3, <1>4, Applying!FoldEmpty, Replaying!FoldEmpty, Processing!FoldEmpty

\* What they make of one transaction more.
LEMMA ApplyMore ==
  ASSUME NEW V, NEW txs \in Seq(V), NEW s, NEW idx, NEW n \in Nat, n < Len(txs)
  PROVE  ApplyAll(s, First(n + 1, txs), idx)
           = ApplyStep(ApplyAll(s, First(n, txs), idx), txs[n + 1], idx)
<1>1. \A t : ApplyAll(s, t, idx) = Applying!Fold(s, t, idx)
  BY Zenon DEF ApplyAll, ApplyStep, Applying!Fold, FoldLeft, Applying!FoldLeft,
               MapThenFoldSet, Applying!MapThenFoldSet, Max, Applying!Max
<1>2. ApplyAll(s, SubSeq(txs, 1, n + 1), idx)
        = ApplyStep(ApplyAll(s, SubSeq(txs, 1, n), idx), txs[n + 1], idx)
  BY <1>1, Applying!FoldPrefix
<1>3. QED
  BY <1>2 DEF First

LEMMA ReplayMore ==
  ASSUME NEW V, NEW txs \in Seq(V), NEW s, NEW idx, NEW n \in Nat, n < Len(txs)
  PROVE  ReplayTxs(s, First(n + 1, txs), idx)
           = ReplayStep(ReplayTxs(s, First(n, txs), idx), txs[n + 1], idx)
<1>1. \A t : ReplayTxs(s, t, idx) = Replaying!Fold(s, t, idx)
  BY Zenon DEF ReplayTxs, ReplayStep, Replaying!Fold, FoldLeft, Replaying!FoldLeft,
               MapThenFoldSet, Replaying!MapThenFoldSet, Max, Replaying!Max
<1>2. ReplayTxs(s, SubSeq(txs, 1, n + 1), idx)
        = ReplayStep(ReplayTxs(s, SubSeq(txs, 1, n), idx), txs[n + 1], idx)
  BY <1>1, Replaying!FoldPrefix
<1>3. QED
  BY <1>2 DEF First

LEMMA ProcessMore ==
  ASSUME NEW V, NEW txs \in Seq(V), NEW s, NEW idx, NEW n \in Nat, n < Len(txs)
  PROVE  ProcessAll(s, First(n + 1, txs), idx)
           = ProcessTx(ProcessAll(s, First(n, txs), idx), txs[n + 1], idx)
<1>1. \A t : ProcessAll(s, t, idx) = Processing!Fold(s, t, idx)
  BY Zenon DEF ProcessAll, Processing!Fold, FoldLeft, Processing!FoldLeft,
               MapThenFoldSet, Processing!MapThenFoldSet, Max, Processing!Max
<1>2. ProcessAll(s, SubSeq(txs, 1, n + 1), idx)
        = ProcessTx(ProcessAll(s, SubSeq(txs, 1, n), idx), txs[n + 1], idx)
  BY <1>1, Processing!FoldPrefix
<1>3. QED
  BY <1>2 DEF First

\* What holds of no transaction, and of one more when it holds of the first n,
\* holds of all of them.
LEMMA UpTo ==
  ASSUME NEW m \in Nat, NEW T, 0 \in T,
         \A n \in Nat : n < m /\ n \in T => n + 1 \in T
  PROVE  m \in T
<1> DEFINE U == {n \in Nat : n <= m => n \in T}
<1>1. 0 \in U
  OBVIOUS
<1>2. ASSUME NEW n \in U \cap Nat PROVE n + 1 \in U
  <2> SUFFICES ASSUME n + 1 <= m PROVE n + 1 \in T
    OBVIOUS
  <2>1. n \in Nat /\ n < m /\ n <= m
    OBVIOUS
  <2>2. n \in T
    BY <2>1
  <2>3. QED
    BY <2>1, <2>2
<1>3. m \in U
  <2> HIDE DEF U
  <2>1. \A n \in Nat : n \in U
    BY <1>1, <1>2, Applying!SetInduction
  <2>2. QED
    BY <2>1
<1>4. m <= m
  OBVIOUS
<1>5. QED
  BY <1>3, <1>4

\* The transactions of a block leave a ledger state, and without votes the
\* registry as it is.
LEMMA ApplyAllShape ==
  ASSUME NEW V, NEW txs \in Seq(V), AllTyped(txs), NEW s, IsLedger(s), NEW idx
  PROVE  /\ IsLedger(ApplyAll(s, txs, idx))
         /\ NoVotes(txs) => ApplyAll(s, txs, idx).reg = s.reg
<1> DEFINE At(n) == ApplyAll(s, First(n, txs), idx)
           T == {n \in Nat : IsLedger(At(n)) /\ (NoVotes(txs) => At(n).reg = s.reg)}
<1>0. Len(txs) \in Nat /\ At(Len(txs)) = ApplyAll(s, txs, idx)
  BY FirstNone
<1>1. At(0) = s
      /\ \A n \in Nat : n < Len(txs) => At(n + 1) = ApplyStep(At(n), txs[n + 1], idx)
  BY NoneYet, ApplyMore
<1> HIDE DEF At
<1>2. 0 \in T
  BY <1>1
<1>3. ASSUME NEW n \in Nat, n < Len(txs), n \in T PROVE n + 1 \in T
  <2> DEFINE tx == txs[n + 1]
  <2>1. n + 1 \in DOMAIN txs
    BY <1>0, <1>3
  <2>2. FullyTyped(tx) /\ (NoVotes(txs) => tx.op # "VALIDATOR_GOVERNANCE_EXIT")
    BY <2>1 DEF AllTyped, NoVotes
  <2>3. IsLedger(At(n)) /\ (NoVotes(txs) => At(n).reg = s.reg)
    BY <1>3
  <2> HIDE DEF tx
  <2>4. /\ IsLedger(ApplyTransaction(At(n), tx, idx))
        /\ NoVotes(txs) => ApplyTransaction(At(n), tx, idx).reg = At(n).reg
    BY <2>2, <2>3, ApplyShape
  <2>5. At(n + 1) = ApplyStep(At(n), tx, idx)
    BY <1>1, <1>3 DEF tx
  <2>6. IsLedger(At(n + 1)) /\ (NoVotes(txs) => At(n + 1).reg = s.reg)
    BY <2>3, <2>4, <2>5 DEF ApplyStep
  <2>7. QED
    BY <2>6
<1>4. Len(txs) \in T
  <2> HIDE DEF T
  <2>1. QED
    BY <1>0, <1>2, <1>3, UpTo
<1>5. QED
  BY <1>0, <1>4

\* A block that is accepted to the end was accepted at each of its transactions.
LEMMA ApplyAllOk ==
  ASSUME NEW V, NEW txs \in Seq(V), NEW s, NEW idx, ApplyAll(s, txs, idx).ok,
         NEW n \in 0 .. Len(txs)
  PROVE  ApplyAll(s, First(n, txs), idx).ok
<1> DEFINE At(k) == ApplyAll(s, First(k, txs), idx)
           T == {k \in Nat : k >= n => ~At(k).ok}
<1>0. Len(txs) \in Nat /\ At(Len(txs)) = ApplyAll(s, txs, idx)
  BY FirstNone
<1>1. \A k \in Nat : k < Len(txs) => At(k + 1) = ApplyStep(At(k), txs[k + 1], idx)
  BY NoneYet, ApplyMore
<1> HIDE DEF At
<1> SUFFICES ASSUME ~At(n).ok PROVE FALSE
  BY DEF At
<1>2. 0 \in T
  OBVIOUS
<1>3. ASSUME NEW k \in Nat, k < Len(txs), k \in T PROVE k + 1 \in T
  <2> SUFFICES ASSUME k + 1 >= n PROVE ~At(k + 1).ok
    OBVIOUS
  <2>1. CASE k + 1 = n
    BY <2>1
  <2>2. CASE k >= n
    <3>1. ~At(k).ok
      BY <1>3, <2>2
    <3>2. At(k + 1) = ApplyStep(At(k), txs[k + 1], idx)
      BY <1>1, <1>3
    <3>3. QED
      BY <3>1, <3>2 DEF ApplyStep
  <2>3. QED
    BY <2>1, <2>2
<1>4. Len(txs) \in T
  <2> HIDE DEF T
  <2>1. QED
    BY <1>0, <1>2, <1>3, UpTo
<1>5. QED
  BY <1>0, <1>4

\* Executing such a block again, with the refusals dropped, does the same.
LEMMA ReplayIsApply ==
  ASSUME NEW V, NEW txs \in Seq(V), AllTyped(txs), NEW s, IsLedger(s), NEW idx,
         ApplyAll(s, txs, idx).ok
  PROVE  ReplayTxs(s, txs, idx) = ApplyAll(s, txs, idx)
<1> DEFINE At(n) == ApplyAll(s, First(n, txs), idx)
           Re(n) == ReplayTxs(s, First(n, txs), idx)
           T == {n \in Nat : n <= Len(txs) => Re(n) = At(n) /\ IsLedger(At(n))}
<1>0. /\ Len(txs) \in Nat
      /\ At(Len(txs)) = ApplyAll(s, txs, idx) /\ Re(Len(txs)) = ReplayTxs(s, txs, idx)
  BY FirstNone
<1>1. /\ At(0) = s /\ Re(0) = s
      /\ \A n \in Nat : n < Len(txs) =>
           At(n + 1) = ApplyStep(At(n), txs[n + 1], idx)
      /\ \A n \in Nat : n < Len(txs) =>
           Re(n + 1) = ReplayStep(Re(n), txs[n + 1], idx)
  BY NoneYet, ApplyMore, ReplayMore
<1>2. \A n \in 0 .. Len(txs) : At(n).ok
  BY ApplyAllOk
<1> HIDE DEF At, Re
<1>3. 0 \in T
  BY <1>1
<1>4. ASSUME NEW n \in Nat, n < Len(txs), n \in T PROVE n + 1 \in T
  <2> DEFINE tx == txs[n + 1]
             x  == ApplyTransaction(At(n), tx, idx)
  <2>1. n + 1 \in DOMAIN txs /\ n \in 0 .. Len(txs) /\ n + 1 \in 0 .. Len(txs) /\ n <= Len(txs)
    BY <1>0, <1>4
  <2>2. FullyTyped(tx) /\ IsLedger(At(n)) /\ Re(n) = At(n) /\ At(n).ok /\ At(n + 1).ok
    BY <1>2, <1>4, <2>1 DEF AllTyped
  <2>3. At(n + 1) = ApplyStep(At(n), tx, idx) /\ Re(n + 1) = ReplayStep(Re(n), tx, idx)
    BY <1>1, <1>4
  <2> HIDE DEF tx
  <2>4. IsLedger(x)
    BY <2>2, ApplyShape
  <2>5. At(n + 1) = x
    BY <2>2, <2>3 DEF ApplyStep
  <2>6. Re(n + 1) = [x EXCEPT !.ok = TRUE]
    BY <2>2, <2>3 DEF ReplayStep
  <2> HIDE DEF x
  <2>7. x \in [ok : {x.ok}, bal : {x.bal}, con : {x.con}, reg : {x.reg}] /\ x.ok = TRUE
    BY <2>2, <2>4, <2>5, LedgerFields
  <2>8. [x EXCEPT !.ok = TRUE] = x
    BY <2>7
  <2>9. Re(n + 1) = At(n + 1) /\ IsLedger(At(n + 1))
    BY <2>4, <2>5, <2>6, <2>8, Zenon
  <2>10. QED
    BY <2>9
<1>5. Len(txs) \in T
  <2> HIDE DEF T
  <2>1. QED
    BY <1>0, <1>3, <1>4, UpTo
<1>6. QED
  BY <1>0, <1>5

\* The replay leaves a ledger state whatever was refused.
LEMMA ReplayShape ==
  ASSUME NEW V, NEW txs \in Seq(V), AllTyped(txs), NEW s, IsLedger(s), NEW idx
  PROVE  IsLedger(ReplayTxs(s, txs, idx))
<1> DEFINE Re(n) == ReplayTxs(s, First(n, txs), idx)
           T == {n \in Nat : IsLedger(Re(n))}
<1>0. Len(txs) \in Nat /\ Re(Len(txs)) = ReplayTxs(s, txs, idx)
  BY FirstNone
<1>1. Re(0) = s
      /\ \A n \in Nat : n < Len(txs) => Re(n + 1) = ReplayStep(Re(n), txs[n + 1], idx)
  BY NoneYet, ReplayMore
<1> HIDE DEF Re
<1>2. 0 \in T
  BY <1>1
<1>3. ASSUME NEW n \in Nat, n < Len(txs), n \in T PROVE n + 1 \in T
  <2> DEFINE tx == txs[n + 1]
             x  == ApplyTransaction(Re(n), tx, idx)
             y  == [x EXCEPT !.ok = TRUE]
  <2>1. n + 1 \in DOMAIN txs
    BY <1>0, <1>3
  <2>2. FullyTyped(tx) /\ IsLedger(Re(n)) /\ Re(n + 1) = y
    BY <1>1, <1>3, <2>1 DEF AllTyped, ReplayStep
  <2>3. IsLedger(x)
    BY <2>2, ApplyShape
  <2> HIDE DEF x
  <2>4. x \in [ok : {x.ok}, bal : {x.bal}, con : {x.con}, reg : {x.reg}]
        /\ InColumn(x.bal) /\ IsRegistry(x.reg)
    BY <2>3, LedgerFields
  <2>5. y \in [ok : {TRUE}, bal : {x.bal}, con : {x.con}, reg : {x.reg}]
        /\ y.ok = TRUE /\ y.bal = x.bal /\ y.con = x.con /\ y.reg = x.reg
    BY <2>4
  <2> HIDE DEF y
  <2>6. IsLedger(y)
    BY <2>4, <2>5, LedgerFields
  <2>7. QED
    BY <2>2, <2>6
<1>4. Len(txs) \in T
  <2> HIDE DEF T
  <2>1. QED
    BY <1>0, <1>2, <1>3, UpTo
<1>5. QED
  BY <1>0, <1>4

\* Without votes, the transactions do the same to ledgers alike.
LEMMA ApplyAllAlike ==
  ASSUME NEW V, NEW txs \in Seq(V), AllTyped(txs), NoVotes(txs),
         NEW s, IsLedger(s), NEW t, IsLedger(t), SameLedger(s, t), NEW idx
  PROVE  SameLedger(ApplyAll(s, txs, idx), ApplyAll(t, txs, idx))
<1> DEFINE P(n) == ApplyAll(s, First(n, txs), idx)
           Q(n) == ApplyAll(t, First(n, txs), idx)
           T == {n \in Nat : IsLedger(P(n)) /\ IsLedger(Q(n)) /\ SameLedger(P(n), Q(n))}
<1>0. /\ Len(txs) \in Nat
      /\ P(Len(txs)) = ApplyAll(s, txs, idx) /\ Q(Len(txs)) = ApplyAll(t, txs, idx)
  BY FirstNone
<1>1. /\ P(0) = s /\ Q(0) = t
      /\ \A n \in Nat : n < Len(txs) => P(n + 1) = ApplyStep(P(n), txs[n + 1], idx)
      /\ \A n \in Nat : n < Len(txs) => Q(n + 1) = ApplyStep(Q(n), txs[n + 1], idx)
  BY NoneYet, ApplyMore
<1> HIDE DEF P, Q
<1>2. 0 \in T
  BY <1>1
<1>3. ASSUME NEW n \in Nat, n < Len(txs), n \in T PROVE n + 1 \in T
  <2> DEFINE tx == txs[n + 1]
  <2>1. n + 1 \in DOMAIN txs
    BY <1>0, <1>3
  <2>2. FullyTyped(tx) /\ tx.op # "VALIDATOR_GOVERNANCE_EXIT"
    BY <2>1 DEF AllTyped, NoVotes
  <2>3. IsLedger(P(n)) /\ IsLedger(Q(n)) /\ SameLedger(P(n), Q(n))
    BY <1>3
  <2>4. P(n + 1) = ApplyStep(P(n), tx, idx) /\ Q(n + 1) = ApplyStep(Q(n), tx, idx)
    BY <1>1, <1>3
  <2> HIDE DEF tx
  <2>5. /\ IsLedger(ApplyTransaction(P(n), tx, idx)) /\ IsLedger(ApplyTransaction(Q(n), tx, idx))
        /\ SameLedger(ApplyTransaction(P(n), tx, idx), ApplyTransaction(Q(n), tx, idx))
    BY <2>2, <2>3, ApplyShape, ApplyAlike
  <2>6. P(n).ok = Q(n).ok
    BY <2>3 DEF SameLedger
  <2>7. IsLedger(P(n + 1)) /\ IsLedger(Q(n + 1)) /\ SameLedger(P(n + 1), Q(n + 1))
    BY <2>3, <2>4, <2>5, <2>6 DEF ApplyStep
  <2>8. QED
    BY <2>7
<1>4. Len(txs) \in T
  <2> HIDE DEF T
  <2>1. QED
    BY <1>0, <1>2, <1>3, UpTo
<1>5. QED
  BY <1>0, <1>4

\* The transactions of a block leave a registry, the same map of validators on
\* registries alike, and slash nobody when none of them expels.
LEMMA ProcessAllShape ==
  ASSUME NEW V, NEW txs \in Seq(V), AllTyped(txs), NEW reg, IsRegistry(reg), NEW idx
  PROVE  /\ IsRegistry(ProcessAll(reg, txs, idx))
         /\ NoVotes(txs) /\ NoSlash(txs) => ProcessAll(reg, txs, idx).slashed = reg.slashed
<1> DEFINE At(n) == ProcessAll(reg, First(n, txs), idx)
           calm  == NoVotes(txs) /\ NoSlash(txs)
           T == {n \in Nat : IsRegistry(At(n)) /\ (calm => At(n).slashed = reg.slashed)}
<1>0. Len(txs) \in Nat /\ At(Len(txs)) = ProcessAll(reg, txs, idx)
  BY FirstNone
<1>1. At(0) = reg
      /\ \A n \in Nat : n < Len(txs) => At(n + 1) = ProcessTx(At(n), txs[n + 1], idx)
  BY NoneYet, ProcessMore
<1> HIDE DEF At
<1>2. 0 \in T
  BY <1>1
<1>3. ASSUME NEW n \in Nat, n < Len(txs), n \in T PROVE n + 1 \in T
  <2> DEFINE tx == txs[n + 1]
  <2>1. n + 1 \in DOMAIN txs
    BY <1>0, <1>3
  <2>2. FullyTyped(tx)
        /\ (calm => tx.op \notin {"VALIDATOR_SLASH", "VALIDATOR_GOVERNANCE_EXIT"})
    BY <2>1 DEF AllTyped, NoVotes, NoSlash
  <2>3. IsRegistry(At(n)) /\ (calm => At(n).slashed = reg.slashed)
    BY <1>3
  <2>4. At(n + 1) = ProcessTx(At(n), tx, idx)
    BY <1>1, <1>3
  <2> HIDE DEF tx, calm
  <2>5. IsRegistry(At(n + 1)) /\ (calm => At(n + 1).slashed = reg.slashed)
    BY <2>2, <2>3, <2>4, ProcessShape
  <2>6. QED
    BY <2>5
<1>4. Len(txs) \in T
  <2> HIDE DEF T
  <2>1. QED
    BY <1>0, <1>2, <1>3, UpTo
<1>5. QED
  BY <1>0, <1>4

LEMMA ProcessAllAlike ==
  ASSUME NEW V, NEW txs \in Seq(V), AllTyped(txs), NoVotes(txs), NoSlash(txs),
         NEW q, IsRegistry(q), NEW r, IsRegistry(r), SameRegistry(q, r), NEW idx
  PROVE  SameRegistry(ProcessAll(q, txs, idx), ProcessAll(r, txs, idx))
<1> DEFINE P(n) == ProcessAll(q, First(n, txs), idx)
           Q(n) == ProcessAll(r, First(n, txs), idx)
           T == {n \in Nat : IsRegistry(P(n)) /\ IsRegistry(Q(n)) /\ SameRegistry(P(n), Q(n))}
<1>0. /\ Len(txs) \in Nat
      /\ P(Len(txs)) = ProcessAll(q, txs, idx) /\ Q(Len(txs)) = ProcessAll(r, txs, idx)
  BY FirstNone
<1>1. /\ P(0) = q /\ Q(0) = r
      /\ \A n \in Nat : n < Len(txs) => P(n + 1) = ProcessTx(P(n), txs[n + 1], idx)
      /\ \A n \in Nat : n < Len(txs) => Q(n + 1) = ProcessTx(Q(n), txs[n + 1], idx)
  BY NoneYet, ProcessMore
<1> HIDE DEF P, Q
<1>2. 0 \in T
  BY <1>1
<1>3. ASSUME NEW n \in Nat, n < Len(txs), n \in T PROVE n + 1 \in T
  <2> DEFINE tx == txs[n + 1]
  <2>1. n + 1 \in DOMAIN txs
    BY <1>0, <1>3
  <2>2. FullyTyped(tx) /\ tx.op \notin {"VALIDATOR_SLASH", "VALIDATOR_GOVERNANCE_EXIT"}
    BY <2>1 DEF AllTyped, NoVotes, NoSlash
  <2>3. IsRegistry(P(n)) /\ IsRegistry(Q(n)) /\ SameRegistry(P(n), Q(n))
    BY <1>3
  <2>4. P(n + 1) = ProcessTx(P(n), tx, idx) /\ Q(n + 1) = ProcessTx(Q(n), tx, idx)
    BY <1>1, <1>3
  <2> HIDE DEF tx
  <2>5. IsRegistry(P(n + 1)) /\ IsRegistry(Q(n + 1)) /\ SameRegistry(P(n + 1), Q(n + 1))
    BY <2>2, <2>3, <2>4, ProcessShape, ProcessAlike
  <2>6. QED
    BY <2>5
<1>4. Len(txs) \in T
  <2> HIDE DEF T
  <2>1. QED
    BY <1>0, <1>2, <1>3, UpTo
<1>5. QED
  BY <1>0, <1>4

LEMMA ProcessAllChronicled ==
  ASSUME NEW V, NEW txs \in Seq(V), AllTyped(txs), NoVotes(txs), NoSlash(txs),
         NEW reg, IsRegistry(reg), NEW idx \in Nat, Chronicled(reg, idx)
  PROVE  Chronicled(ProcessAll(reg, txs, idx), idx)
<1> DEFINE At(n) == ProcessAll(reg, First(n, txs), idx)
           T == {n \in Nat : IsRegistry(At(n)) /\ Chronicled(At(n), idx)}
<1>0. Len(txs) \in Nat /\ At(Len(txs)) = ProcessAll(reg, txs, idx)
  BY FirstNone
<1>1. At(0) = reg
      /\ \A n \in Nat : n < Len(txs) => At(n + 1) = ProcessTx(At(n), txs[n + 1], idx)
  BY NoneYet, ProcessMore
<1> HIDE DEF At
<1>2. 0 \in T
  BY <1>1
<1>3. ASSUME NEW n \in Nat, n < Len(txs), n \in T PROVE n + 1 \in T
  <2> DEFINE tx == txs[n + 1]
  <2>1. n + 1 \in DOMAIN txs
    BY <1>0, <1>3
  <2>2. FullyTyped(tx) /\ tx.op \notin {"VALIDATOR_SLASH", "VALIDATOR_GOVERNANCE_EXIT"}
    BY <2>1 DEF AllTyped, NoVotes, NoSlash
  <2>3. IsRegistry(At(n)) /\ Chronicled(At(n), idx)
    BY <1>3
  <2>4. At(n + 1) = ProcessTx(At(n), tx, idx)
    BY <1>1, <1>3
  <2> HIDE DEF tx
  <2>5. IsRegistry(At(n + 1)) /\ Chronicled(At(n + 1), idx)
    BY <2>2, <2>3, <2>4, ProcessShape, ProcessChronicled
  <2>6. QED
    BY <2>5
<1>4. Len(txs) \in T
  <2> HIDE DEF T
  <2>1. QED
    BY <1>0, <1>2, <1>3, UpTo
<1>5. QED
  BY <1>0, <1>4

-----------------------------------------------------------------------------
(* A block                                                                  *)

Calm(b) == NoVotes(b.txs) /\ NoSlash(b.txs)

\* What add_block and the replay of a rollback make of one block on a ledger:
\* a ledger, and one whose registry is what the registry alone makes of the
\* block when it holds no vote.
LEMMA ProcessedShape ==
  ASSUME NEW b, IsBlock(b), NEW s, IsLedger(s)
  PROVE  /\ IsLedger(Process(s, b))
         /\ Process(s, b).ok = s.ok /\ Process(s, b).bal = s.bal
         /\ Process(s, b).con = s.con
         /\ Process(s, b).reg = ProcessAll(s.reg, b.txs, b.idx)
<1> DEFINE new == Process(s, b)
           reg == ProcessAll(s.reg, b.txs, b.idx)
<1>1. s \in [ok : {s.ok}, bal : {s.bal}, con : {s.con}, reg : {s.reg}]
      /\ s.ok \in BOOLEAN /\ InColumn(s.bal) /\ IsRegistry(s.reg)
  BY LedgerFields
<1>2. IsRegistry(reg)
  BY <1>1, ProcessAllShape DEF IsBlock
<1>3. new = [s EXCEPT !.reg = reg]
  BY DEF Process
<1> HIDE DEF new, reg
<1>4. /\ new \in [ok : {s.ok}, bal : {s.bal}, con : {s.con}, reg : {reg}]
      /\ new.ok = s.ok /\ new.bal = s.bal /\ new.con = s.con /\ new.reg = reg
  BY <1>1, <1>3
<1>5. IsLedger(new)
  BY <1>1, <1>2, <1>4, LedgerFields
<1>6. QED
  BY <1>4, <1>5 DEF new, reg

LEMMA ExecShape ==
  ASSUME NEW b, IsBlock(b), NEW s, IsLedger(s)
  PROVE  /\ IsLedger(ExecBlock(s, b))
         /\ ExecBlock(s, b).ok = ApplyAll(s, b.txs, b.idx).ok
         /\ IsLedger(ReplayBlock(s, b))
<1>1. IsLedger(ApplyAll(s, b.txs, b.idx)) /\ IsLedger(ReplayTxs(s, b.txs, b.idx))
  BY ApplyAllShape, ReplayShape DEF IsBlock
<1>2. QED
  BY <1>1, ProcessedShape DEF ExecBlock, ReplayBlock

LEMMA ReplayIsExec ==
  ASSUME NEW b, IsBlock(b), NEW s, IsLedger(s), ExecBlock(s, b).ok
  PROVE  ReplayBlock(s, b) = ExecBlock(s, b)
<1>1. ApplyAll(s, b.txs, b.idx).ok
  BY ExecShape
<1>2. ReplayTxs(s, b.txs, b.idx) = ApplyAll(s, b.txs, b.idx)
  BY <1>1, ReplayIsApply DEF IsBlock
<1>3. QED
  BY <1>2 DEF ReplayBlock, ExecBlock

\* Without votes the registry is what loading the chain from disk makes of it.
LEMMA CalmRegistry ==
  ASSUME NEW b, IsBlock(b), Calm(b), NEW s, IsLedger(s)
  PROVE  /\ ExecBlock(s, b).reg = ProcessAll(s.reg, b.txs, b.idx)
         /\ ExecBlock(s, b).reg.slashed = s.reg.slashed
<1> DEFINE t == ApplyAll(s, b.txs, b.idx)
<1>1. IsLedger(t) /\ t.reg = s.reg
  BY ApplyAllShape DEF IsBlock, Calm
<1> HIDE DEF t
<1>2. ExecBlock(s, b) = Process(t, b)
  BY DEF ExecBlock, t
<1>3. ExecBlock(s, b).reg = ProcessAll(s.reg, b.txs, b.idx)
  BY <1>1, <1>2, ProcessedShape
<1>4. IsRegistry(s.reg)
  BY LedgerFields
<1>5. ProcessAll(s.reg, b.txs, b.idx).slashed = s.reg.slashed
  BY <1>4, ProcessAllShape DEF IsBlock, Calm
<1>6. QED
  BY <1>3, <1>5

\* Ledgers alike stay alike under a block without votes and slashings.
LEMMA ExecAlike ==
  ASSUME NEW b, IsBlock(b), Calm(b),
         NEW s, IsLedger(s), NEW t, IsLedger(t), SameLedger(s, t)
  PROVE  SameLedger(ExecBlock(s, b), ExecBlock(t, b))
<1> DEFINE x == ApplyAll(s, b.txs, b.idx)
           y == ApplyAll(t, b.txs, b.idx)
<1>1. IsLedger(x) /\ IsLedger(y) /\ SameLedger(x, y)
  BY ApplyAllShape, ApplyAllAlike DEF IsBlock, Calm
<1>2. ExecBlock(s, b) = Process(x, b) /\ ExecBlock(t, b) = Process(y, b)
  BY DEF ExecBlock
<1> HIDE DEF x, y
<1>3. /\ IsRegistry(x.reg) /\ IsRegistry(y.reg) /\ SameRegistry(x.reg, y.reg)
      /\ x.ok = y.ok /\ x.bal = y.bal /\ x.con = y.con
  BY <1>1, LedgerFields DEF SameLedger
<1>4. SameRegistry(ProcessAll(x.reg, b.txs, b.idx), ProcessAll(y.reg, b.txs, b.idx))
  BY <1>3, ProcessAllAlike DEF IsBlock, Calm
<1>5. SameLedger(Process(x, b), Process(y, b))
  BY <1>1, <1>3, <1>4, ProcessedShape DEF SameLedger
<1>6. QED
  BY <1>2, <1>5

-----------------------------------------------------------------------------
(* A chain                                                                  *)

\* What StateOf climbs with
ExecStep(s, b, c) == ExecBlock(s, b)

Executing == INSTANCE FoldTheorems WITH Op <- ExecStep

LEMMA StateIsClimb ==
  \A blocks : StateOf(blocks) = Executing!Climb(GenesisState, blocks, 0)[Len(blocks)]
BY Zenon DEF StateOf, ExecStep, Executing!Climb

LEMMA GenesisIsLedger == IsLedger(GenesisState)
<1> DEFINE map == NoValidators
<1>1. IsMap(map)
  BY DEF IsMap, NoValidators
<1>2. /\ EmptyRegistry \in [validators : {EmptyRegistry.validators},
                           slashed : {EmptyRegistry.slashed}, history : {EmptyRegistry.history}]
      /\ EmptyRegistry.validators = map /\ EmptyRegistry.slashed = {}
  BY DEF EmptyRegistry
<1>3. IsRegistry(EmptyRegistry)
  BY <1>1, <1>2, RegistryFields
<1>4. InColumn(NoBalances)
  BY StateConstants DEF InColumn, NoBalances, StateConstants
<1>5. /\ GenesisState \in [ok : {GenesisState.ok}, bal : {GenesisState.bal},
                           con : {GenesisState.con}, reg : {GenesisState.reg}]
      /\ GenesisState.ok = TRUE /\ GenesisState.bal = NoBalances
      /\ GenesisState.reg = EmptyRegistry
  BY DEF GenesisState
<1>6. QED
  BY <1>3, <1>4, <1>5, LedgerFields

\* A chain of one block is genesis; a longer one is executed block after block.
LEMMA StateOfOne ==
  ASSUME NEW blocks, Len(blocks) = 1
  PROVE  StateOf(blocks) = GenesisState
BY StateIsClimb, Executing!ClimbStep

LEMMA StateOfMore ==
  ASSUME NEW V, NEW blocks \in Seq(V), NEW n \in 1 .. Len(blocks) - 1
  PROVE  StateOf(SubSeq(blocks, 1, n + 1))
           = ExecBlock(StateOf(SubSeq(blocks, 1, n)), blocks[n + 1])
<1> DEFINE shorter == SubSeq(blocks, 1, n)
           longer  == SubSeq(blocks, 1, n + 1)
<1>1. /\ n \in Nat /\ n >= 1 /\ Len(shorter) = n /\ Len(longer) = n + 1
      /\ \A i \in 2 .. n : shorter[i] = longer[i]
      /\ longer[n + 1] = blocks[n + 1]
  OBVIOUS
<1> HIDE DEF shorter, longer
<1>2. Executing!Climb(GenesisState, shorter, 0)[n] = Executing!Climb(GenesisState, longer, 0)[n]
  <2>1. Executing!Agree(shorter, longer, n)
    BY <1>1 DEF Executing!Agree
  <2>2. n \in Nat
    BY <1>1
  <2>3. QED
    BY <2>1, <2>2, Executing!ClimbAgrees
<1>3. Executing!Climb(GenesisState, longer, 0)[n + 1]
        = ExecStep(Executing!Climb(GenesisState, longer, 0)[n], longer[n + 1], 0)
  <2>1. n \in Nat /\ n >= 1
    BY <1>1
  <2>2. QED
    BY <2>1, Executing!ClimbStep
<1>4. StateOf(longer) = ExecBlock(StateOf(shorter), blocks[n + 1])
  BY <1>1, <1>2, <1>3, StateIsClimb DEF ExecStep
<1>5. QED
  BY <1>4 DEF shorter, longer

LEMMA StateOfAppend ==
  ASSUME NEW V, NEW blocks \in Seq(V), blocks # <<>>, NEW b \in V
  PROVE  StateOf(Append(blocks, b)) = ExecBlock(StateOf(blocks), b)
<1> DEFINE longer == Append(blocks, b)
           n == Len(blocks)
<1>1. /\ longer \in Seq(V) /\ Len(longer) = n + 1 /\ n \in 1 .. Len(longer) - 1
      /\ SubSeq(longer, 1, n) = blocks /\ longer[n + 1] = b
      /\ SubSeq(longer, 1, n + 1) = longer
  OBVIOUS
<1> HIDE DEF longer, n
<1>2. StateOf(SubSeq(longer, 1, n + 1)) = ExecBlock(StateOf(SubSeq(longer, 1, n)), longer[n + 1])
  BY <1>1, StateOfMore
<1>3. QED
  BY <1>1, <1>2 DEF longer
-----------------------------------------------------------------------------
(* Sums over finite sets                                                    *)

\* Some element of an inhabited set, as SumFunction chooses it
Some(s) == CHOOSE x \in s : TRUE

\* The recursive function under SumFunction
IsSum(g, f, S) ==
  g = [s \in SUBSET S |-> IF s = {} THEN 0 ELSE f[Some(s)] + g[s \ {Some(s)}]]

\* What it says of one set
SumsAt(g, f, s) == g[s] = IF s = {} THEN 0 ELSE f[Some(s)] + g[s \ {Some(s)}]

\* One element less.
LEMMA SomeIsLess ==
  ASSUME NEW S, IsFiniteSet(S), NEW s \in SUBSET S, s # {}
  PROVE  /\ Some(s) \in s /\ IsFiniteSet(s) /\ Cardinality(s) \in Nat \ {0}
         /\ \A a \in s : /\ s \ {a} \in SUBSET S
                         /\ Cardinality(s \ {a}) = Cardinality(s) - 1
<1>1. Some(s) \in s
  BY DEF Some
<1>2. IsFiniteSet(s)
  BY FS_Subset
<1>3. Cardinality(s) \in Nat /\ Cardinality(s) # 0
  BY <1>2, FS_CardinalityType, FS_EmptySet
<1>4. \A a \in s : s \ {a} \in SUBSET S /\ Cardinality(s \ {a}) = Cardinality(s) - 1
  BY <1>2, FS_RemoveElement
<1>5. QED
  BY <1>1, <1>2, <1>3, <1>4

LEMMA EmptyIsZero ==
  ASSUME NEW S, IsFiniteSet(S), NEW s \in SUBSET S
  PROVE  /\ Cardinality(s) \in Nat /\ (Cardinality(s) = 0 <=> s = {})
         /\ Cardinality(s) <= Cardinality(S)
<1>1. IsFiniteSet(s) /\ Cardinality(s) <= Cardinality(S)
  BY FS_Subset
<1>2. QED
  BY <1>1, FS_CardinalityType, FS_EmptySet

\* The function exists.
LEMMA SumExists ==
  ASSUME NEW S, IsFiniteSet(S), NEW f
  PROVE  \E g : IsSum(g, f, S)
<1> DEFINE Upto(g, n) == \A s \in SUBSET S : Cardinality(s) <= n => SumsAt(g, f, s)
           T == {n \in Nat : \E g : g = [s \in SUBSET S |-> g[s]] /\ Upto(g, n)}
<1>1. 0 \in T
  <2> DEFINE g == [s \in SUBSET S |-> 0]
  <2>1. ASSUME NEW s \in SUBSET S, Cardinality(s) <= 0 PROVE SumsAt(g, f, s)
    <3>1. s = {}
      BY <2>1, EmptyIsZero
    <3>2. QED
      BY <3>1 DEF SumsAt
  <2>2. Upto(g, 0)
    BY <2>1
  <2>3. g = [s \in SUBSET S |-> g[s]]
    OBVIOUS
  <2> HIDE DEF g, Upto
  <2>4. QED
    BY <2>2, <2>3
<1>2. ASSUME NEW n \in Nat, n \in T PROVE n + 1 \in T
  <2>1. PICK g : g = [s \in SUBSET S |-> g[s]] /\ Upto(g, n)
    BY <1>2
  <2> DEFINE h == [s \in SUBSET S |->
                     IF Cardinality(s) = n + 1 THEN f[Some(s)] + g[s \ {Some(s)}] ELSE g[s]]
  <2>2. ASSUME NEW s \in SUBSET S, Cardinality(s) <= n + 1 PROVE SumsAt(h, f, s)
    <3>0. Cardinality(s) \in Nat
      BY EmptyIsZero
    <3>1. CASE s = {}
      <4>1. Cardinality(s) # n + 1 /\ Cardinality(s) <= n
        BY <3>1, EmptyIsZero
      <4>2. h[s] = g[s] /\ SumsAt(g, f, s)
        BY <2>1, <4>1
      <4>3. QED
        BY <3>1, <4>2 DEF SumsAt
    <3>2. CASE s # {}
      <4> DEFINE r == s \ {Some(s)}
      <4>1. r \in SUBSET S /\ Cardinality(r) = Cardinality(s) - 1
        BY <3>2, SomeIsLess
      <4>2. Cardinality(r) # n + 1
        BY <2>2, <3>0, <4>1
      <4>3. h[r] = g[r]
        BY <4>1, <4>2
      <4> HIDE DEF r
      <4>4. CASE Cardinality(s) = n + 1
        <5>1. h[s] = f[Some(s)] + g[r]
          BY <4>4 DEF r
        <5>2. QED
          BY <3>2, <4>3, <5>1 DEF SumsAt, r
      <4>5. CASE Cardinality(s) # n + 1
        <5>1. Cardinality(s) <= n
          BY <2>2, <3>0, <4>5
        <5>2. h[s] = g[s] /\ SumsAt(g, f, s)
          BY <2>1, <4>5, <5>1
        <5>3. QED
          BY <3>2, <4>3, <5>2 DEF SumsAt, r
      <4>6. QED
        BY <4>4, <4>5
    <3>3. QED
      BY <3>1, <3>2
  <2>3. Upto(h, n + 1)
    BY <2>2
  <2>4. h = [s \in SUBSET S |-> h[s]]
    OBVIOUS
  <2> HIDE DEF h, Upto
  <2>5. QED
    BY <2>3, <2>4
<1> HIDE DEF T
<1>3. Cardinality(S) \in Nat
  BY FS_CardinalityType
<1>4. Cardinality(S) \in T
  BY <1>1, <1>2, <1>3, UpTo
<1>5. PICK g : g = [s \in SUBSET S |-> g[s]] /\ Upto(g, Cardinality(S))
  BY <1>4 DEF T
<1>6. \A s \in SUBSET S :
         g[s] = IF s = {} THEN 0 ELSE f[Some(s)] + g[s \ {Some(s)}]
  BY <1>5, EmptyIsZero DEF SumsAt
<1>7. IsSum(g, f, S)
  <2> DEFINE Value(s) == IF s = {} THEN 0 ELSE f[Some(s)] + g[s \ {Some(s)}]
  <2>1. \A s \in SUBSET S : g[s] = Value(s)
    BY <1>6
  <2> HIDE DEF Value
  <2>2. g = [s \in SUBSET S |-> Value(s)]
    BY <1>5, <2>1
  <2>3. QED
    BY <2>2 DEF IsSum, Value
<1>8. QED
  BY <1>7

\* SumFunction reads that function at the whole set.
LEMMA SumIsTable ==
  ASSUME NEW f, IsFiniteSet(DOMAIN f)
  PROVE  \E g : IsSum(g, f, DOMAIN f) /\ SumFunction(f) = g[DOMAIN f]
<1>1. SumFunction(f) = (CHOOSE g : IsSum(g, f, DOMAIN f))[DOMAIN f]
  BY Zenon DEF SumFunction, SumFunctionOnSet, FoldFunctionOnSet, MapThenFoldSet, IsSum, Some
<1>2. IsSum(CHOOSE g : IsSum(g, f, DOMAIN f), f, DOMAIN f)
  BY SumExists, Zenon
<1>3. QED
  BY <1>1, <1>2

\* The value at a set of integers.
LEMMA SumsAreInts ==
  ASSUME NEW S, IsFiniteSet(S), NEW f \in [S -> Int], NEW g, IsSum(g, f, S)
  PROVE  \A s \in SUBSET S : g[s] \in Int
<1> DEFINE T == {n \in Nat : \A s \in SUBSET S : Cardinality(s) <= n => g[s] \in Int}
<1>0. \A s \in SUBSET S : SumsAt(g, f, s)
  BY DEF IsSum, SumsAt
<1>1. 0 \in T
  <2>1. ASSUME NEW s \in SUBSET S, Cardinality(s) <= 0 PROVE g[s] \in Int
    <3>1. s = {}
      BY <2>1, EmptyIsZero
    <3>2. SumsAt(g, f, s)
      BY <1>0
    <3>3. QED
      BY <3>1, <3>2 DEF SumsAt
  <2>2. QED
    BY <2>1
<1>2. ASSUME NEW n \in Nat, n \in T PROVE n + 1 \in T
  <2>1. ASSUME NEW s \in SUBSET S, Cardinality(s) <= n + 1 PROVE g[s] \in Int
    <3>0. SumsAt(g, f, s) /\ Cardinality(s) \in Nat
      BY <1>0, EmptyIsZero
    <3>1. CASE s = {}
      BY <3>0, <3>1 DEF SumsAt
    <3>2. CASE s # {}
      <4>1. /\ Some(s) \in s /\ s \ {Some(s)} \in SUBSET S
            /\ Cardinality(s \ {Some(s)}) = Cardinality(s) - 1
        BY <3>2, SomeIsLess
      <4>2. Cardinality(s \ {Some(s)}) <= n
        BY <2>1, <3>0, <4>1
      <4>3. g[s \ {Some(s)}] \in Int /\ f[Some(s)] \in Int
        BY <1>2, <4>1, <4>2
      <4>4. QED
        BY <3>0, <3>2, <4>3 DEF SumsAt
    <3>3. QED
      BY <3>1, <3>2
  <2>2. QED
    BY <2>1
<1> HIDE DEF T
<1>3. Cardinality(S) \in Nat
  BY FS_CardinalityType
<1>4. Cardinality(S) \in T
  BY <1>1, <1>2, <1>3, UpTo
<1>5. QED
  BY <1>4, EmptyIsZero DEF T

\* Any element may be taken out first.
LEMMA AnyFirst ==
  ASSUME NEW S, IsFiniteSet(S), NEW f \in [S -> Int], NEW g, IsSum(g, f, S)
  PROVE  \A s \in SUBSET S : \A a \in s : g[s] = f[a] + g[s \ {a}]
<1> DEFINE AnyOf(s) == \A a \in s : g[s] = f[a] + g[s \ {a}]
           T == {n \in Nat : \A s \in SUBSET S : Cardinality(s) <= n => AnyOf(s)}
<1>0. \A s \in SUBSET S : SumsAt(g, f, s)
  BY DEF IsSum, SumsAt
<1>i. \A s \in SUBSET S : g[s] \in Int
  BY SumsAreInts
<1>1. 0 \in T
  <2>1. ASSUME NEW s \in SUBSET S, Cardinality(s) <= 0 PROVE AnyOf(s)
    <3>1. s = {}
      BY <2>1, EmptyIsZero
    <3>3. QED
      BY <3>1
  <2>2. QED
    BY <2>1
<1>2. ASSUME NEW n \in Nat, n \in T PROVE n + 1 \in T
  <2>1. ASSUME NEW s \in SUBSET S, Cardinality(s) <= n + 1, NEW a \in s
        PROVE g[s] = f[a] + g[s \ {a}]
    <3> DEFINE b == Some(s)
               r == s \ {a}
               q == s \ {b}
               p == (s \ {b}) \ {a}
    <3>0. SumsAt(g, f, s) /\ Cardinality(s) \in Nat /\ s # {}
      BY <1>0, EmptyIsZero
    <3>1. /\ b \in s /\ q \in SUBSET S /\ r \in SUBSET S
          /\ Cardinality(q) = Cardinality(s) - 1 /\ Cardinality(r) = Cardinality(s) - 1
      BY <3>0, SomeIsLess
    <3>2. Cardinality(q) <= n /\ Cardinality(r) <= n
      BY <2>1, <3>0, <3>1
    <3>3. g[s] = f[b] + g[q]
      BY <3>0 DEF SumsAt
    <3>4. CASE a = b
      BY <3>3, <3>4
    <3>5. CASE a # b
      <4>1. a \in q /\ b \in r /\ p = r \ {b} /\ p \in SUBSET S
        BY <3>1, <3>5
      <4>2. AnyOf(q) /\ AnyOf(r)
        BY <1>2, <3>1, <3>2
      <4>3. g[q] = f[a] + g[p]
        BY <4>1, <4>2
      <4>4. g[r] = f[b] + g[p]
        BY <4>1, <4>2
      <4>5. f[a] \in Int /\ f[b] \in Int /\ g[p] \in Int
        BY <1>i, <3>1, <4>1
      <4> HIDE DEF b, r, q, p
      <4>6. g[s] = f[a] + g[r]
        BY <3>3, <4>3, <4>4, <4>5
      <4>7. QED
        BY <4>6 DEF r
    <3>6. QED
      BY <3>4, <3>5
  <2>2. QED
    BY <2>1
<1> HIDE DEF T
<1>3. Cardinality(S) \in Nat
  BY FS_CardinalityType
<1>4. Cardinality(S) \in T
  BY <1>1, <1>2, <1>3, UpTo
<1>5. QED
  BY <1>4, EmptyIsZero DEF T

\* Functions that agree on a set have the same sum over it.
LEMMA SameSums ==
  ASSUME NEW R, NEW S, IsFiniteSet(S), IsFiniteSet(R), R \subseteq S,
         NEW f \in [S -> Int], NEW h \in [R -> Int],
         \A a \in R : f[a] = h[a],
         NEW g, IsSum(g, f, S), NEW k, IsSum(k, h, R)
  PROVE  g[R] = k[R]
<1> DEFINE T == {n \in Nat : \A s \in SUBSET R : Cardinality(s) <= n => g[s] = k[s]}
<1>0. /\ \A s \in SUBSET S : SumsAt(g, f, s)
      /\ \A s \in SUBSET R : SumsAt(k, h, s)
  BY DEF IsSum, SumsAt
<1>1. 0 \in T
  <2>1. ASSUME NEW s \in SUBSET R, Cardinality(s) <= 0 PROVE g[s] = k[s]
    <3>1. s = {}
      BY <2>1, EmptyIsZero
    <3>2. SumsAt(g, f, s) /\ SumsAt(k, h, s)
      BY <1>0
    <3>3. QED
      BY <3>1, <3>2 DEF SumsAt
  <2>2. QED
    BY <2>1
<1>2. ASSUME NEW n \in Nat, n \in T PROVE n + 1 \in T
  <2>1. ASSUME NEW s \in SUBSET R, Cardinality(s) <= n + 1 PROVE g[s] = k[s]
    <3>0. SumsAt(g, f, s) /\ SumsAt(k, h, s) /\ Cardinality(s) \in Nat
      BY <1>0, EmptyIsZero
    <3>1. CASE s = {}
      BY <3>0, <3>1 DEF SumsAt
    <3>2. CASE s # {}
      <4>1. /\ Some(s) \in s /\ s \ {Some(s)} \in SUBSET R
            /\ Cardinality(s \ {Some(s)}) = Cardinality(s) - 1
        BY <3>2, SomeIsLess
      <4>2. Cardinality(s \ {Some(s)}) <= n
        BY <2>1, <3>0, <4>1
      <4>3. g[s \ {Some(s)}] = k[s \ {Some(s)}] /\ f[Some(s)] = h[Some(s)]
        BY <1>2, <4>1, <4>2
      <4>4. QED
        BY <3>0, <3>2, <4>3 DEF SumsAt
    <3>3. QED
      BY <3>1, <3>2
  <2>2. QED
    BY <2>1
<1> HIDE DEF T
<1>3. Cardinality(R) \in Nat
  BY FS_CardinalityType
<1>4. Cardinality(R) \in T
  BY <1>1, <1>2, <1>3, UpTo
<1>5. QED
  BY <1>4, EmptyIsZero DEF T

\* The sum of no number is 0; a sum is an integer; one number is taken out of it.
LEMMA SumOfNone ==
  ASSUME NEW f, DOMAIN f = {}
  PROVE  SumFunction(f) = 0
<1>1. IsFiniteSet(DOMAIN f)
  BY FS_EmptySet
<1>2. PICK g : IsSum(g, f, DOMAIN f) /\ SumFunction(f) = g[DOMAIN f]
  BY <1>1, SumIsTable
<1>3. QED
  BY <1>2 DEF IsSum

LEMMA SumIsInt ==
  ASSUME NEW S, IsFiniteSet(S), NEW f \in [S -> Int]
  PROVE  SumFunction(f) \in Int
<1>1. PICK g : IsSum(g, f, S) /\ SumFunction(f) = g[S]
  BY SumIsTable
<1>2. QED
  BY <1>1, SumsAreInts

LEMMA SumSplit ==
  ASSUME NEW S, IsFiniteSet(S), NEW f \in [S -> Int], NEW a \in S,
         NEW h \in [S \ {a} -> Int], \A x \in S \ {a} : h[x] = f[x]
  PROVE  SumFunction(f) = f[a] + SumFunction(h)
<1> DEFINE R == S \ {a}
<1>1. IsFiniteSet(R) /\ R \subseteq S
  BY FS_Subset
<1>2. PICK g : IsSum(g, f, S) /\ SumFunction(f) = g[S]
  BY SumIsTable
<1>3. PICK k : IsSum(k, h, R) /\ SumFunction(h) = k[R]
  BY <1>1, SumIsTable
<1>4. g[S] = f[a] + g[R]
  BY <1>2, AnyFirst
<1> HIDE DEF R
<1>5. h \in [R -> Int] /\ \A x \in R : f[x] = h[x]
  BY DEF R
<1>6. g[R] = k[R]
  BY <1>1, <1>2, <1>3, <1>5, SameSums
<1>7. QED
  BY <1>2, <1>3, <1>4, <1>6

\* A sum after one of its numbers has changed.
LEMMA SumChanged ==
  ASSUME NEW S, IsFiniteSet(S), NEW f \in [S -> Int], NEW a \in S, NEW v \in Int
  PROVE  SumFunction([f EXCEPT ![a] = v]) = SumFunction(f) - f[a] + v
<1> DEFINE h == [x \in S \ {a} |-> f[x]]
           e == [f EXCEPT ![a] = v]
<1>1. h \in [S \ {a} -> Int] /\ e \in [S -> Int] /\ e[a] = v /\ f[a] \in Int
      /\ \A x \in S \ {a} : h[x] = f[x] /\ h[x] = e[x]
  OBVIOUS
<1>2. IsFiniteSet(S \ {a})
  BY FS_Subset
<1> HIDE DEF h, e
<1>3. SumFunction(f) = f[a] + SumFunction(h) /\ SumFunction(e) = v + SumFunction(h)
  BY <1>1, SumSplit
<1>4. SumFunction(h) \in Int
  BY <1>1, <1>2, SumIsInt
<1>5. SumFunction(e) = SumFunction(f) - f[a] + v
  BY <1>1, <1>3, <1>4
<1>6. QED
  BY <1>5 DEF e

\* The sum over one position more.
LEMMA SumMore ==
  ASSUME NEW n \in Nat, NEW f, NEW h
  PROVE  /\ f \in [1 .. n + 1 -> Int] /\ h \in [1 .. n -> Int]
         /\ \A i \in 1 .. n : h[i] = f[i]
         => SumFunction(f) = SumFunction(h) + f[n + 1] /\ SumFunction(h) \in Int
<1>1. ASSUME f \in [1 .. n + 1 -> Int], h \in [1 .. n -> Int],
             \A i \in 1 .. n : h[i] = f[i]
      PROVE  SumFunction(f) = SumFunction(h) + f[n + 1] /\ SumFunction(h) \in Int
  <2> DEFINE S == 1 .. n + 1
             a == n + 1
  <2>1. IsFiniteSet(1 .. n) /\ IsFiniteSet(S)
    <3>1. 1 \in Int /\ n \in Int /\ n + 1 \in Int
      OBVIOUS
    <3>2. QED
      BY <3>1, FS_Interval, Zenon
  <2>2. S \ {a} = 1 .. n /\ a \in S
    OBVIOUS
  <2>3. f \in [S -> Int] /\ h \in [S \ {a} -> Int] /\ \A x \in S \ {a} : h[x] = f[x]
    BY <1>1, <2>2
  <2>4. SumFunction(h) \in Int
    BY <1>1, <2>1, SumIsInt
  <2> HIDE DEF S, a
  <2>5. IsFiniteSet(S)
    BY <2>1
  <2>6. a \in S
    BY <2>2
  <2>7. SumFunction(f) = f[a] + SumFunction(h)
    BY <2>3, <2>5, <2>6, SumSplit
  <2>8. f[a] \in Int
    BY <2>3, <2>6
  <2>9. QED
    BY <2>4, <2>7, <2>8 DEF a
<1>2. QED
  BY <1>1

\* Zeros sum up to 0.
LEMMA SumOfZeros ==
  ASSUME NEW S, IsFiniteSet(S), NEW f, f = [x \in S |-> 0]
  PROVE  SumFunction(f) = 0
<1> DEFINE T(g) == {n \in Nat : \A s \in SUBSET S : Cardinality(s) <= n => g[s] = 0}
<1>1. PICK g : IsSum(g, f, S) /\ SumFunction(f) = g[S]
  BY SumIsTable
<1>2. \A s \in SUBSET S : SumsAt(g, f, s)
  BY <1>1 DEF IsSum, SumsAt
<1>3. 0 \in T(g)
  <2>1. ASSUME NEW s \in SUBSET S, Cardinality(s) <= 0 PROVE g[s] = 0
    <3>1. s = {} /\ SumsAt(g, f, s)
      BY <1>2, <2>1, EmptyIsZero
    <3>2. QED
      BY <3>1 DEF SumsAt
  <2>2. QED
    BY <2>1
<1>4. ASSUME NEW n \in Nat, n \in T(g) PROVE n + 1 \in T(g)
  <2>1. ASSUME NEW s \in SUBSET S, Cardinality(s) <= n + 1 PROVE g[s] = 0
    <3>0. SumsAt(g, f, s) /\ Cardinality(s) \in Nat
      BY <1>2, EmptyIsZero
    <3>1. CASE s = {}
      BY <3>0, <3>1 DEF SumsAt
    <3>2. CASE s # {}
      <4>1. /\ Some(s) \in s /\ s \ {Some(s)} \in SUBSET S
            /\ Cardinality(s \ {Some(s)}) = Cardinality(s) - 1
        BY <3>2, SomeIsLess
      <4>2. Cardinality(s \ {Some(s)}) <= n
        BY <2>1, <3>0, <4>1
      <4>3. g[s \ {Some(s)}] = 0 /\ f[Some(s)] = 0
        BY <1>4, <4>1, <4>2
      <4>4. QED
        BY <3>0, <3>2, <4>3 DEF SumsAt
    <3>3. QED
      BY <3>1, <3>2
  <2>2. QED
    BY <2>1
<1> HIDE DEF T
<1>5. Cardinality(S) \in Nat
  BY FS_CardinalityType
<1>6. Cardinality(S) \in T(g)
  BY <1>3, <1>4, <1>5, UpTo
<1>7. g[S] = 0
  <2>1. Cardinality(S) <= Cardinality(S) /\ S \in SUBSET S
    BY <1>5
  <2>2. QED
    BY <1>6, <2>1 DEF T
<1>8. QED
  BY <1>1, <1>7
-----------------------------------------------------------------------------
(* Money                                                                    *)

\* What a transaction creates, and what it takes out of circulation
Made(tx) == IF tx.op \in Payments /\ tx.from = NoAcct THEN tx.amt ELSE 0
Lost(tx) == IF tx.op \in Payments /\ tx.from # NoAcct THEN tx.fee ELSE 0

\* All the money there is
Money(s) == SumFunction(s.bal)

LEMMA MoneyIsInt ==
  ASSUME NEW s, IsLedger(s)
  PROVE  s.bal \in [Acct -> Int] /\ Money(s) \in Int /\ IsFiniteSet(Acct)
<1>1. s.bal \in [Acct -> 0 .. MaxMoney] /\ MaxMoney \in Nat
  BY LedgerFields, StateConstants DEF InColumn, StateConstants
<1>2. s.bal \in [Acct -> Int]
  BY <1>1
<1>3. IsFiniteSet(Acct)
  BY RegistryConstants DEF RegistryConstants
<1>4. QED
  BY <1>2, <1>3, SumIsInt DEF Money

\* storage.py:104-123. A credit that goes through adds its amount.
LEMMA CreditMoney ==
  ASSUME NEW s, IsLedger(s), NEW to \in Acct, NEW amt \in Nat, Credit(s, to, amt).ok
  PROVE  Money(Credit(s, to, amt)) = Money(s) + amt
<1>1. s \in [ok : {s.ok}, bal : {s.bal}, con : {s.con}, reg : {s.reg}]
  BY LedgerFields
<1>2. s.bal \in [Acct -> Int] /\ IsFiniteSet(Acct) /\ Money(s) \in Int
  BY MoneyIsInt
<1> DEFINE bal == s.bal
           v   == bal[to] + amt
<1>3. Credit(s, to, amt).bal = [bal EXCEPT ![to] = v]
  BY <1>1, <1>2 DEF Credit, Refused
<1>4. bal \in [Acct -> Int] /\ bal[to] \in Int /\ v \in Int /\ v = bal[to] + amt
  BY <1>2
<1> HIDE DEF bal, v
<1>5. SumFunction([bal EXCEPT ![to] = v]) = SumFunction(bal) - bal[to] + v
  BY <1>2, <1>4, SumChanged
<1>6. SumFunction(bal) = Money(s)
  BY DEF Money, bal
<1>7. QED
  BY <1>2, <1>3, <1>4, <1>5, <1>6 DEF Money

\* storage.py:125-156. A transfer that goes through takes its fee away, to oneself too.
LEMMA TransferMoney ==
  ASSUME NEW s, IsLedger(s), NEW from \in Acct, NEW to \in Acct,
         NEW amt \in Nat, NEW fee \in Nat, Transfer(s, from, to, amt, fee).ok
  PROVE  Money(Transfer(s, from, to, amt, fee)) = Money(s) - fee
<1>1. s \in [ok : {s.ok}, bal : {s.bal}, con : {s.con}, reg : {s.reg}]
  BY LedgerFields
<1>2. s.bal \in [Acct -> Int] /\ IsFiniteSet(Acct) /\ Money(s) \in Int
  BY MoneyIsInt
<1> DEFINE bal  == s.bal
           v    == bal[from] - (amt + fee)
           paid == [bal EXCEPT ![from] = v]
           w    == paid[to] + amt
<1>3. Transfer(s, from, to, amt, fee).bal = [paid EXCEPT ![to] = w]
  BY <1>1, <1>2 DEF Transfer, Moved, Refused
<1>4. bal \in [Acct -> Int] /\ bal[from] \in Int /\ v \in Int /\ v = bal[from] - (amt + fee)
  BY <1>2
<1>5. paid = [bal EXCEPT ![from] = v]
  OBVIOUS
<1> HIDE DEF bal, v
<1>6. paid \in [Acct -> Int] /\ paid[to] \in Int /\ w \in Int /\ w = paid[to] + amt
  BY <1>4
<1> HIDE DEF paid, w
<1>7. SumFunction(paid) = SumFunction(bal) - bal[from] + v
  BY <1>2, <1>4, <1>5, SumChanged
<1>8. SumFunction([paid EXCEPT ![to] = w]) = SumFunction(paid) - paid[to] + w
  BY <1>2, <1>6, SumChanged
<1>9. SumFunction(bal) = Money(s) /\ SumFunction(bal) \in Int
  BY <1>2 DEF Money, bal
<1>10. Money(Transfer(s, from, to, amt, fee)) = SumFunction([paid EXCEPT ![to] = w])
  BY <1>3 DEF Money
<1>11. QED
  BY <1>4, <1>6, <1>7, <1>8, <1>9, <1>10

\* state.py:37-157. Of the transactions that go through, only a payment without
\* sender creates money, its amount, and only the fee of one with a sender is lost.
LEMMA ApplyMoney ==
  ASSUME NEW s, IsLedger(s), NEW tx, FullyTyped(tx), NEW idx,
         ApplyTransaction(s, tx, idx).ok
  PROVE  Money(ApplyTransaction(s, tx, idx)) = Money(s) + Made(tx) - Lost(tx)
<1> DEFINE new == ApplyTransaction(s, tx, idx)
<1>1. Money(s) \in Int
  BY MoneyIsInt
<1>2. ASSUME tx.op \notin Payments, Money(new) = Money(s) PROVE Money(new) = Money(s) + Made(tx) - Lost(tx)
  BY <1>1, <1>2 DEF Made, Lost
<1>3. CASE tx.op = "VALIDATOR_EXIT"
  <2>1. new = ApplyExit(s, tx, idx)
    BY <1>3 DEF ApplyTransaction, Payments
  <2>2. ~(\/ tx.from \notin DOMAIN s.reg.validators
          \/ idx >= V2Activation /\ tx.to # Vault)
    BY <2>1, RefusedShape DEF ApplyExit
  <2>3. tx.from \in Acct /\ tx.to \in Acct /\ Stake \in Nat /\ 0 \in Nat
    BY <2>2, RegistryConstants, LedgerFields, RegistryFields
       DEF RegistryConstants, FullyTyped, Typed, IsMap
  <2>4. CASE s.bal[tx.to] >= Stake
    <3>1. new = Transfer(s, tx.to, tx.from, Stake, 0)
      BY <2>1, <2>2, <2>4 DEF ApplyExit
    <3>2. Money(new) = Money(s) - 0
      BY <2>3, <3>1, TransferMoney
    <3>3. QED
      BY <1>1, <1>2, <1>3, <3>2 DEF Payments
  <2>5. CASE ~(s.bal[tx.to] >= Stake)
    <3>1. new = s
      BY <2>1, <2>2, <2>5 DEF ApplyExit
    <3>2. QED
      BY <1>2, <1>3, <3>1 DEF Payments
  <2>6. QED
    BY <2>4, <2>5
<1>4. CASE tx.op \in {"VALIDATOR_UPDATE", "VALIDATOR_SLASH"}
  <2>1. new = s
    BY <1>4 DEF ApplyTransaction, Payments
  <2>2. QED
    BY <1>2, <1>4, <2>1 DEF Payments
<1>5. CASE tx.op = "VALIDATOR_GOVERNANCE_EXIT"
  <2>1. new = ApplyGovernanceExit(s, tx, idx)
    BY <1>5 DEF ApplyTransaction, Payments
  <2>2. s \in [ok : {s.ok}, bal : {s.bal}, con : {s.con}, reg : {s.reg}]
    BY LedgerFields
  <2>3. new.bal = s.bal
    BY <2>1, <2>2 DEF ApplyGovernanceExit, Refused
  <2>4. QED
    BY <1>2, <1>5, <2>3 DEF Payments, Money
<1>6. CASE tx.op \in Payments
  <2> DEFINE con == Execute(s.con, tx)
             t   == [s EXCEPT !.con = con]
  <2>1. new = ApplyCall(s, tx)
    BY <1>6 DEF ApplyTransaction, Payments
  <2>2. new = ApplyPayment(t, tx)
    BY <2>1, RefusedShape DEF ApplyCall
  <2>3. IsLedger(t) /\ t.bal = s.bal
    <3>1. s \in [ok : {s.ok}, bal : {s.bal}, con : {s.con}, reg : {s.reg}]
          /\ s.ok \in BOOLEAN /\ InColumn(s.bal) /\ IsRegistry(s.reg)
      BY LedgerFields
    <3>2. t \in [ok : {s.ok}, bal : {s.bal}, con : {con}, reg : {s.reg}]
          /\ t.ok = s.ok /\ t.bal = s.bal /\ t.con = con /\ t.reg = s.reg
      BY <3>1
    <3> HIDE DEF t
    <3>3. QED
      BY <3>1, <3>2, LedgerFields
  <2> HIDE DEF t, new
  <2>4. Money(t) = Money(s)
    BY <2>3 DEF Money
  <2>5. new.ok
    BY DEF new
  <2>6. tx.from \in Acct \cup {NoAcct} /\ tx.to \in Acct /\ tx.amt \in Nat /\ tx.fee \in Nat
    BY DEF FullyTyped, Typed
  <2>7. CASE tx.from = NoAcct
    <3>1. new = Credit(t, tx.to, tx.amt)
      BY <2>2, <2>7 DEF ApplyPayment
    <3>2. Money(new) = Money(s) + tx.amt
      BY <2>3, <2>4, <2>5, <2>6, <3>1, CreditMoney
    <3>3. Made(tx) = tx.amt /\ Lost(tx) = 0
      BY <1>6, <2>7 DEF Made, Lost
    <3>4. QED
      BY <1>1, <2>6, <3>2, <3>3 DEF new
  <2>8. CASE tx.from # NoAcct
    <3>1. new = Transfer(t, tx.from, tx.to, tx.amt, tx.fee)
      BY <2>2, <2>8 DEF ApplyPayment
    <3>2. Money(new) = Money(s) - tx.fee
      BY <2>3, <2>4, <2>5, <2>6, <2>8, <3>1, TransferMoney
    <3>3. Made(tx) = 0 /\ Lost(tx) = tx.fee
      BY <1>6, <2>8 DEF Made, Lost
    <3>4. QED
      BY <1>1, <2>6, <3>2, <3>3 DEF new
  <2>9. QED
    BY <2>7, <2>8
<1>7. QED
  BY <1>3, <1>4, <1>5, <1>6 DEF FullyTyped, Typed

\* Of the transactions of a block that all go through: the sums.
MadeIn(txs) == SumFunction([i \in DOMAIN txs |-> Made(txs[i])])
LostIn(txs) == SumFunction([i \in DOMAIN txs |-> Lost(txs[i])])

LEMMA MadeIsInt ==
  ASSUME NEW tx, FullyTyped(tx)
  PROVE  Made(tx) \in Int /\ Lost(tx) \in Int
BY DEF FullyTyped, Typed, Made, Lost

\* The sum of the first n numbers of a sequence
SumTo(n, v) == SumFunction([i \in 1 .. n |-> v[i]])

LEMMA SumToNone == \A v : SumTo(0, v) = 0
<1> SUFFICES ASSUME NEW v PROVE SumTo(0, v) = 0
  OBVIOUS
<1> DEFINE f == [i \in 1 .. 0 |-> v[i]]
<1>1. DOMAIN f = {}
  OBVIOUS
<1> HIDE DEF f
<1>2. SumFunction(f) = 0
  BY <1>1, SumOfNone
<1>3. QED
  BY <1>2 DEF SumTo, f

LEMMA SumToMore ==
  ASSUME NEW n \in Nat, NEW v, \A i \in 1 .. n + 1 : v[i] \in Int
  PROVE  /\ SumTo(n + 1, v) = SumTo(n, v) + v[n + 1]
         /\ SumTo(n, v) \in Int /\ v[n + 1] \in Int
<1> DEFINE f == [i \in 1 .. n + 1 |-> v[i]]
           h == [i \in 1 .. n |-> v[i]]
<1>1. f \in [1 .. n + 1 -> Int] /\ h \in [1 .. n -> Int]
  OBVIOUS
<1>2. f[n + 1] = v[n + 1] /\ \A i \in 1 .. n : h[i] = f[i]
  OBVIOUS
<1> HIDE DEF f, h
<1>3. SumFunction(f) = SumFunction(h) + f[n + 1] /\ SumFunction(h) \in Int
  BY <1>1, <1>2, SumMore
<1>4. v[n + 1] \in Int
  OBVIOUS
<1>5. QED
  BY <1>2, <1>3, <1>4 DEF SumTo, f, h

LEMMA SumToAll ==
  ASSUME NEW n \in Nat, NEW v \in [1 .. n -> Int]
  PROVE  SumTo(n, v) = SumFunction(v)
<1>1. [i \in 1 .. n |-> v[i]] = v
  OBVIOUS
<1>2. QED
  BY <1>1 DEF SumTo

\* chain.py:504-522. The transactions of a block that all go through create its
\* coinbase and lose its fees.
LEMMA ApplyAllMoney ==
  ASSUME NEW V, NEW txs \in Seq(V), AllTyped(txs), NEW s, IsLedger(s), NEW idx,
         ApplyAll(s, txs, idx).ok
  PROVE  /\ Money(ApplyAll(s, txs, idx)) = Money(s) + MadeIn(txs) - LostIn(txs)
         /\ MadeIn(txs) \in Int /\ LostIn(txs) \in Int
<1> DEFINE At(n) == ApplyAll(s, First(n, txs), idx)
           made == [i \in DOMAIN txs |-> Made(txs[i])]
           lost == [i \in DOMAIN txs |-> Lost(txs[i])]
           Balanced(n) == Money(At(n)) = Money(s) + SumTo(n, made) - SumTo(n, lost)
           T == {n \in Nat : n <= Len(txs) => Balanced(n)}
<1>0. Len(txs) \in Nat /\ At(Len(txs)) = ApplyAll(s, txs, idx) /\ DOMAIN txs = 1 .. Len(txs)
  BY FirstNone
<1>1. At(0) = s
      /\ \A n \in Nat : n < Len(txs) => At(n + 1) = ApplyStep(At(n), txs[n + 1], idx)
  BY NoneYet, ApplyMore
<1>2. \A n \in 0 .. Len(txs) : IsLedger(At(n)) /\ At(n).ok
  <2>1. ASSUME NEW n \in 0 .. Len(txs) PROVE IsLedger(At(n))
    <3> DEFINE some == First(n, txs)
    <3>1. some \in Seq(V) /\ \A i \in DOMAIN some : i \in DOMAIN txs /\ some[i] = txs[i]
      BY <1>0 DEF First
    <3> HIDE DEF some
    <3>2. AllTyped(some)
      BY <3>1 DEF AllTyped
    <3>3. IsLedger(ApplyAll(s, some, idx))
      BY <3>1, <3>2, ApplyAllShape
    <3>4. QED
      BY <3>3 DEF some
  <2>2. \A n \in 0 .. Len(txs) : At(n).ok
    BY ApplyAllOk
  <2>3. QED
    BY <2>1, <2>2
<1>3. \A i \in 1 .. Len(txs) : FullyTyped(txs[i]) /\ made[i] = Made(txs[i]) /\ lost[i] = Lost(txs[i])
                                /\ made[i] \in Int /\ lost[i] \in Int
  BY <1>0, MadeIsInt DEF AllTyped
<1>4. Money(s) \in Int
  BY MoneyIsInt
<1>5. made \in [1 .. Len(txs) -> Int] /\ lost \in [1 .. Len(txs) -> Int]
  BY <1>0, <1>3
<1>6. MadeIn(txs) = SumFunction(made) /\ LostIn(txs) = SumFunction(lost)
  BY DEF MadeIn, LostIn
<1> HIDE DEF At, made, lost
<1>7. 0 \in T
  <2>1. Balanced(0)
    BY <1>1, <1>4, SumToNone
  <2> HIDE DEF Balanced
  <2>2. QED
    BY <2>1
<1>8. ASSUME NEW n \in Nat, n < Len(txs), n \in T PROVE n + 1 \in T
  <2> DEFINE tx == txs[n + 1]
  <2>1. n \in 0 .. Len(txs) /\ n + 1 \in 0 .. Len(txs) /\ n + 1 \in 1 .. Len(txs) /\ n <= Len(txs)
        /\ \A i \in 1 .. n + 1 : i \in 1 .. Len(txs)
    BY <1>0, <1>8
  <2>2. IsLedger(At(n)) /\ At(n).ok /\ At(n + 1).ok
    BY <1>2, <2>1
  <2>3. At(n + 1) = ApplyTransaction(At(n), tx, idx)
    BY <1>1, <1>8, <2>2 DEF ApplyStep
  <2>4. FullyTyped(tx) /\ made[n + 1] = Made(tx) /\ lost[n + 1] = Lost(tx)
    BY <1>3, <2>1
  <2> HIDE DEF tx
  <2>5. Money(At(n + 1)) = Money(At(n)) + Made(tx) - Lost(tx)
    BY <2>2, <2>3, <2>4, ApplyMoney
  <2>6. \A i \in 1 .. n + 1 : made[i] \in Int /\ lost[i] \in Int
    BY <1>3, <2>1
  <2>7. SumTo(n + 1, made) = SumTo(n, made) + made[n + 1]
        /\ SumTo(n, made) \in Int /\ made[n + 1] \in Int
    BY <2>6, SumToMore
  <2>8. SumTo(n + 1, lost) = SumTo(n, lost) + lost[n + 1]
        /\ SumTo(n, lost) \in Int /\ lost[n + 1] \in Int
    BY <2>6, SumToMore
  <2>9. Balanced(n)
    BY <1>8, <2>1
  <2>10. Balanced(n + 1)
    BY <1>4, <2>4, <2>5, <2>7, <2>8, <2>9
  <2> HIDE DEF Balanced
  <2>11. QED
    BY <2>10
<1>9. Len(txs) \in T
  <2> HIDE DEF T
  <2>1. QED
    BY <1>0, <1>7, <1>8, UpTo
<1>10. Balanced(Len(txs))
  <2> HIDE DEF Balanced
  <2>1. Len(txs) <= Len(txs)
    BY <1>0
  <2>2. QED
    BY <1>9, <2>1
<1>11. SumTo(Len(txs), made) = MadeIn(txs) /\ SumTo(Len(txs), lost) = LostIn(txs)
  BY <1>0, <1>5, <1>6, SumToAll
<1>12. MadeIn(txs) \in Int /\ LostIn(txs) \in Int
  <2>1. IsFiniteSet(1 .. Len(txs))
    <3>1. 1 \in Int /\ Len(txs) \in Int
      BY <1>0
    <3>2. QED
      BY <3>1, FS_Interval, Zenon
  <2>2. QED
    BY <1>5, <1>6, <2>1, SumIsInt
<1>13. QED
  BY <1>0, <1>10, <1>11, <1>12

LEMMA ExecMoney ==
  ASSUME NEW b, IsBlock(b), NEW s, IsLedger(s), ExecBlock(s, b).ok
  PROVE  /\ Money(ExecBlock(s, b)) = Money(s) + MadeIn(b.txs) - LostIn(b.txs)
         /\ MadeIn(b.txs) \in Int /\ LostIn(b.txs) \in Int
<1> DEFINE t == ApplyAll(s, b.txs, b.idx)
<1>1. t.ok /\ IsLedger(t)
  BY ExecShape, ApplyAllShape DEF IsBlock
<1>2. /\ Money(t) = Money(s) + MadeIn(b.txs) - LostIn(b.txs)
      /\ MadeIn(b.txs) \in Int /\ LostIn(b.txs) \in Int
  BY <1>1, ApplyAllMoney DEF IsBlock
<1> HIDE DEF t
<1>3. ExecBlock(s, b) = Process(t, b)
  BY DEF ExecBlock, t
<1>4. ExecBlock(s, b).bal = t.bal
  BY <1>1, <1>3, ProcessedShape
<1>5. Money(ExecBlock(s, b)) = Money(t)
  BY <1>4 DEF Money
<1>6. QED
  BY <1>2, <1>5
-----------------------------------------------------------------------------
(* Exponents apart                                                          *)

Apart(map) ==
  \A v, w \in DOMAIN map :
     v # w /\ map[v].lam # NoLam /\ map[w].lam # NoLam =>
       Distance(map[v].lam, map[w].lam) >= DMin

NoUpdates(txs) == \A i \in DOMAIN txs : txs[i].op # "VALIDATOR_UPDATE"

LEMMA FewerApart ==
  ASSUME NEW map, Apart(map), NEW who
  PROVE  Apart(Restrict(map, DOMAIN map \ {who}))
BY DEF Apart, Restrict

LEMMA SameLamsApart ==
  ASSUME NEW map, Apart(map), NEW new, DOMAIN new = DOMAIN map,
         \A v \in DOMAIN map : new[v].lam = map[v].lam
  PROVE  Apart(new)
BY DEF Apart

\* A new entry far enough from the others, or without exponent.
LEMMA OneMoreApart ==
  ASSUME NEW map, IsMap(map), Apart(map), NEW who, who \notin DOMAIN map,
         NEW entry \in Entries,
         entry.lam # NoLam =>
           \A v \in DOMAIN map :
              map[v].lam # NoLam => Distance(entry.lam, map[v].lam) >= DMin
  PROVE  Apart(Put(map, who, entry))
<1> DEFINE new == Put(map, who, entry)
<1>1. /\ DOMAIN new = DOMAIN map \cup {who} /\ new[who] = entry
      /\ \A v \in DOMAIN map : new[v] = map[v]
  BY DEF Put
<1>2. \A v \in DOMAIN map : map[v].lam \in Int \cup {NoLam}
  BY DEF IsMap, Entries
<1>3. entry.lam \in Int \cup {NoLam}
  BY DEF Entries
<1> HIDE DEF new
<1>4. SUFFICES ASSUME NEW v \in DOMAIN new, NEW w \in DOMAIN new, v # w,
                      new[v].lam # NoLam, new[w].lam # NoLam
               PROVE  Distance(new[v].lam, new[w].lam) >= DMin
  BY DEF Apart, new
<1>5. \A x, y \in Int : Distance(x, y) = Distance(y, x)
  BY DEF Distance
<1>6. CASE v = who
  BY <1>1, <1>4, <1>6
<1>7. CASE w = who
  <2>1. new[v] = map[v] /\ new[w] = entry /\ v \in DOMAIN map
    BY <1>1, <1>4, <1>7
  <2>2. Distance(entry.lam, map[v].lam) >= DMin
    BY <1>4, <2>1
  <2>3. map[v].lam \in Int /\ entry.lam \in Int
    BY <1>2, <1>3, <1>4, <2>1
  <2>4. QED
    BY <1>5, <2>1, <2>2, <2>3
<1>8. CASE v # who /\ w # who
  BY <1>1, <1>4, <1>8 DEF Apart
<1>9. QED
  BY <1>6, <1>7, <1>8

LEMMA RegisterApart ==
  ASSUME NEW reg, IsRegistry(reg), Apart(reg.validators), NEW tx, FullyTyped(tx), NEW idx
  PROVE  Apart(Register(reg, tx, idx).validators)
<1> DEFINE entry == [lam |-> tx.lam, m3 |-> TRUE]
           admitted == /\ tx.from \in Acct /\ tx.from \notin reg.slashed
                       /\ tx.from \notin DOMAIN reg.validators
                       /\ tx.amt >= Stake
                       /\ tx.lam # NoLam => Diverse(reg, tx.lam)
<1>1. entry \in Entries /\ entry.lam = tx.lam
  BY DEF Entries, FullyTyped
<1>2. /\ admitted => Register(reg, tx, idx) = With(reg, tx.from, entry, idx)
      /\ ~admitted => Register(reg, tx, idx) = reg
  BY DEF Register
<1> HIDE DEF entry
<1>3. ASSUME admitted PROVE Apart(With(reg, tx.from, entry, idx).validators)
  <2>1. With(reg, tx.from, entry, idx).validators = Put(reg.validators, tx.from, entry)
    BY <1>1, <1>3, WithIsRegistry
  <2>2. entry.lam # NoLam =>
          \A v \in DOMAIN reg.validators :
             reg.validators[v].lam # NoLam =>
               Distance(entry.lam, reg.validators[v].lam) >= DMin
    BY <1>1, <1>3 DEF Diverse
  <2>3. IsMap(reg.validators)
    BY RegistryFields
  <2>4. tx.from \notin DOMAIN reg.validators
    BY <1>3
  <2>5. Apart(Put(reg.validators, tx.from, entry))
    BY <1>1, <2>2, <2>3, <2>4, OneMoreApart
  <2>6. QED
    BY <2>1, <2>5
<1> HIDE DEF admitted
<1>4. QED
  BY <1>2, <1>3

LEMMA WithoutApart ==
  ASSUME NEW reg, IsRegistry(reg), Apart(reg.validators), NEW who, NEW idx
  PROVE  Apart(Without(reg, who, idx).validators)
<1> DEFINE fewer == Restrict(reg.validators, DOMAIN reg.validators \ {who})
<1>1. Apart(fewer)
  BY FewerApart
<1>2. Without(reg, who, idx).validators = fewer
  BY WithoutIsRegistry
<1> HIDE DEF fewer
<1>3. QED
  BY <1>1, <1>2

\* To slash a validator that is taken out, and to slash anybody.
LEMMA SlashedSameMap ==
  ASSUME NEW reg, IsRegistry(reg), NEW who
  PROVE  [reg EXCEPT !.slashed = @ \cup {who}].validators = reg.validators
BY RegistryFields

LEMMA ExpelApart ==
  ASSUME NEW reg, IsRegistry(reg), Apart(reg.validators), NEW target, NEW idx
  PROVE  Apart(ExecuteGovernanceExit(reg, target, idx).validators)
<1> DEFINE out == Without(reg, target, idx)
<1>1. IsRegistry(out) /\ Apart(out.validators)
  BY WithoutIsRegistry, WithoutApart
<1>2. ExecuteGovernanceExit(reg, target, idx)
        \in {reg, [out EXCEPT !.slashed = @ \cup {target}]}
  BY DEF ExecuteGovernanceExit
<1> HIDE DEF out
<1>3. [out EXCEPT !.slashed = @ \cup {target}].validators = out.validators
  BY <1>1, SlashedSameMap
<1>4. QED
  BY <1>1, <1>2, <1>3

LEMMA SlashApart ==
  ASSUME NEW reg, IsRegistry(reg), Apart(reg.validators), NEW tx, NEW idx
  PROVE  Apart(Slash(reg, tx, idx).validators)
<1> DEFINE out == IF tx.target \in DOMAIN reg.validators
                  THEN Without(reg, tx.target, idx) ELSE reg
<1>1. IsRegistry(out) /\ Apart(out.validators)
  BY WithoutIsRegistry, WithoutApart
<1>2. Slash(reg, tx, idx) \in {reg, [out EXCEPT !.slashed = @ \cup {tx.target}]}
  BY DEF Slash
<1> HIDE DEF out
<1>3. [out EXCEPT !.slashed = @ \cup {tx.target}].validators = out.validators
  BY <1>1, SlashedSameMap
<1>4. QED
  BY <1>1, <1>2, <1>3

\* No transaction but an update brings two exponents closer than they may be.
LEMMA ProcessApart ==
  ASSUME NEW reg, IsRegistry(reg), Apart(reg.validators),
         NEW tx, FullyTyped(tx), tx.op # "VALIDATOR_UPDATE", NEW idx
  PROVE  Apart(ProcessTx(reg, tx, idx).validators)
<1>1. CASE tx.op = "VALIDATOR_REGISTER"
  BY <1>1, RegisterApart DEF ProcessTx
<1>2. CASE tx.op = "VALIDATOR_EXIT"
  <2>1. ProcessTx(reg, tx, idx) \in {reg, Without(reg, tx.from, idx)}
    BY <1>2 DEF ProcessTx, ExitValidator
  <2>2. QED
    BY <2>1, WithoutApart
<1>3. CASE tx.op = "VALIDATOR_SLASH"
  BY <1>3, SlashApart DEF ProcessTx
<1>4. CASE tx.op = "VALIDATOR_GOVERNANCE_EXIT"
  <2>1. ProcessTx(reg, tx, idx) \in {reg, ExecuteGovernanceExit(reg, tx.target, idx)}
    BY <1>4 DEF ProcessTx, GovernanceExit
  <2>2. QED
    BY <2>1, ExpelApart
<1>5. CASE tx.op \notin {"VALIDATOR_REGISTER", "VALIDATOR_EXIT", "VALIDATOR_SLASH",
                        "VALIDATOR_UPDATE", "VALIDATOR_GOVERNANCE_EXIT"}
  BY <1>5 DEF ProcessTx
<1>6. QED
  BY <1>1, <1>2, <1>3, <1>4, <1>5

LEMMA ProcessAllApart ==
  ASSUME NEW V, NEW txs \in Seq(V), AllTyped(txs), NoUpdates(txs),
         NEW reg, IsRegistry(reg), Apart(reg.validators), NEW idx
  PROVE  Apart(ProcessAll(reg, txs, idx).validators)
<1> DEFINE At(n) == ProcessAll(reg, First(n, txs), idx)
           T == {n \in Nat : IsRegistry(At(n)) /\ Apart(At(n).validators)}
<1>0. Len(txs) \in Nat /\ At(Len(txs)) = ProcessAll(reg, txs, idx)
  BY FirstNone
<1>1. At(0) = reg
      /\ \A n \in Nat : n < Len(txs) => At(n + 1) = ProcessTx(At(n), txs[n + 1], idx)
  BY NoneYet, ProcessMore
<1> HIDE DEF At
<1>2. 0 \in T
  BY <1>1
<1>3. ASSUME NEW n \in Nat, n < Len(txs), n \in T PROVE n + 1 \in T
  <2> DEFINE tx == txs[n + 1]
  <2>1. n + 1 \in DOMAIN txs
    BY <1>0, <1>3
  <2>2. FullyTyped(tx) /\ tx.op # "VALIDATOR_UPDATE"
    BY <2>1 DEF AllTyped, NoUpdates
  <2>3. IsRegistry(At(n)) /\ Apart(At(n).validators)
    BY <1>3
  <2>4. At(n + 1) = ProcessTx(At(n), tx, idx)
    BY <1>1, <1>3
  <2> HIDE DEF tx
  <2>5. IsRegistry(At(n + 1)) /\ Apart(At(n + 1).validators)
    BY <2>2, <2>3, <2>4, ProcessShape, ProcessApart
  <2>6. QED
    BY <2>5
<1>4. Len(txs) \in T
  <2> HIDE DEF T
  <2>1. QED
    BY <1>0, <1>2, <1>3, UpTo
<1>5. QED
  BY <1>0, <1>4

\* On the ledger the registry changes by an expulsion alone.
LEMMA ApplyApart ==
  ASSUME NEW s, IsLedger(s), Apart(s.reg.validators), NEW tx, FullyTyped(tx), NEW idx
  PROVE  /\ IsLedger(ApplyTransaction(s, tx, idx))
         /\ Apart(ApplyTransaction(s, tx, idx).reg.validators)
<1>1. IsLedger(ApplyTransaction(s, tx, idx))
  BY ApplyShape
<1>2. CASE tx.op # "VALIDATOR_GOVERNANCE_EXIT"
  BY <1>2, ApplyShape
<1>3. CASE tx.op = "VALIDATOR_GOVERNANCE_EXIT"
  <2> DEFINE reg == ExecuteGovernanceExit(s.reg, tx.target, idx)
             new == [s EXCEPT !.reg = reg]
  <2>1. ApplyTransaction(s, tx, idx) \in {Refused(s), new}
    <3>1. ApplyTransaction(s, tx, idx) = ApplyGovernanceExit(s, tx, idx)
      BY <1>3 DEF ApplyTransaction, Payments
    <3>2. QED
      BY <3>1 DEF ApplyGovernanceExit
  <2>2. s \in [ok : {s.ok}, bal : {s.bal}, con : {s.con}, reg : {s.reg}]
        /\ IsRegistry(s.reg)
    BY LedgerFields
  <2>3. Apart(reg.validators)
    BY <2>2, ExpelApart
  <2> HIDE DEF reg
  <2>4. new.reg = reg
    BY <2>2
  <2> HIDE DEF new
  <2>5. Refused(s).reg = s.reg
    BY RefusedShape
  <2>6. QED
    BY <1>1, <2>1, <2>3, <2>4, <2>5
<1>4. QED
  BY <1>1, <1>2, <1>3

LEMMA ApplyAllApart ==
  ASSUME NEW V, NEW txs \in Seq(V), AllTyped(txs),
         NEW s, IsLedger(s), Apart(s.reg.validators), NEW idx
  PROVE  Apart(ApplyAll(s, txs, idx).reg.validators)
<1> DEFINE At(n) == ApplyAll(s, First(n, txs), idx)
           T == {n \in Nat : IsLedger(At(n)) /\ Apart(At(n).reg.validators)}
<1>0. Len(txs) \in Nat /\ At(Len(txs)) = ApplyAll(s, txs, idx)
  BY FirstNone
<1>1. At(0) = s
      /\ \A n \in Nat : n < Len(txs) => At(n + 1) = ApplyStep(At(n), txs[n + 1], idx)
  BY NoneYet, ApplyMore
<1> HIDE DEF At
<1>2. 0 \in T
  BY <1>1
<1>3. ASSUME NEW n \in Nat, n < Len(txs), n \in T PROVE n + 1 \in T
  <2> DEFINE tx == txs[n + 1]
  <2>1. n + 1 \in DOMAIN txs
    BY <1>0, <1>3
  <2>2. FullyTyped(tx)
    BY <2>1 DEF AllTyped
  <2>3. IsLedger(At(n)) /\ Apart(At(n).reg.validators)
    BY <1>3
  <2>4. At(n + 1) = ApplyStep(At(n), tx, idx)
    BY <1>1, <1>3
  <2> HIDE DEF tx
  <2>5. /\ IsLedger(ApplyTransaction(At(n), tx, idx))
        /\ Apart(ApplyTransaction(At(n), tx, idx).reg.validators)
    BY <2>2, <2>3, ApplyApart
  <2>6. At(n + 1) \in {At(n), ApplyTransaction(At(n), tx, idx)}
    BY <2>4 DEF ApplyStep
  <2>7. IsLedger(At(n + 1)) /\ Apart(At(n + 1).reg.validators)
    BY <2>3, <2>5, <2>6
  <2>8. QED
    BY <2>7
<1>4. Len(txs) \in T
  <2> HIDE DEF T
  <2>1. QED
    BY <1>0, <1>2, <1>3, UpTo
<1>5. QED
  BY <1>0, <1>4

LEMMA ReplayApart ==
  ASSUME NEW V, NEW txs \in Seq(V), AllTyped(txs),
         NEW s, IsLedger(s), Apart(s.reg.validators), NEW idx
  PROVE  Apart(ReplayTxs(s, txs, idx).reg.validators)
<1> DEFINE Re(n) == ReplayTxs(s, First(n, txs), idx)
           T == {n \in Nat : IsLedger(Re(n)) /\ Apart(Re(n).reg.validators)}
<1>0. Len(txs) \in Nat /\ Re(Len(txs)) = ReplayTxs(s, txs, idx)
  BY FirstNone
<1>1. Re(0) = s
      /\ \A n \in Nat : n < Len(txs) => Re(n + 1) = ReplayStep(Re(n), txs[n + 1], idx)
  BY NoneYet, ReplayMore
<1> HIDE DEF Re
<1>2. 0 \in T
  BY <1>1
<1>3. ASSUME NEW n \in Nat, n < Len(txs), n \in T PROVE n + 1 \in T
  <2> DEFINE tx == txs[n + 1]
             x  == ApplyTransaction(Re(n), tx, idx)
             y  == [x EXCEPT !.ok = TRUE]
  <2>1. n + 1 \in DOMAIN txs
    BY <1>0, <1>3
  <2>2. FullyTyped(tx)
    BY <2>1 DEF AllTyped
  <2>3. IsLedger(Re(n)) /\ Apart(Re(n).reg.validators)
    BY <1>3
  <2>4. Re(n + 1) = y
    BY <1>1, <1>3 DEF ReplayStep
  <2> HIDE DEF tx
  <2>5. IsLedger(x) /\ Apart(x.reg.validators)
    BY <2>2, <2>3, ApplyApart
  <2> HIDE DEF x
  <2>6. x \in [ok : {x.ok}, bal : {x.bal}, con : {x.con}, reg : {x.reg}]
        /\ InColumn(x.bal) /\ IsRegistry(x.reg)
    BY <2>5, LedgerFields
  <2>7. y \in [ok : {TRUE}, bal : {x.bal}, con : {x.con}, reg : {x.reg}]
        /\ y.ok = TRUE /\ y.bal = x.bal /\ y.con = x.con /\ y.reg = x.reg
    BY <2>6
  <2> HIDE DEF y
  <2>8. IsLedger(y)
    BY <2>6, <2>7, LedgerFields
  <2>9. QED
    BY <2>4, <2>5, <2>7, <2>8
<1>4. Len(txs) \in T
  <2> HIDE DEF T
  <2>1. QED
    BY <1>0, <1>2, <1>3, UpTo
<1>5. QED
  BY <1>0, <1>4

\* A block without updates leaves the exponents apart, executed or replayed.
LEMMA ExecApart ==
  ASSUME NEW b, IsBlock(b), NoUpdates(b.txs),
         NEW s, IsLedger(s), Apart(s.reg.validators)
  PROVE  /\ Apart(ExecBlock(s, b).reg.validators)
         /\ Apart(ReplayBlock(s, b).reg.validators)
<1> DEFINE t == ApplyAll(s, b.txs, b.idx)
           u == ReplayTxs(s, b.txs, b.idx)
<1>1. IsLedger(t) /\ IsLedger(u)
  BY ApplyAllShape, ReplayShape DEF IsBlock
<1>2. Apart(t.reg.validators) /\ Apart(u.reg.validators)
  BY ApplyAllApart, ReplayApart DEF IsBlock
<1>3. ExecBlock(s, b) = Process(t, b) /\ ReplayBlock(s, b) = Process(u, b)
  BY DEF ExecBlock, ReplayBlock
<1> HIDE DEF t, u
<1>4. \A v : IsLedger(v) => Process(v, b).reg = ProcessAll(v.reg, b.txs, b.idx)
  BY ProcessedShape
<1>5. IsRegistry(t.reg) /\ IsRegistry(u.reg)
  BY <1>1, LedgerFields
<1>6. /\ Apart(ProcessAll(t.reg, b.txs, b.idx).validators)
      /\ Apart(ProcessAll(u.reg, b.txs, b.idx).validators)
  BY <1>2, <1>5, ProcessAllApart DEF IsBlock
<1>7. QED
  BY <1>1, <1>3, <1>4, <1>6
-----------------------------------------------------------------------------
(* Stakes                                                                   *)

\* The vault holds a stake for every registered validator
Backs(s) == s.bal[Vault] >= Stake * Cardinality(DOMAIN s.reg.validators)

\* Every account that registers pays the vault
StakesToVault(txs) ==
  \A i \in DOMAIN txs :
     txs[i].op = "VALIDATOR_REGISTER" /\ txs[i].from # NoAcct => txs[i].to = Vault

\* Nobody has the key of the vault
VaultIsSilent(txs) == \A i \in DOMAIN txs : txs[i].from # Vault

\* No account leaves twice
OneExitEach(txs) ==
  \A i, j \in DOMAIN txs :
     /\ txs[i].op = "VALIDATOR_EXIT" /\ txs[j].op = "VALIDATOR_EXIT"
     /\ txs[i].from = txs[j].from
     => i = j

\* The vault gets what it is paid, and loses nothing to the payments of others.
LEMMA VaultReceives ==
  ASSUME NEW s, IsLedger(s), NEW from \in Acct, from # Vault, NEW to \in Acct,
         NEW amt \in Nat, NEW fee \in Nat, Transfer(s, from, to, amt, fee).ok
  PROVE  /\ Transfer(s, from, to, amt, fee).bal[Vault] >= s.bal[Vault]
         /\ to = Vault => Transfer(s, from, to, amt, fee).bal[Vault] = s.bal[Vault] + amt
<1>1. s \in [ok : {s.ok}, bal : {s.bal}, con : {s.con}, reg : {s.reg}]
      /\ s.bal \in [Acct -> 0 .. MaxMoney] /\ Vault \in Acct /\ MaxMoney \in Nat
  BY LedgerFields, StateConstants DEF InColumn, StateConstants
<1> DEFINE paid == [s.bal EXCEPT ![from] = @ - (amt + fee)]
           new  == [paid EXCEPT ![to] = @ + amt]
<1>2. Transfer(s, from, to, amt, fee).bal = new
  BY <1>1 DEF Transfer, Moved, Refused
<1>3. s.bal[Vault] \in Int /\ paid \in [Acct -> Int] /\ paid[Vault] = s.bal[Vault]
  BY <1>1
<1> HIDE DEF paid
<1>4. new[Vault] = IF to = Vault THEN paid[Vault] + amt ELSE paid[Vault]
  BY <1>1, <1>3
<1>5. QED
  BY <1>2, <1>3, <1>4

LEMMA VaultIsCredited ==
  ASSUME NEW s, IsLedger(s), NEW to \in Acct, NEW amt \in Nat, Credit(s, to, amt).ok
  PROVE  Credit(s, to, amt).bal[Vault] >= s.bal[Vault]
<1>1. s \in [ok : {s.ok}, bal : {s.bal}, con : {s.con}, reg : {s.reg}]
      /\ s.bal \in [Acct -> 0 .. MaxMoney] /\ Vault \in Acct /\ MaxMoney \in Nat
  BY LedgerFields, StateConstants DEF InColumn, StateConstants
<1> DEFINE new == [s.bal EXCEPT ![to] = @ + amt]
<1>2. Credit(s, to, amt).bal = new
  BY <1>1 DEF Credit, Refused
<1>3. s.bal[Vault] \in Int /\ new[Vault] = IF to = Vault THEN s.bal[Vault] + amt ELSE s.bal[Vault]
  BY <1>1
<1>4. QED
  BY <1>2, <1>3

\* The vault pays one stake at most.
LEMMA VaultPays ==
  ASSUME NEW s, IsLedger(s), NEW from \in Acct, NEW to \in Acct, to # Vault,
         Transfer(s, from, to, Stake, 0).ok
  PROVE  Transfer(s, from, to, Stake, 0).bal[Vault] >= s.bal[Vault] - Stake
<1>1. s \in [ok : {s.ok}, bal : {s.bal}, con : {s.con}, reg : {s.reg}]
      /\ s.bal \in [Acct -> 0 .. MaxMoney] /\ Vault \in Acct /\ MaxMoney \in Nat
      /\ Stake \in Nat
  BY LedgerFields, StateConstants, RegistryConstants
     DEF InColumn, StateConstants, RegistryConstants
<1> DEFINE paid == [s.bal EXCEPT ![from] = @ - (Stake + 0)]
           new  == [paid EXCEPT ![to] = @ + Stake]
<1>2. Transfer(s, from, to, Stake, 0).bal = new
  BY <1>1 DEF Transfer, Moved, Refused
<1>3. /\ s.bal[Vault] \in Int /\ paid \in [Acct -> Int]
      /\ paid[Vault] = IF from = Vault THEN s.bal[Vault] - Stake ELSE s.bal[Vault]
  BY <1>1
<1> HIDE DEF paid
<1>4. new[Vault] = paid[Vault]
  BY <1>1, <1>3
<1> HIDE DEF new
<1>5. s.bal[Vault] >= s.bal[Vault] - Stake
  BY <1>1, <1>3
<1>6. new[Vault] >= s.bal[Vault] - Stake
  BY <1>3, <1>4, <1>5
<1>7. QED
  BY <1>2, <1>6

\* state.py:37-157. What one transaction does to the vault.
LEMMA VaultAfter ==
  ASSUME NEW s, IsLedger(s), NEW tx, FullyTyped(tx), NEW idx, tx.from # Vault,
         tx.op # "VALIDATOR_GOVERNANCE_EXIT",
         tx.op = "VALIDATOR_REGISTER" /\ tx.from # NoAcct => tx.to = Vault,
         ApplyTransaction(s, tx, idx).ok
  PROVE  LET new == ApplyTransaction(s, tx, idx)
         IN /\ tx.op # "VALIDATOR_EXIT" => new.bal[Vault] >= s.bal[Vault]
            /\ tx.op = "VALIDATOR_EXIT" =>
                 /\ tx.from \in DOMAIN s.reg.validators
                 /\ new.bal[Vault] >= s.bal[Vault] - Stake
            /\ tx.op = "VALIDATOR_REGISTER" /\ tx.from # NoAcct =>
                 new.bal[Vault] = s.bal[Vault] + tx.amt
<1> DEFINE new == ApplyTransaction(s, tx, idx)
<1>0. s.bal[Vault] \in Int /\ Stake \in Nat
  <2>1. s.bal \in [Acct -> 0 .. MaxMoney] /\ Vault \in Acct /\ Stake \in Nat
    BY LedgerFields, StateConstants, RegistryConstants
       DEF InColumn, StateConstants, RegistryConstants
  <2>2. QED
    BY <2>1
<1>1. CASE tx.op = "VALIDATOR_EXIT"
  <2>1. new = ApplyExit(s, tx, idx)
    BY <1>1 DEF ApplyTransaction, Payments
  <2>2. ~(\/ tx.from \notin DOMAIN s.reg.validators
          \/ idx >= V2Activation /\ tx.to # Vault)
    BY <2>1, RefusedShape DEF ApplyExit
  <2>3. tx.from \in Acct /\ tx.to \in Acct
    BY <2>2, LedgerFields, RegistryFields DEF FullyTyped, Typed, IsMap
  <2>4. CASE s.bal[tx.to] >= Stake
    <3>1. new = Transfer(s, tx.to, tx.from, Stake, 0)
      BY <2>1, <2>2, <2>4 DEF ApplyExit
    <3>2. new.bal[Vault] >= s.bal[Vault] - Stake
      BY <2>3, <3>1, VaultPays
    <3>3. QED
      BY <1>1, <2>2, <3>2
  <2>5. CASE ~(s.bal[tx.to] >= Stake)
    <3>1. new = s
      BY <2>1, <2>2, <2>5 DEF ApplyExit
    <3> HIDE DEF new
    <3>2. QED
      BY <1>0, <1>1, <2>2, <3>1 DEF new
  <2>6. QED
    BY <2>4, <2>5
<1>2. CASE tx.op \in {"VALIDATOR_UPDATE", "VALIDATOR_SLASH"}
  <2>1. new = s
    BY <1>2 DEF ApplyTransaction, Payments
  <2> HIDE DEF new
  <2>2. QED
    BY <1>0, <1>2, <2>1 DEF new
<1>3. CASE tx.op \in Payments
  <2> DEFINE con == Execute(s.con, tx)
             t   == [s EXCEPT !.con = con]
  <2>1. new = ApplyCall(s, tx)
    BY <1>3 DEF ApplyTransaction, Payments
  <2>2. new = ApplyPayment(t, tx)
    BY <2>1, RefusedShape DEF ApplyCall
  <2>3. IsLedger(t) /\ t.bal = s.bal
    <3>1. s \in [ok : {s.ok}, bal : {s.bal}, con : {s.con}, reg : {s.reg}]
          /\ s.ok \in BOOLEAN /\ InColumn(s.bal) /\ IsRegistry(s.reg)
      BY LedgerFields
    <3>2. t \in [ok : {s.ok}, bal : {s.bal}, con : {con}, reg : {s.reg}]
          /\ t.ok = s.ok /\ t.bal = s.bal /\ t.con = con /\ t.reg = s.reg
      BY <3>1
    <3> HIDE DEF t
    <3>3. QED
      BY <3>1, <3>2, LedgerFields
  <2>4. new.ok
    OBVIOUS
  <2> HIDE DEF t, new
  <2>5. tx.from \in Acct \cup {NoAcct} /\ tx.to \in Acct /\ tx.amt \in Nat /\ tx.fee \in Nat
    BY DEF FullyTyped, Typed
  <2>6. tx.op # "VALIDATOR_EXIT"
    BY <1>3 DEF Payments
  <2>7. CASE tx.from = NoAcct
    <3>1. new = Credit(t, tx.to, tx.amt)
      BY <2>2, <2>7 DEF ApplyPayment
    <3>2. new.bal[Vault] >= t.bal[Vault]
      BY <2>3, <2>4, <2>5, <3>1, VaultIsCredited
    <3>3. QED
      BY <2>3, <2>6, <2>7, <3>2 DEF new
  <2>8. CASE tx.from # NoAcct
    <3>1. new = Transfer(t, tx.from, tx.to, tx.amt, tx.fee) /\ tx.from \in Acct
      BY <2>2, <2>5, <2>8 DEF ApplyPayment
    <3>2. /\ new.bal[Vault] >= t.bal[Vault]
          /\ tx.to = Vault => new.bal[Vault] = t.bal[Vault] + tx.amt
      BY <2>3, <2>4, <2>5, <3>1, VaultReceives
    <3>3. QED
      BY <2>3, <2>6, <2>8, <3>2 DEF new
  <2>9. QED
    BY <2>7, <2>8
<1>4. QED
  BY <1>1, <1>2, <1>3 DEF FullyTyped, Typed

\* validator_registry.py:99-235. What one transaction does to the set of validators.
LEMMA MembersAfter ==
  ASSUME NEW reg, IsRegistry(reg), NEW tx, FullyTyped(tx), NEW idx,
         tx.op \notin {"VALIDATOR_SLASH", "VALIDATOR_GOVERNANCE_EXIT"}
  PROVE  LET old == DOMAIN reg.validators
             new == DOMAIN ProcessTx(reg, tx, idx).validators
         IN /\ tx.op \notin {"VALIDATOR_REGISTER", "VALIDATOR_EXIT"} => new = old
            /\ tx.op = "VALIDATOR_EXIT" => new = old \ {tx.from}
            /\ tx.op = "VALIDATOR_REGISTER" =>
                 \/ new = old
                 \/ new = old \cup {tx.from} /\ tx.from \in Acct /\ tx.amt >= Stake
<1> DEFINE old == DOMAIN reg.validators
           q   == ProcessTx(reg, tx, idx)
<1>1. CASE tx.op = "VALIDATOR_REGISTER"
  <2> DEFINE entry == [lam |-> tx.lam, m3 |-> TRUE]
  <2>1. q = Register(reg, tx, idx)
    BY <1>1 DEF ProcessTx
  <2>2. \/ q = reg
        \/ q = With(reg, tx.from, entry, idx) /\ tx.from \in Acct /\ tx.amt >= Stake
    BY <2>1 DEF Register
  <2>3. entry \in Entries
    BY DEF Entries, FullyTyped
  <2> HIDE DEF entry, q
  <2>4. tx.from \in Acct =>
          With(reg, tx.from, entry, idx).validators = Put(reg.validators, tx.from, entry)
    BY <2>3, WithIsRegistry
  <2>5. DOMAIN Put(reg.validators, tx.from, entry) = old \cup {tx.from}
    BY DEF Put
  <2>6. \/ DOMAIN q.validators = old
        \/ DOMAIN q.validators = old \cup {tx.from} /\ tx.from \in Acct /\ tx.amt >= Stake
    BY <2>2, <2>4, <2>5
  <2>7. QED
    BY <1>1, <2>6 DEF q
<1>2. CASE tx.op = "VALIDATOR_EXIT"
  <2>1. q = IF tx.from \in old THEN Without(reg, tx.from, idx) ELSE reg
    BY <1>2 DEF ProcessTx, ExitValidator
  <2>2. Without(reg, tx.from, idx).validators = Restrict(reg.validators, old \ {tx.from})
    BY WithoutIsRegistry
  <2>3. DOMAIN Restrict(reg.validators, old \ {tx.from}) = old \ {tx.from}
    BY DEF Restrict
  <2> HIDE DEF q
  <2>4. DOMAIN q.validators = old \ {tx.from}
    BY <2>1, <2>2, <2>3
  <2>5. QED
    BY <1>2, <2>4 DEF q
<1>3. CASE tx.op = "VALIDATOR_UPDATE"
  <2> DEFINE entry == [reg.validators[tx.from] EXCEPT !.lam = tx.lam]
  <2>1. q = UpdateLambda(reg, tx, idx)
    BY <1>3 DEF ProcessTx
  <2>2. \/ q = reg
        \/ q = With(reg, tx.from, entry, idx) /\ tx.from \in old
    BY <2>1 DEF UpdateLambda
  <2>3. tx.from \in old => tx.from \in Acct /\ entry \in Entries
    BY RegistryFields DEF IsMap, Entries, FullyTyped
  <2> HIDE DEF entry, q
  <2>4. tx.from \in old =>
          With(reg, tx.from, entry, idx).validators = Put(reg.validators, tx.from, entry)
    BY <2>3, WithIsRegistry
  <2>5. DOMAIN Put(reg.validators, tx.from, entry) = old \cup {tx.from}
    BY DEF Put
  <2>6. DOMAIN q.validators = old
    BY <2>2, <2>4, <2>5
  <2>7. QED
    BY <1>3, <2>6 DEF q
<1>4. CASE tx.op \notin {"VALIDATOR_REGISTER", "VALIDATOR_EXIT", "VALIDATOR_SLASH",
                        "VALIDATOR_UPDATE", "VALIDATOR_GOVERNANCE_EXIT"}
  <2>1. q = reg
    BY <1>4 DEF ProcessTx
  <2>2. QED
    BY <1>4, <2>1
<1>5. QED
  BY <1>1, <1>2, <1>3, <1>4

\* One stake more for one member more, one less for one less.
LEMMA StakeOf ==
  ASSUME NEW D, IsFiniteSet(D), NEW a
  PROVE  /\ Stake * Cardinality(D) \in Int
         /\ Stake * Cardinality(D \cup {a}) \in Int
         /\ Stake * Cardinality(D \cup {a}) <= Stake * Cardinality(D) + Stake
         /\ a \in D => Stake * Cardinality(D \ {a}) = Stake * Cardinality(D) - Stake
<1>1. Stake \in Nat
  BY RegistryConstants DEF RegistryConstants
<1>2. PICK n \in Nat : n = Cardinality(D)
  BY FS_CardinalityType
<1>3. Cardinality(D \cup {a}) \in {n, n + 1}
  BY <1>2, FS_AddElement
<1>4. a \in D => Cardinality(D \ {a}) = n - 1
  BY <1>2, FS_RemoveElement
<1>5. \A m \in Nat : Stake * m \in Int
  BY <1>1
<1>6. Stake * (n + 1) = Stake * n + Stake /\ Stake * (n - 1) = Stake * n - Stake
  BY <1>1
<1>7. QED
  BY <1>1, <1>2, <1>3, <1>4, <1>5, <1>6

\* One transaction further, with the vault and the set of members as they are after
\* the first n: the vault still has a stake for each.
LEMMA OneMoreStake ==
  ASSUME NEW s, IsLedger(s), NEW reg, IsRegistry(reg),
         s.bal[Vault] >= Stake * Cardinality(DOMAIN reg.validators),
         NEW tx, FullyTyped(tx), NEW idx, tx.from # Vault,
         tx.op \notin {"VALIDATOR_SLASH", "VALIDATOR_GOVERNANCE_EXIT"},
         tx.op = "VALIDATOR_REGISTER" /\ tx.from # NoAcct => tx.to = Vault,
         tx.op = "VALIDATOR_EXIT" /\ tx.from \in DOMAIN s.reg.validators =>
           tx.from \in DOMAIN reg.validators,
         ApplyTransaction(s, tx, idx).ok
  PROVE  ApplyTransaction(s, tx, idx).bal[Vault]
           >= Stake * Cardinality(DOMAIN ProcessTx(reg, tx, idx).validators)
<1> DEFINE new == ApplyTransaction(s, tx, idx)
           old == DOMAIN reg.validators
           left == DOMAIN ProcessTx(reg, tx, idx).validators
<1>1. /\ tx.op # "VALIDATOR_EXIT" => new.bal[Vault] >= s.bal[Vault]
      /\ tx.op = "VALIDATOR_EXIT" =>
           tx.from \in DOMAIN s.reg.validators /\ new.bal[Vault] >= s.bal[Vault] - Stake
      /\ tx.op = "VALIDATOR_REGISTER" /\ tx.from # NoAcct =>
           new.bal[Vault] = s.bal[Vault] + tx.amt
  BY VaultAfter
<1>2. /\ tx.op \notin {"VALIDATOR_REGISTER", "VALIDATOR_EXIT"} => left = old
      /\ tx.op = "VALIDATOR_EXIT" => left = old \ {tx.from}
      /\ tx.op = "VALIDATOR_REGISTER" =>
           \/ left = old
           \/ left = old \cup {tx.from} /\ tx.from \in Acct /\ tx.amt >= Stake
  BY MembersAfter
<1>3. IsLedger(new)
  BY ApplyShape
<1> HIDE DEF new, left
<1>4. /\ s.bal[Vault] \in Int /\ new.bal[Vault] \in Int /\ Stake \in Int /\ tx.amt \in Int
      /\ NoAcct \notin Acct
  <2>1. /\ s.bal \in [Acct -> 0 .. MaxMoney] /\ new.bal \in [Acct -> 0 .. MaxMoney]
        /\ Vault \in Acct /\ Stake \in Nat /\ tx.amt \in Nat /\ NoAcct \notin Acct
    BY <1>3, LedgerFields, StateConstants, RegistryConstants
       DEF InColumn, StateConstants, RegistryConstants, FullyTyped, Typed
  <2>2. QED
    BY <2>1
<1>5. IsFiniteSet(old)
  <2>1. old \subseteq Acct /\ IsFiniteSet(Acct)
    BY RegistryFields, RegistryConstants DEF IsMap, RegistryConstants
  <2>2. QED
    BY <2>1, FS_Subset
<1>6. s.bal[Vault] >= Stake * Cardinality(old)
  OBVIOUS
<1> HIDE DEF old
<1>7. /\ Stake * Cardinality(old) \in Int
      /\ Stake * Cardinality(old \cup {tx.from}) \in Int
      /\ Stake * Cardinality(old \cup {tx.from}) <= Stake * Cardinality(old) + Stake
      /\ tx.from \in old =>
           Stake * Cardinality(old \ {tx.from}) = Stake * Cardinality(old) - Stake
  BY <1>5, StakeOf, Zenon
<1>8. CASE tx.op = "VALIDATOR_EXIT"
  <2>1. left = old \ {tx.from} /\ tx.from \in old /\ new.bal[Vault] >= s.bal[Vault] - Stake
    BY <1>1, <1>2, <1>8 DEF old
  <2>2. QED
    BY <1>4, <1>6, <1>7, <2>1 DEF new, left
<1>9. CASE tx.op = "VALIDATOR_REGISTER" /\ left # old
  <2>1. left = old \cup {tx.from} /\ tx.from # NoAcct /\ tx.amt >= Stake
    BY <1>2, <1>4, <1>9
  <2>2. new.bal[Vault] = s.bal[Vault] + tx.amt
    BY <1>1, <1>9, <2>1
  <2>3. QED
    BY <1>4, <1>6, <1>7, <2>1, <2>2 DEF new, left
<1>10. CASE tx.op # "VALIDATOR_EXIT" /\ left = old
  <2>1. new.bal[Vault] >= s.bal[Vault]
    BY <1>1, <1>10
  <2>2. QED
    BY <1>4, <1>6, <1>7, <1>10, <2>1 DEF new, left
<1>11. QED
  BY <1>2, <1>8, <1>9, <1>10

\* chain.py:504-522, state.py:58-76, validator_registry.py:99-235. A block that executes leaves
\* a stake in the vault for each of the validators it leaves, if no validator exits
\* twice in it.
LEMMA ExecBacks ==
  ASSUME NEW b, IsBlock(b), Calm(b), StakesToVault(b.txs), VaultIsSilent(b.txs),
         OneExitEach(b.txs), NEW s, IsLedger(s), Backs(s), ExecBlock(s, b).ok
  PROVE  Backs(ExecBlock(s, b))
<1> DEFINE txs   == b.txs
           idx   == b.idx
           At(n) == ApplyAll(s, First(n, txs), idx)
           Re(n) == ProcessAll(s.reg, First(n, txs), idx)
           start == DOMAIN s.reg.validators
           Good(n) ==
             /\ IsRegistry(Re(n))
             /\ At(n).bal[Vault] >= Stake * Cardinality(DOMAIN Re(n).validators)
             /\ \A v \in start :
                  \/ v \in DOMAIN Re(n).validators
                  \/ \E i \in 1 .. n : txs[i].op = "VALIDATOR_EXIT" /\ txs[i].from = v
           T == {n \in Nat : n <= Len(txs) => Good(n)}
<1>0. txs \in Seq(Range(txs)) /\ AllTyped(txs) /\ NoVotes(txs) /\ NoSlash(txs)
      /\ IsRegistry(s.reg)
  BY LedgerFields DEF IsBlock, Calm
<1>1. /\ Len(txs) \in Nat /\ DOMAIN txs = 1 .. Len(txs)
      /\ At(Len(txs)) = ApplyAll(s, txs, idx) /\ Re(Len(txs)) = ProcessAll(s.reg, txs, idx)
  BY <1>0, FirstNone
<1>2. /\ At(0) = s /\ Re(0) = s.reg
      /\ \A n \in Nat : n < Len(txs) => At(n + 1) = ApplyStep(At(n), txs[n + 1], idx)
      /\ \A n \in Nat : n < Len(txs) => Re(n + 1) = ProcessTx(Re(n), txs[n + 1], idx)
  BY <1>0, NoneYet, ApplyMore, ProcessMore
<1>3. ASSUME NEW n \in 0 .. Len(txs)
      PROVE  IsLedger(At(n)) /\ At(n).ok /\ At(n).reg = s.reg
  <2> DEFINE some == First(n, txs)
  <2>1. some \in Seq(Range(txs)) /\ \A i \in DOMAIN some : i \in DOMAIN txs /\ some[i] = txs[i]
    BY <1>0, <1>1 DEF First
  <2> HIDE DEF some
  <2>2. AllTyped(some) /\ NoVotes(some)
    BY <1>0, <2>1 DEF AllTyped, NoVotes
  <2>3. IsLedger(ApplyAll(s, some, idx)) /\ ApplyAll(s, some, idx).reg = s.reg
    BY <2>1, <2>2, ApplyAllShape
  <2>4. ApplyAll(s, txs, idx).ok
    BY ExecShape
  <2>5. At(n).ok
    BY <1>0, <2>4, ApplyAllOk
  <2>6. QED
    BY <2>3, <2>5 DEF some
<1> HIDE DEF At, Re
<1>4. 0 \in T
  <2>1. Good(0)
    BY <1>0, <1>2 DEF Backs
  <2> HIDE DEF Good
  <2>2. QED
    BY <2>1
<1>5. ASSUME NEW n \in Nat, n < Len(txs), n \in T PROVE n + 1 \in T
  <2> DEFINE tx == txs[n + 1]
  <2>1. /\ n \in 0 .. Len(txs) /\ n + 1 \in 0 .. Len(txs) /\ n + 1 \in 1 .. Len(txs)
        /\ \A i \in 1 .. n : i \in 1 .. Len(txs) /\ i # n + 1 /\ i \in 1 .. n + 1
    BY <1>1, <1>5
  <2>2. Good(n)
    <3> HIDE DEF Good
    <3>1. n <= Len(txs)
      BY <1>1, <1>5
    <3>2. QED
      BY <1>5, <3>1
  <2>3. /\ FullyTyped(tx) /\ tx.op \notin {"VALIDATOR_SLASH", "VALIDATOR_GOVERNANCE_EXIT"}
        /\ tx.from # Vault
        /\ tx.op = "VALIDATOR_REGISTER" /\ tx.from # NoAcct => tx.to = Vault
    BY <1>0, <1>1, <2>1 DEF AllTyped, NoVotes, NoSlash, VaultIsSilent, StakesToVault
  <2>4. /\ IsLedger(At(n)) /\ At(n).ok /\ At(n).reg = s.reg /\ At(n + 1).ok
    BY <1>3, <2>1
  <2>5. At(n + 1) = ApplyTransaction(At(n), tx, idx) /\ Re(n + 1) = ProcessTx(Re(n), tx, idx)
    BY <1>2, <1>5, <2>4 DEF ApplyStep
  <2>6. tx.op = "VALIDATOR_EXIT" /\ tx.from \in start => tx.from \in DOMAIN Re(n).validators
    <3> SUFFICES ASSUME tx.op = "VALIDATOR_EXIT", tx.from \in start,
                        tx.from \notin DOMAIN Re(n).validators
                 PROVE  FALSE
      OBVIOUS
    <3>1. PICK i \in 1 .. n : txs[i].op = "VALIDATOR_EXIT" /\ txs[i].from = tx.from
      BY <2>2
    <3>2. i \in DOMAIN txs /\ n + 1 \in DOMAIN txs /\ i # n + 1
      BY <1>1, <2>1
    <3>3. QED
      BY <3>1, <3>2 DEF OneExitEach
  <2>7. ASSUME NEW v \in start
        PROVE  \/ v \in DOMAIN Re(n + 1).validators
               \/ \E i \in 1 .. n + 1 : txs[i].op = "VALIDATOR_EXIT" /\ txs[i].from = v
    <3>1. CASE \E i \in 1 .. n : txs[i].op = "VALIDATOR_EXIT" /\ txs[i].from = v
      BY <2>1, <3>1
    <3>2. CASE v \in DOMAIN Re(n).validators
      <4>1. \/ v \in DOMAIN ProcessTx(Re(n), tx, idx).validators
            \/ tx.op = "VALIDATOR_EXIT" /\ tx.from = v
        BY <2>2, <2>3, <3>2, MembersAfter
      <4>2. n + 1 \in 1 .. n + 1
        BY <2>1
      <4>3. QED
        BY <2>5, <4>1, <4>2
    <3>3. QED
      BY <2>2, <3>1, <3>2
  <2>8. IsRegistry(Re(n)) /\ At(n).bal[Vault] >= Stake * Cardinality(DOMAIN Re(n).validators)
    BY <2>2
  <2> HIDE DEF tx
  <2>9. IsRegistry(Re(n + 1))
    BY <2>3, <2>5, <2>8, ProcessShape
  <2>10. At(n + 1).bal[Vault] >= Stake * Cardinality(DOMAIN Re(n + 1).validators)
    <3>1. ApplyTransaction(At(n), tx, idx).ok
      BY <2>4, <2>5
    <3>2. tx.op = "VALIDATOR_EXIT" /\ tx.from \in DOMAIN At(n).reg.validators =>
            tx.from \in DOMAIN Re(n).validators
      BY <2>4, <2>6
    <3>3. ApplyTransaction(At(n), tx, idx).bal[Vault]
            >= Stake * Cardinality(DOMAIN ProcessTx(Re(n), tx, idx).validators)
      BY <2>3, <2>4, <2>8, <3>1, <3>2, OneMoreStake
    <3>4. QED
      BY <2>5, <3>3
  <2>11. Good(n + 1)
    BY <2>7, <2>9, <2>10
  <2> HIDE DEF Good
  <2>12. QED
    BY <2>11
<1>6. Len(txs) \in T
  <2> HIDE DEF T
  <2>1. QED
    BY <1>1, <1>4, <1>5, UpTo
<1>7. Good(Len(txs))
  <2> HIDE DEF Good
  <2>1. Len(txs) <= Len(txs)
    BY <1>1
  <2>2. QED
    BY <1>6, <2>1
<1> DEFINE t == ApplyAll(s, txs, idx)
<1>8. IsLedger(t) /\ t.reg = s.reg
  BY <1>0, ApplyAllShape
<1>9. ExecBlock(s, b) = Process(t, b)
  BY DEF ExecBlock
<1>10. t.bal[Vault] >= Stake * Cardinality(DOMAIN ProcessAll(s.reg, txs, idx).validators)
  BY <1>1, <1>7
<1> HIDE DEF t
<1>11. ExecBlock(s, b).bal = t.bal /\ ExecBlock(s, b).reg = ProcessAll(s.reg, txs, idx)
  BY <1>8, <1>9, ProcessedShape
<1>12. QED
  BY <1>10, <1>11 DEF Backs

-----------------------------------------------------------------------------
(* Rewards                                                                  *)

\* The owners of the greatest and of the least exponent.
LEMMA ExtremesExist ==
  ASSUME NEW D, IsFiniteSet(D), NEW f \in [D -> Int], NEW V \in SUBSET D, V # {}
  PROVE  \E a \in V, b \in V : \A w \in V : f[b] <= f[w] /\ f[w] <= f[a]
<1> DEFINE Ends(s) == \E a \in s, b \in s : \A w \in s : f[b] <= f[w] /\ f[w] <= f[a]
           T == {n \in Nat : \A s \in SUBSET D : Cardinality(s) <= n /\ s # {} => Ends(s)}
<1>1. 0 \in T
  <2>1. \A s \in SUBSET D : Cardinality(s) <= 0 => s = {}
    BY EmptyIsZero
  <2> HIDE DEF Ends
  <2>2. QED
    BY <2>1
<1>2. ASSUME NEW n \in Nat, n \in T PROVE n + 1 \in T
  <2>1. ASSUME NEW s \in SUBSET D, Cardinality(s) <= n + 1, s # {} PROVE Ends(s)
    <3>1. PICK x \in s : TRUE
      BY <2>1
    <3>2. s \ {x} \in SUBSET D /\ Cardinality(s \ {x}) = Cardinality(s) - 1 /\ Cardinality(s) \in Nat
      BY <2>1, SomeIsLess
    <3>3. Cardinality(s \ {x}) <= n
      BY <2>1, <3>2
    <3>4. \A w \in s : f[w] \in Int
      OBVIOUS
    <3>5. CASE s \ {x} = {}
      <4>1. \A w \in s : w = x
        BY <3>5
      <4>2. QED
        BY <3>1, <3>4, <4>1
    <3>6. CASE s \ {x} # {}
      <4>1. Ends(s \ {x})
        <5> HIDE DEF Ends
        <5>1. QED
          BY <1>2, <3>2, <3>3, <3>6
      <4>2. PICK a \in s \ {x}, b \in s \ {x} : \A w \in s \ {x} : f[b] <= f[w] /\ f[w] <= f[a]
        BY <4>1
      <4>3. f[x] \in Int /\ f[a] \in Int /\ f[b] \in Int
        BY <3>1, <3>4
      <4> DEFINE hi == IF f[x] > f[a] THEN x ELSE a
                 lo == IF f[x] < f[b] THEN x ELSE b
      <4>4. /\ hi \in s /\ lo \in s
            /\ f[hi] \in Int /\ f[x] <= f[hi] /\ f[a] <= f[hi]
            /\ f[lo] \in Int /\ f[lo] <= f[x] /\ f[lo] <= f[b]
        BY <3>1, <4>3
      <4> HIDE DEF hi, lo
      <4>5. ASSUME NEW w \in s PROVE f[lo] <= f[w] /\ f[w] <= f[hi]
        <5>1. CASE w = x
          BY <4>4, <5>1
        <5>2. CASE w # x
          <6>1. f[b] <= f[w] /\ f[w] <= f[a] /\ f[w] \in Int
            BY <3>4, <4>2, <5>2
          <6>2. QED
            BY <4>3, <4>4, <6>1
        <5>3. QED
          BY <5>1, <5>2
      <4>6. QED
        BY <4>4, <4>5
    <3>7. QED
      BY <3>5, <3>6
  <2> HIDE DEF Ends
  <2>2. QED
    BY <2>1
<1>3. Cardinality(V) \in Nat
  BY EmptyIsZero
<1> HIDE DEF T, Ends
<1>4. Cardinality(V) \in T
  BY <1>1, <1>2, <1>3, UpTo
<1>5. Cardinality(V) <= Cardinality(V)
  BY <1>3
<1>6. Ends(V)
  BY <1>4, <1>5 DEF T
<1>7. QED
  BY <1>6 DEF Ends

LEMMA LeastIs ==
  ASSUME NEW S \in SUBSET Int, NEW x \in S, \A y \in S : x <= y
  PROVE  Min(S) = x
<1>1. x <= x
  OBVIOUS
<1>2. Min(S) \in S /\ \A y \in S : Min(S) <= y
  BY <1>1 DEF Min
<1>3. Min(S) \in Int /\ x \in Int
  BY <1>2
<1>4. Min(S) <= x /\ x <= Min(S)
  BY <1>2
<1>5. QED
  BY <1>3, <1>4

\* The territory of an exponent among those of V, in half units
Width(f, V, v) == RightEdge({f[w] : w \in V}, f[v]) - LeftEdge({f[w] : w \in V}, f[v])

Widths(f, V) == [v \in V |-> Width(f, V, v)]

Axis == 2 * LamMax - 2 * LamMin

\* A lone exponent has the whole axis.
LEMMA LoneWidth ==
  ASSUME NEW f, NEW a, f[a] \in Int
  PROVE  Width(f, {a}, a) = Axis
<1> DEFINE lams == {f[w] : w \in {a}}
<1>1. lams = {f[a]}
  OBVIOUS
<1> HIDE DEF lams
<1>2. {l \in lams : l < f[a]} = {} /\ {l \in lams : l > f[a]} = {}
  BY <1>1
<1>3. RightEdge(lams, f[a]) = 2 * LamMax /\ LeftEdge(lams, f[a]) = 2 * LamMin
  BY <1>2 DEF RightEdge, LeftEdge
<1>4. QED
  BY <1>3 DEF Width, Axis, lams

\* A new greatest exponent takes its territory from the former greatest one.
LEMMA WidthsAfter ==
  ASSUME NEW D, IsFiniteSet(D), NEW f \in [D -> Int],
         \A v, w \in D : v # w => f[v] # f[w],
         NEW V \in SUBSET D, NEW a \in V, \A w \in V : f[w] <= f[a],
         NEW m \in V \ {a}, \A w \in V \ {a} : f[w] <= f[m]
  PROVE  /\ Width(f, V, a) = 2 * LamMax - f[m] - f[a]
         /\ Width(f, V \ {a}, m) \in Int
         /\ Width(f, V, m) = Width(f, V \ {a}, m) - 2 * LamMax + f[m] + f[a]
         /\ \A w \in V \ {a, m} :
              Width(f, V, w) = Width(f, V \ {a}, w) /\ Width(f, V, w) \in Int
<1> DEFINE W == V \ {a}
           L == {f[w] : w \in V}
           K == {f[w] : w \in W}
<1>1. /\ L \in SUBSET Int /\ K \in SUBSET Int /\ L = K \cup {f[a]} /\ f[m] \in K
      /\ \A k \in K : k <= f[m]
  OBVIOUS
<1>2. f[a] \in Int /\ f[m] \in Int /\ f[m] < f[a]
  OBVIOUS
<1>3. LamMin \in Int /\ LamMax \in Int
  BY RegistryConstants DEF RegistryConstants
<1>4. \A v \in V : /\ Width(f, V, v) = RightEdge(L, f[v]) - LeftEdge(L, f[v])
                   /\ Width(f, W, v) = RightEdge(K, f[v]) - LeftEdge(K, f[v])
  BY DEF Width
<1>5. ASSUME NEW w \in W
      PROVE  /\ f[w] \in K /\ f[w] \in Int /\ f[w] < f[a]
             /\ f[w] <= f[m] /\ (w # m => f[w] < f[m])
  OBVIOUS
<1>6. ASSUME NEW x \in Int
      PROVE  LeftEdge(K, x) \in Int
  <2> DEFINE B == {w \in W : f[w] < x}
             S == {l \in K : l < x}
  <2>1. CASE S = {}
    BY <1>3, <2>1 DEF LeftEdge
  <2>2. CASE S # {}
    <3>1. B \in SUBSET D /\ B # {}
      BY <2>2
    <3>2. PICK b \in B : \A w \in B : f[w] <= f[b]
      <4> HIDE DEF B
      <4>1. QED
        BY <3>1, ExtremesExist
    <3>3. S \in SUBSET Int /\ f[b] \in S /\ \A y \in S : y <= f[b]
      BY <1>1, <3>2
    <3> HIDE DEF S
    <3>4. Max(S) = f[b] /\ f[b] \in Int
      BY <3>3, GreatestIs
    <3>5. QED
      BY <2>2, <3>4 DEF LeftEdge, S
  <2>3. QED
    BY <2>1, <2>2
<1>7. ASSUME NEW x \in Int, \E k \in K : k > x
      PROVE  \E y \in K : y > x /\ \A k \in K : k > x => y <= k
  <2> DEFINE B == {w \in W : f[w] > x}
  <2>1. B \in SUBSET D /\ B # {}
    BY <1>7
  <2>2. PICK b \in B : \A w \in B : f[b] <= f[w]
    <3> HIDE DEF B
    <3>1. QED
      BY <2>1, ExtremesExist
  <2>3. QED
    BY <2>2
<1> HIDE DEF K, L, W
<1>8. Width(f, V, a) = 2 * LamMax - f[m] - f[a]
  <2>1. {l \in L : l > f[a]} = {}
    BY <1>1, <1>2
  <2>2. {l \in L : l < f[a]} = K
    BY <1>1, <1>2
  <2>3. Max(K) = f[m]
    BY <1>1, GreatestIs
  <2>4. RightEdge(L, f[a]) = 2 * LamMax
    BY <2>1 DEF RightEdge
  <2>5. LeftEdge(L, f[a]) = f[m] + f[a]
    BY <1>1, <2>2, <2>3 DEF LeftEdge
  <2>6. QED
    BY <1>2, <1>3, <1>4, <2>4, <2>5
<1>9. ASSUME NEW w \in W PROVE LeftEdge(L, f[w]) = LeftEdge(K, f[w])
  <2>1. {l \in L : l < f[w]} = {l \in K : l < f[w]}
    BY <1>1, <1>2, <1>5
  <2>2. QED
    BY <2>1 DEF LeftEdge
<1>10. m \in W /\ \A w \in W : w \in V
  BY DEF W
<1>11. RightEdge(K, f[m]) = 2 * LamMax
  <2>1. {l \in K : l > f[m]} = {}
    BY <1>1, <1>2
  <2>2. QED
    BY <2>1 DEF RightEdge
<1>12. RightEdge(L, f[m]) = f[m] + f[a]
  <2>1. {l \in L : l > f[m]} = {f[a]}
    BY <1>1, <1>2
  <2>2. Min({f[a]}) = f[a]
    BY <1>2, LeastIs
  <2>3. QED
    BY <2>1, <2>2 DEF RightEdge
<1>13. /\ Width(f, W, m) \in Int
       /\ Width(f, V, m) = Width(f, W, m) - 2 * LamMax + f[m] + f[a]
  <2>1. LeftEdge(L, f[m]) = LeftEdge(K, f[m]) /\ LeftEdge(K, f[m]) \in Int
    BY <1>2, <1>6, <1>9, <1>10
  <2>2. QED
    BY <1>2, <1>3, <1>4, <1>10, <1>11, <1>12, <2>1
<1>14. ASSUME NEW w \in W, w # m PROVE Width(f, V, w) = Width(f, W, w) /\ Width(f, V, w) \in Int
  <2>1. f[w] \in Int /\ f[w] < f[m] /\ w \in V
    BY <1>5, <1>10, <1>14
  <2>2. PICK y \in K : y > f[w] /\ \A k \in K : k > f[w] => y <= k
    BY <1>1, <1>7, <2>1
  <2> DEFINE SK == {l \in K : l > f[w]}
             SL == {l \in L : l > f[w]}
  <2>3. /\ SK \in SUBSET Int /\ y \in SK /\ \A k \in SK : y <= k
        /\ SL \in SUBSET Int /\ y \in SL /\ y \in Int
    BY <1>1, <2>2
  <2>4. \A l \in SL : y <= l
    <3> SUFFICES ASSUME NEW l \in SL PROVE y <= l
      OBVIOUS
    <3>1. y <= f[m]
      BY <1>1
    <3>2. CASE l = f[a]
      BY <1>1, <1>2, <2>3, <3>1, <3>2
    <3>3. CASE l # f[a]
      BY <1>1, <2>2, <3>3
    <3>4. QED
      BY <3>2, <3>3
  <2> HIDE DEF SK, SL
  <2>5. Min(SK) = y /\ Min(SL) = y
    BY <2>3, <2>4, LeastIs
  <2>6. RightEdge(K, f[w]) = f[w] + y /\ RightEdge(L, f[w]) = f[w] + y
    BY <2>3, <2>5 DEF RightEdge, SK, SL
  <2>7. LeftEdge(L, f[w]) = LeftEdge(K, f[w]) /\ LeftEdge(K, f[w]) \in Int
    BY <1>6, <1>9, <2>1
  <2>8. QED
    BY <1>4, <2>1, <2>3, <2>6, <2>7
<1>15. QED
  BY <1>8, <1>13, <1>14 DEF W

\* Exponents that differ share out the axis, however many there are.
LEMMA AxisIsShared ==
  ASSUME NEW D, IsFiniteSet(D), NEW f \in [D -> Int],
         \A v, w \in D : v # w => f[v] # f[w],
         NEW V \in SUBSET D, V # {}
  PROVE  SumFunction(Widths(f, V)) = Axis
<1> DEFINE Shared(s) == Widths(f, s) \in [s -> Int] /\ SumFunction(Widths(f, s)) = Axis
           T == {n \in Nat : \A s \in SUBSET D : Cardinality(s) <= n /\ s # {} => Shared(s)}
<1>0. Axis \in Int /\ LamMax \in Int
  BY RegistryConstants DEF RegistryConstants, Axis
<1>1. 0 \in T
  <2>1. \A s \in SUBSET D : Cardinality(s) <= 0 => s = {}
    BY EmptyIsZero
  <2> HIDE DEF Shared
  <2>2. QED
    BY <2>1
<1>2. ASSUME NEW n \in Nat, n \in T PROVE n + 1 \in T
  <2>1. ASSUME NEW s \in SUBSET D, Cardinality(s) <= n + 1, s # {} PROVE Shared(s)
    <3>1. PICK a \in s : \A w \in s : f[w] <= f[a]
      BY <2>1, ExtremesExist
    <3> DEFINE r == s \ {a}
    <3>2. r \in SUBSET D /\ Cardinality(r) = Cardinality(s) - 1 /\ Cardinality(s) \in Nat
      BY <2>1, SomeIsLess
    <3>3. Cardinality(r) <= n
      BY <2>1, <3>2
    <3>4. IsFiniteSet(s) /\ IsFiniteSet(r)
      BY <2>1, <3>2, FS_Subset
    <3>5. CASE r = {}
      <4>1. s = {a} /\ f[a] \in Int
        BY <3>5
      <4>2. Widths(f, s) = [v \in s |-> Axis]
        BY <4>1, LoneWidth DEF Widths
      <4> DEFINE e == [v \in s |-> Axis]
                 h == [v \in {} |-> 0]
      <4>3. e \in [s -> Int] /\ h \in [s \ {a} -> Int] /\ \A x \in s \ {a} : h[x] = e[x]
        BY <1>0, <4>1
      <4>4. DOMAIN h = {} /\ e[a] = Axis
        BY <4>1
      <4> HIDE DEF e, h
      <4>5. SumFunction(e) = e[a] + SumFunction(h)
        BY <3>4, <4>3, SumSplit
      <4>6. SumFunction(h) = 0
        BY <4>4, SumOfNone
      <4>7. SumFunction(e) = Axis
        BY <1>0, <4>4, <4>5, <4>6
      <4>8. Widths(f, s) = e
        BY <4>2 DEF e
      <4>9. QED
        BY <4>3, <4>7, <4>8
    <3>6. CASE r # {}
      <4>1. Shared(r)
        <5> HIDE DEF Shared, r
        <5>1. QED
          BY <1>2, <3>2, <3>3, <3>6
      <4>2. PICK m \in r : \A w \in r : f[w] <= f[m]
        <5> HIDE DEF r
        <5>1. QED
          BY <3>2, <3>6, ExtremesExist
      <4>3. /\ Width(f, s, a) = 2 * LamMax - f[m] - f[a]
            /\ Width(f, r, m) \in Int
            /\ Width(f, s, m) = Width(f, r, m) - 2 * LamMax + f[m] + f[a]
            /\ \A w \in s \ {a, m} : Width(f, s, w) = Width(f, r, w) /\ Width(f, s, w) \in Int
        BY <3>1, <4>2, WidthsAfter
      <4>4. f[a] \in Int /\ f[m] \in Int
        OBVIOUS
      <4> DEFINE g == Widths(f, r)
                 e == Widths(f, s)
                 v == g[m] - 2 * LamMax + f[m] + f[a]
                 h == [g EXCEPT ![m] = v]
      <4>5. g \in [r -> Int] /\ SumFunction(g) = Axis /\ g[m] = Width(f, r, m)
        BY <4>1 DEF Widths
      <4>6. e \in [s -> Int]
        <5>1. ASSUME NEW w \in s PROVE Width(f, s, w) \in Int
          <6>1. CASE w = a
            BY <1>0, <4>3, <4>4, <6>1
          <6>2. CASE w = m
            BY <1>0, <4>3, <4>4, <6>2
          <6>3. CASE w \notin {a, m}
            BY <4>3, <6>3
          <6>4. QED
            BY <6>1, <6>2, <6>3
        <5>2. QED
          BY <5>1 DEF Widths
      <4>7. v \in Int /\ g[m] \in Int
        BY <1>0, <4>3, <4>4, <4>5
      <4>8. h \in [r -> Int] /\ \A x \in r : h[x] = e[x]
        <5>1. h \in [r -> Int]
          BY <4>5, <4>7
        <5>2. ASSUME NEW x \in r PROVE h[x] = e[x]
          <6>1. CASE x = m
            BY <4>3, <4>5, <6>1 DEF Widths
          <6>2. CASE x # m
            BY <4>3, <4>5, <6>2 DEF Widths
          <6>3. QED
            BY <6>1, <6>2
        <5>3. QED
          BY <5>1, <5>2
      <4>9. e[a] = 2 * LamMax - f[m] - f[a]
        BY <3>1, <4>3 DEF Widths
      <4>10. m \in r /\ r = s \ {a} /\ a \in s
        OBVIOUS
      <4> HIDE DEF e, g, r
      <4>11. SumFunction(h) = SumFunction(g) - g[m] + v
        <5>1. IsFiniteSet(r) /\ g \in [r -> Int] /\ m \in r /\ v \in Int
          BY <3>4, <4>5, <4>7, <4>10
        <5> HIDE DEF v
        <5>2. SumFunction([g EXCEPT ![m] = v]) = SumFunction(g) - g[m] + v
          BY <5>1, SumChanged
        <5>3. QED
          BY <5>2
      <4> HIDE DEF h
      <4>12. SumFunction(e) = e[a] + SumFunction(h)
        BY <3>4, <4>6, <4>8, <4>10, SumSplit
      <4>13. SumFunction(e) = Axis
        BY <1>0, <4>4, <4>5, <4>7, <4>9, <4>11, <4>12 DEF v
      <4>14. QED
        BY <4>6, <4>13 DEF e
    <3>7. QED
      BY <3>5, <3>6
  <2> HIDE DEF Shared
  <2>2. QED
    BY <2>1
<1>3. Cardinality(V) \in Nat
  BY EmptyIsZero
<1> HIDE DEF T, Shared
<1>4. Cardinality(V) \in T
  BY <1>1, <1>2, <1>3, UpTo
<1>5. Cardinality(V) <= Cardinality(V)
  BY <1>3
<1>6. Shared(V)
  BY <1>4, <1>5 DEF T
<1>7. QED
  BY <1>6 DEF Shared

-----------------------------------------------------------------------------
(* What a block that executes could pay                                     *)

\* The transaction adds to what a holds.
Income(tx, a) ==
  \/ tx.op \in Payments /\ tx.to = a /\ tx.from # a
  \/ tx.op = "VALIDATOR_EXIT" /\ tx.from = a

\* A payment that goes through is positive and covered by what its sender holds.
LEMMA PaymentGoesThrough ==
  ASSUME NEW s, IsLedger(s), NEW tx, FullyTyped(tx), NEW idx, tx.op \in Payments,
         ApplyTransaction(s, tx, idx).ok
  PROVE  /\ tx.amt > 0
         /\ tx.from # NoAcct => s.bal[tx.from] >= tx.amt + tx.fee
<1> DEFINE r == [s EXCEPT !.con = Execute(@, tx)]
<1>1. ApplyTransaction(s, tx, idx) = ApplyCall(s, tx)
  BY DEF ApplyTransaction, Payments
<1>2. /\ s \in [ok : {s.ok}, bal : {s.bal}, con : {s.con}, reg : {s.reg}]
      /\ ~Refused(s).ok
  BY LedgerFields DEF Refused
<1>3. ApplyTransaction(s, tx, idx) = ApplyPayment(r, tx)
  BY <1>1, <1>2 DEF ApplyCall
<1>4. r.bal = s.bal /\ ~Refused(r).ok
  BY <1>2 DEF Refused
<1> HIDE DEF r
<1>5. CASE tx.from = NoAcct
  BY <1>3, <1>4, <1>5 DEF ApplyPayment, Credit
<1>6. CASE tx.from # NoAcct
  BY <1>3, <1>4, <1>6 DEF ApplyPayment, Transfer
<1>7. QED
  BY <1>5, <1>6

\* What a transfer does to an account that it does not pay.
LEMMA TransferPaysNoMore ==
  ASSUME NEW s, IsLedger(s), NEW from \in Acct, NEW to \in Acct, NEW amt \in Nat,
         NEW fee \in Nat, NEW a \in Acct, to # a \/ from = a
  PROVE  Transfer(s, from, to, amt, fee).bal[a] <= s.bal[a]
<1>1. /\ s \in [ok : {s.ok}, bal : {s.bal}, con : {s.con}, reg : {s.reg}]
      /\ s.bal \in [Acct -> 0 .. MaxMoney] /\ \A x \in Acct : s.bal[x] \in Int
  BY LedgerFields, StateConstants DEF InColumn, StateConstants
<1>2. CASE Transfer(s, from, to, amt, fee) = Refused(s)
  BY <1>1, <1>2 DEF Refused
<1>3. CASE Transfer(s, from, to, amt, fee) = Moved(s, from, to, amt, amt + fee)
  <2> DEFINE paid == [s.bal EXCEPT ![from] = @ - (amt + fee)]
  <2>1. Moved(s, from, to, amt, amt + fee).bal = [paid EXCEPT ![to] = @ + amt]
    BY <1>1 DEF Moved
  <2>2. /\ DOMAIN paid = Acct /\ paid[from] = s.bal[from] - (amt + fee)
        /\ \A x \in Acct : x # from => paid[x] = s.bal[x]
    BY <1>1
  <2> HIDE DEF paid
  <2>3. CASE to # a
    <3>1. [paid EXCEPT ![to] = @ + amt][a] = paid[a]
      BY <2>2, <2>3
    <3>2. paid[a] <= s.bal[a]
      BY <1>1, <2>2
    <3>3. QED
      BY <1>3, <2>1, <3>1, <3>2
  <2>4. CASE to = a /\ from = a
    <3>1. [paid EXCEPT ![to] = @ + amt][a] = paid[a] + amt
      BY <2>2, <2>4
    <3>2. paid[a] + amt <= s.bal[a]
      BY <1>1, <2>2, <2>4
    <3>3. QED
      BY <1>3, <2>1, <3>1, <3>2
  <2>5. QED
    BY <2>3, <2>4
<1>4. QED
  BY <1>2, <1>3 DEF Transfer

\* A transaction that is no income of an account leaves it no richer.
LEMMA NoIncomeNoMore ==
  ASSUME NEW s, IsLedger(s), NEW tx, FullyTyped(tx), NEW idx, NEW a \in Acct, ~Income(tx, a)
  PROVE  ApplyTransaction(s, tx, idx).bal[a] <= s.bal[a]
<1>1. /\ s \in [ok : {s.ok}, bal : {s.bal}, con : {s.con}, reg : {s.reg}]
      /\ \A x \in Acct : s.bal[x] \in Int
      /\ Refused(s).bal = s.bal /\ s.bal[a] <= s.bal[a]
  BY LedgerFields, StateConstants DEF InColumn, StateConstants, Refused
<1>2. CASE tx.op = "VALIDATOR_EXIT"
  <2>1. ApplyTransaction(s, tx, idx) = ApplyExit(s, tx, idx)
    BY <1>2 DEF ApplyTransaction, Payments
  <2>2. CASE ApplyExit(s, tx, idx) \in {s, Refused(s)}
    BY <1>1, <2>1, <2>2
  <2>3. CASE ApplyExit(s, tx, idx) \notin {s, Refused(s)}
    <3>1. tx.from \in DOMAIN s.reg.validators
          /\ ApplyExit(s, tx, idx) = Transfer(s, tx.to, tx.from, Stake, 0)
      BY <2>3 DEF ApplyExit
    <3>2. tx.from \in Acct /\ tx.to \in Acct /\ Stake \in Nat /\ 0 \in Nat /\ tx.from # a
      BY <1>2, <3>1, RegistryConstants, LedgerFields, RegistryFields
         DEF RegistryConstants, FullyTyped, Typed, IsMap, Income
    <3>3. QED
      BY <2>1, <3>1, <3>2, TransferPaysNoMore
  <2>4. QED
    BY <2>2, <2>3
<1>3. CASE tx.op \in {"VALIDATOR_UPDATE", "VALIDATOR_SLASH"}
  BY <1>1, <1>3 DEF ApplyTransaction, Payments
<1>4. CASE tx.op = "VALIDATOR_GOVERNANCE_EXIT"
  <2>1. ApplyTransaction(s, tx, idx) = ApplyGovernanceExit(s, tx, idx)
    BY <1>4 DEF ApplyTransaction, Payments
  <2>2. [s EXCEPT !.reg = ExecuteGovernanceExit(@, tx.target, idx)].bal = s.bal
    BY <1>1
  <2>3. QED
    BY <1>1, <2>1, <2>2 DEF ApplyGovernanceExit
<1>5. CASE tx.op \in Payments
  <2> DEFINE r == [s EXCEPT !.con = Execute(@, tx)]
  <2>1. ApplyTransaction(s, tx, idx) = ApplyCall(s, tx)
    BY <1>5 DEF ApplyTransaction, Payments
  <2>2. ApplyCall(s, tx) \in {Refused(s), ApplyPayment(r, tx)}
    BY DEF ApplyCall
  <2>3. r.bal = s.bal /\ IsLedger(r)
    <3>1. /\ r \in [ok : {s.ok}, bal : {s.bal}, con : {r.con}, reg : {s.reg}]
          /\ r.ok = s.ok /\ r.bal = s.bal /\ r.reg = s.reg
      BY <1>1
    <3> HIDE DEF r
    <3>2. IsLedger(r)
      BY <3>1, LedgerFields
    <3>3. QED
      BY <3>1, <3>2
  <2> HIDE DEF r
  <2>4. /\ tx.to \in Acct /\ tx.amt \in Nat /\ tx.fee \in Nat
        /\ tx.from \in Acct \cup {NoAcct} /\ (tx.to # a \/ tx.from = a)
        /\ NoAcct \notin Acct
    BY <1>5, RegistryConstants DEF RegistryConstants, FullyTyped, Typed, Income
  <2>5. CASE tx.from = NoAcct
    <3>1. tx.to # a
      BY <2>4, <2>5
    <3>2. r \in [ok : {r.ok}, bal : {r.bal}, con : {r.con}, reg : {r.reg}]
          /\ r.bal \in [Acct -> 0 .. MaxMoney]
      BY <2>3, LedgerFields DEF InColumn
    <3>3. Credit(r, tx.to, tx.amt).bal[a] = r.bal[a]
      BY <2>4, <3>1, <3>2 DEF Credit, Refused
    <3>4. ApplyPayment(r, tx) = Credit(r, tx.to, tx.amt)
      BY <2>5 DEF ApplyPayment
    <3>5. QED
      BY <1>1, <2>1, <2>2, <2>3, <3>3, <3>4
  <2>6. CASE tx.from # NoAcct
    <3>1. Transfer(r, tx.from, tx.to, tx.amt, tx.fee).bal[a] <= r.bal[a]
      BY <2>3, <2>4, <2>6, TransferPaysNoMore
    <3>2. ApplyPayment(r, tx) = Transfer(r, tx.from, tx.to, tx.amt, tx.fee)
      BY <2>6 DEF ApplyPayment
    <3>3. QED
      BY <1>1, <2>1, <2>2, <2>3, <3>1, <3>2
  <2>7. QED
    BY <2>5, <2>6
<1>6. QED
  BY <1>2, <1>3, <1>4, <1>5 DEF FullyTyped, Typed

\* The transactions of a block that goes through are all positive payments, or none;
\* and a payment whose sender earned nothing in the block before it was covered when
\* the block began.
LEMMA BlockGoesThrough ==
  ASSUME NEW V, NEW txs \in Seq(V), AllTyped(txs), NEW s, IsLedger(s), NEW idx,
         ApplyAll(s, txs, idx).ok, NEW i \in DOMAIN txs, txs[i].op \in Payments
  PROVE  /\ txs[i].amt > 0
         /\ txs[i].from # NoAcct /\ (\A j \in 1 .. i - 1 : ~Income(txs[j], txs[i].from))
              => s.bal[txs[i].from] >= txs[i].amt + txs[i].fee
<1> DEFINE At(n) == ApplyAll(s, First(n, txs), idx)
           tx == txs[i]
           a  == tx.from
<1>0. Len(txs) \in Nat /\ DOMAIN txs = 1 .. Len(txs) /\ i \in 1 .. Len(txs)
  BY FirstNone
<1>1. At(0) = s
      /\ \A n \in Nat : n < Len(txs) => At(n + 1) = ApplyStep(At(n), txs[n + 1], idx)
  BY NoneYet, ApplyMore
<1>2. \A n \in 0 .. Len(txs) : IsLedger(At(n)) /\ At(n).ok
  <2>1. ASSUME NEW n \in 0 .. Len(txs) PROVE IsLedger(At(n))
    <3> DEFINE some == First(n, txs)
    <3>1. some \in Seq(V) /\ \A k \in DOMAIN some : k \in DOMAIN txs /\ some[k] = txs[k]
      BY <1>0 DEF First
    <3> HIDE DEF some
    <3>2. AllTyped(some)
      BY <3>1 DEF AllTyped
    <3>3. IsLedger(ApplyAll(s, some, idx))
      BY <3>1, <3>2, ApplyAllShape
    <3>4. QED
      BY <3>3 DEF some
  <2>2. \A n \in 0 .. Len(txs) : At(n).ok
    BY ApplyAllOk
  <2>3. QED
    BY <2>1, <2>2
<1> HIDE DEF At
<1>3. PICK m \in Nat : m + 1 = i /\ m < Len(txs) /\ m \in 0 .. Len(txs) /\ m + 1 \in 0 .. Len(txs)
  <2>1. i - 1 \in Nat /\ (i - 1) + 1 = i
    BY <1>0
  <2>2. QED
    BY <1>0, <2>1
<1>4. ASSUME NEW n \in Nat, n < Len(txs)
      PROVE  At(n + 1) = ApplyTransaction(At(n), txs[n + 1], idx) /\ FullyTyped(txs[n + 1])
  <2>1. n \in 0 .. Len(txs) /\ n + 1 \in DOMAIN txs
    BY <1>0, <1>4
  <2>2. QED
    BY <1>1, <1>2, <1>4, <2>1 DEF ApplyStep, AllTyped
<1>5. /\ tx.amt > 0 /\ FullyTyped(tx)
      /\ a # NoAcct => At(m).bal[a] >= tx.amt + tx.fee
  <2>1. /\ At(m + 1) = ApplyTransaction(At(m), tx, idx) /\ FullyTyped(tx)
        /\ IsLedger(At(m)) /\ At(m + 1).ok
    BY <1>2, <1>3, <1>4
  <2> HIDE DEF tx
  <2>2. tx.op \in Payments
    BY DEF tx
  <2>3. QED
    BY <2>1, <2>2, PaymentGoesThrough
<1>6. ASSUME a # NoAcct, \A j \in 1 .. i - 1 : ~Income(txs[j], a)
      PROVE  s.bal[a] >= tx.amt + tx.fee
  <2> DEFINE T == {n \in Nat : n <= m => At(n).bal[a] <= s.bal[a]}
  <2>1. a \in Acct /\ tx.amt \in Int /\ tx.fee \in Int
    BY <1>5, <1>6 DEF FullyTyped, Typed
  <2> HIDE DEF a, tx
  <2>2. \A n \in 0 .. Len(txs) : At(n).bal[a] \in Int
    BY <1>2, <2>1, LedgerFields, StateConstants DEF InColumn, StateConstants
  <2>3. s.bal[a] \in Int
    BY <1>0, <1>1, <2>2
  <2>4. 0 \in T
    BY <1>1, <2>3
  <2>5. ASSUME NEW n \in Nat, n < m, n \in T PROVE n + 1 \in T
    <3>1. /\ n < Len(txs) /\ n \in 0 .. Len(txs) /\ n + 1 \in 0 .. Len(txs)
          /\ n + 1 \in 1 .. i - 1 /\ n <= m
      BY <1>0, <1>3, <2>5
    <3>2. At(n + 1).bal[a] <= At(n).bal[a]
      BY <1>2, <1>4, <1>6, <2>1, <3>1, NoIncomeNoMore
    <3>3. At(n).bal[a] <= s.bal[a]
      BY <2>5, <3>1
    <3>4. At(n + 1).bal[a] <= s.bal[a]
      BY <2>2, <2>3, <3>1, <3>2, <3>3
    <3>5. QED
      BY <3>4
  <2>6. m \in T
    <3> HIDE DEF T
    <3>1. QED
      BY <1>3, <2>4, <2>5, UpTo
  <2>7. At(m).bal[a] <= s.bal[a] /\ m <= m
    BY <1>3, <2>6
  <2>8. At(m).bal[a] >= tx.amt + tx.fee
    BY <1>5, <1>6 DEF a
  <2>9. QED
    BY <1>3, <2>1, <2>2, <2>3, <2>7, <2>8
<1>7. QED
  BY <1>5, <1>6

-----------------------------------------------------------------------------
(* The log of blocks                                                        *)

Running  == {"idle", "snapshot", "extend"}
Rebuilds == {"clear", "restore", "replay"}

\* A chain from genesis in which no transaction comes twice
GoodLog(s) ==
  /\ s \in Seq(Known) /\ s # <<>>
  /\ s[1] = Genesis
  /\ \A i \in 2 .. Len(s) : s[i].idx = i - 1 /\ s[i].prev = s[i - 1].hash
  /\ \A i, j \in DOMAIN s : i < j => SenderIds(s[i]) \cap SenderIds(s[j]) = {}

Shapes ==
  /\ chain \in Seq(Known) /\ kept \in Seq(Known) /\ todo \in Seq(Known)
  /\ phase \in Phases

Table == stored = Rows(StoredChain) /\ GoodLog(StoredChain)

SnapshotRows == \A i \in DOMAIN snapshots : i \in Nat /\ snapshots[i].idx = i

\* What each phase has at hand
AtHand ==
  /\ phase \in Running => chain # <<>> /\ confirmed = Ids(chain)
  /\ phase \in Rebuilds => kept # <<>>
  /\ phase = "extend" => todo # <<>>
  /\ phase = "replay" =>
       Len(chain) \in 1 .. Len(kept) /\ chain = SubSeq(kept, 1, Len(chain))

IInv ==
  /\ Shapes
  /\ Table
  /\ DiskHoldsChain
  /\ SnapshotRows
  /\ AtHand

-----------------------------------------------------------------------------
(* Logs and their tables                                                    *)

\* The table of a log has a row for each of its blocks.
LEMMA RowsOfLog ==
  ASSUME NEW s \in Seq(Known), s # <<>>
  PROVE  /\ Len(s) \in Nat \ {0}
         /\ Rows(s) \in [0 .. Len(s) - 1 -> Known]
         /\ DOMAIN Rows(s) = 0 .. Len(s) - 1
         /\ Cardinality(DOMAIN Rows(s)) = Len(s)
<1>1. Len(s) \in Nat \ {0}
  BY EmptySeq
<1>2. /\ Rows(s) \in [0 .. Len(s) - 1 -> Known]
      /\ DOMAIN Rows(s) = 0 .. Len(s) - 1
  <2>1. \A i \in 0 .. Len(s) - 1 : s[i + 1] \in Known
    BY <1>1, ElementOfSeq
  <2>2. QED
    BY <2>1 DEF Rows
<1>3. Cardinality(0 .. Len(s) - 1) = Len(s)
  BY <1>1, FS_Interval
<1>4. QED
  BY <1>1, <1>2, <1>3

\* Reading the table of a log gives the log.
LEMMA ReadBack ==
  ASSUME NEW s \in Seq(Known), s # <<>>, stored = Rows(s)
  PROVE  StoredChain = s
<1>1. StoredChain = [i \in 1 .. Len(s) |-> Rows(s)[i - 1]]
  BY RowsOfLog DEF StoredChain
<1>2. \A i \in 1 .. Len(s) : Rows(s)[i - 1] = s[i]
  BY RowsOfLog DEF Rows
<1>3. s = [i \in 1 .. Len(s) |-> s[i]]
  OBVIOUS
<1>4. QED
  BY <1>1, <1>2, <1>3

\* The same for the table and the log after a step.
LEMMA ReadBackNext ==
  ASSUME NEW s \in Seq(Known), s # <<>>, stored' = Rows(s)
  PROVE  StoredChain' = s
<1>1. StoredChain' = [i \in 1 .. Len(s) |-> Rows(s)[i - 1]]
  BY RowsOfLog DEF StoredChain
<1>2. \A i \in 1 .. Len(s) : Rows(s)[i - 1] = s[i]
  BY RowsOfLog DEF Rows
<1>3. s = [i \in 1 .. Len(s) |-> s[i]]
  OBVIOUS
<1>4. QED
  BY <1>1, <1>2, <1>3

\* A block that follows the last one, with new transactions, extends a good log.
LEMMA GoodAppend ==
  ASSUME NEW s, GoodLog(s), NEW b \in Known,
         b.idx = Last(s).idx + 1, b.prev = Last(s).hash,
         SenderIds(b) \cap Ids(s) = {}
  PROVE  /\ b.idx = Len(s)
         /\ GoodLog(Append(s, b))
         /\ Ids(Append(s, b)) = Ids(s) \cup SenderIds(b)
         /\ Put(Rows(s), b.idx, b) = Rows(Append(s, b))
<1> DEFINE t == Append(s, b)
<1>1. Len(s) \in Nat \ {0} /\ s \in Seq(Known)
  BY EmptySeq DEF GoodLog
<1>2. /\ t \in Seq(Known) /\ t # <<>> /\ Len(t) = Len(s) + 1
      /\ \A i \in 1 .. Len(s) : t[i] = s[i]
      /\ t[Len(t)] = b
  BY <1>1
<1>3. b.idx = Len(s)
  <2>1. CASE Len(s) = 1
    BY <2>1, ChainConstants DEF GoodLog, Last, ChainConstants
  <2>2. CASE Len(s) # 1
    <3>1. \A n \in Nat \ {0} : n # 1 => n \in 2 .. n
      OBVIOUS
    <3>2. Len(s) \in 2 .. Len(s)
      BY <1>1, <2>2, <3>1, Zenon
    <3>3. Last(s).idx = Len(s) - 1
      BY <3>2 DEF GoodLog, Last
    <3>4. QED
      BY <1>1, <3>3
  <2>3. QED
    BY <2>1, <2>2
<1>4. \A i \in 2 .. Len(t) : t[i].idx = i - 1 /\ t[i].prev = t[i - 1].hash
  BY <1>1, <1>2, <1>3 DEF GoodLog, Last
<1>5. \A i \in DOMAIN s : SenderIds(s[i]) \subseteq Ids(s)
  BY DEF Ids
<1>6. \A i, j \in DOMAIN t : i < j => SenderIds(t[i]) \cap SenderIds(t[j]) = {}
  <2> SUFFICES ASSUME NEW i \in 1 .. Len(s) + 1, NEW j \in 1 .. Len(s) + 1, i < j
               PROVE  SenderIds(t[i]) \cap SenderIds(t[j]) = {}
    <3>1. DOMAIN t = 1 .. Len(s) + 1
      BY <1>1, <1>2
    <3>2. QED
      BY <3>1
  <2>1. i \in DOMAIN s /\ t[i] = s[i]
    BY <1>1, <1>2
  <2>2. CASE j = Len(s) + 1
    BY <1>2, <1>5, <2>1, <2>2
  <2>3. CASE j # Len(s) + 1
    BY <1>1, <1>2, <2>1, <2>3 DEF GoodLog
  <2>4. QED
    BY <2>2, <2>3
<1>7. GoodLog(t)
  <2>1. t[1] = Genesis
    BY <1>1, <1>2 DEF GoodLog
  <2>2. QED
    BY <1>2, <1>4, <1>6, <2>1 DEF GoodLog
<1>8. Ids(t) = Ids(s) \cup SenderIds(b)
  <2>1. DOMAIN t = DOMAIN s \cup {Len(s) + 1} /\ DOMAIN s = 1 .. Len(s)
    BY <1>1, <1>2
  <2>2. Ids(t) = (UNION {SenderIds(t[i]) : i \in DOMAIN s}) \cup SenderIds(t[Len(s) + 1])
    BY <2>1 DEF Ids
  <2>3. QED
    BY <1>2, <2>1, <2>2 DEF Ids
<1>9. Put(Rows(s), b.idx, b) = Rows(t)
  <2>1. DOMAIN Put(Rows(s), b.idx, b) = 0 .. Len(s)
    BY <1>1, <1>3, RowsOfLog DEF Put
  <2>2. Rows(t) = [i \in 0 .. Len(s) |-> t[i + 1]]
    BY <1>1, <1>2 DEF Rows
  <2>3. \A i \in 0 .. Len(s) : Put(Rows(s), b.idx, b)[i] = t[i + 1]
    BY <1>1, <1>2, <1>3, RowsOfLog DEF Put, Rows
  <2>4. QED
    BY <2>1, <2>2, <2>3 DEF Put
<1>10. QED
  BY <1>3, <1>7, <1>8, <1>9

\* A prefix of a good log is good, and its table is the table cut after it.
LEMMA GoodPrefix ==
  ASSUME NEW s, GoodLog(s), NEW n \in 1 .. Len(s)
  PROVE  /\ GoodLog(SubSeq(s, 1, n))
         /\ Restrict(Rows(s), {i \in DOMAIN Rows(s) : i <= n - 1})
              = Rows(SubSeq(s, 1, n))
<1> DEFINE t == SubSeq(s, 1, n)
<1>1. Len(s) \in Nat \ {0} /\ s \in Seq(Known) /\ s # <<>> /\ n \in Nat \ {0}
  BY EmptySeq DEF GoodLog
<1>2. /\ t \in Seq(Known) /\ Len(t) = n
      /\ \A i \in 1 .. n : t[i] = s[i]
  BY <1>1
<1>3. t # <<>>
  BY <1>1, <1>2
<1>4. GoodLog(t)
  <2> HIDE DEF t
  <2>1. t[1] = Genesis /\ DOMAIN t = 1 .. n /\ DOMAIN s = 1 .. Len(s)
    BY <1>1, <1>2 DEF GoodLog
  <2>2. \A i \in 2 .. n : i \in 2 .. Len(s) /\ t[i] = s[i] /\ t[i - 1] = s[i - 1]
    BY <1>1, <1>2
  <2>3. \A i \in 2 .. Len(t) : t[i].idx = i - 1 /\ t[i].prev = t[i - 1].hash
    BY <1>1, <1>2, <2>2 DEF GoodLog
  <2>4. \A i, j \in DOMAIN t : i < j => SenderIds(t[i]) \cap SenderIds(t[j]) = {}
    <3>1. \A i \in DOMAIN t : i \in DOMAIN s /\ t[i] = s[i]
      BY <1>1, <1>2, <2>1
    <3>2. QED
      BY <3>1 DEF GoodLog
  <2>5. QED
    BY <1>2, <1>3, <2>1, <2>3, <2>4 DEF GoodLog
<1>5. {i \in DOMAIN Rows(s) : i <= n - 1} = 0 .. n - 1
  BY <1>1, RowsOfLog
<1>6. Restrict(Rows(s), 0 .. n - 1) = Rows(t)
  <2>1. \A i \in 0 .. n - 1 : Rows(s)[i] = t[i + 1]
    BY <1>1, <1>2 DEF Rows
  <2>2. QED
    BY <1>2, <2>1 DEF Restrict, Rows
<1>7. QED
  BY <1>4, <1>5, <1>6


\* A table that is the table of a good log is a good table.
LEMMA TableNext ==
  ASSUME NEW s, GoodLog(s), stored' = Rows(s)
  PROVE  Table' /\ StoredChain' = s
<1>1. s \in Seq(Known) /\ s # <<>>
  BY DEF GoodLog
<1>2. StoredChain' = s
  BY <1>1, ReadBackNext
<1>3. QED
  BY <1>2 DEF Table

\* A table that a step leaves alone stays good.
LEMMA TableStays ==
  ASSUME Table, stored' = stored
  PROVE  Table' /\ StoredChain' = StoredChain
BY DEF Table, StoredChain

\* Between operations the log is the chain in RAM, and while a rollback runs it
\* is the blocks to keep.
LEMMA LogAtHand ==
  ASSUME IInv
  PROVE  /\ phase \in Running  => StoredChain = chain /\ GoodLog(chain)
         /\ phase \in Rebuilds => StoredChain = kept /\ GoodLog(kept)
<1>1. ASSUME phase \in Running PROVE StoredChain = chain /\ GoodLog(chain)
  <2>1. chain \in Seq(Known) /\ chain # <<>> /\ stored = Rows(chain)
    BY <1>1 DEF IInv, Shapes, AtHand, DiskHoldsChain, Running
  <2>2. StoredChain = chain
    BY <2>1, ReadBack
  <2>3. QED
    BY <2>2 DEF IInv, Table
<1>2. ASSUME phase \in Rebuilds PROVE StoredChain = kept /\ GoodLog(kept)
  <2>1. kept \in Seq(Known) /\ kept # <<>> /\ stored = Rows(kept)
    BY <1>2 DEF IInv, Shapes, AtHand, DiskHoldsChain, Rebuilds
  <2>2. StoredChain = kept
    BY <2>1, ReadBack
  <2>3. QED
    BY <2>2 DEF IInv, Table
<1>3. QED
  BY <1>1, <1>2

\* The phase after an operation is extend only when blocks are left to add.
LEMMA ThenExtend ==
  ASSUME NEW rest
  PROVE  Then(rest) \in {"idle", "extend"} /\ (Then(rest) = "extend" => rest # <<>>)
BY DEF Then

-----------------------------------------------------------------------------
(* What each action keeps                                                   *)

\* Adding a block that passes the checks of add_block.
LEMMA CommitKeeps ==
  ASSUME IInv, phase \in {"idle", "extend"},
         NEW b \in Known, NEW rest \in Seq(Known), NEW full,
         Adds(node, b, now, full), Commit(b, rest)
  PROVE  IInv'
<1>1. GoodLog(chain) /\ confirmed = Ids(chain) /\ stored = Rows(chain)
  BY LogAtHand DEF Running, IInv, AtHand, DiskHoldsChain
<1>2. /\ b.idx = Last(chain).idx + 1 /\ b.prev = Last(chain).hash
      /\ SenderIds(b) \cap Ids(chain) = {}
  BY <1>1 DEF Adds, Accepts, Follows, AllNew, node
<1>3. /\ chain' = Append(chain, b) /\ confirmed' = confirmed \cup SenderIds(b)
      /\ stored' = Put(stored, b.idx, b)
      /\ phase' \in {"snapshot", Then(rest)}
      /\ todo' = rest /\ kept' = kept /\ snapshots' = snapshots
  BY DEF Commit, After, node
<1>4. /\ GoodLog(chain') /\ confirmed' = Ids(chain') /\ stored' = Rows(chain')
  BY <1>1, <1>2, <1>3, GoodAppend
<1>5. /\ phase' \in Running
      /\ phase' = "extend" => todo' # <<>>
  BY <1>3, ThenExtend DEF Running
<1>6. Shapes'
  BY <1>3, <1>4, <1>5 DEF IInv, Shapes, GoodLog, Phases, Running
<1>7. Table'
  BY <1>4, TableNext
<1>8. DiskHoldsChain'
  BY <1>4, <1>5 DEF DiskHoldsChain, Running
<1>9. SnapshotRows'
  BY <1>3 DEF IInv, SnapshotRows
<1>10. AtHand'
  BY <1>4, <1>5 DEF AtHand, GoodLog, Running, Rebuilds
<1>11. QED
  BY <1>6, <1>7, <1>8, <1>9, <1>10 DEF IInv

\* Saving a snapshot of the tip.
LEMMA SaveSnapshotKeeps ==
  ASSUME IInv, SaveSnapshot
  PROVE  IInv'
<1>1. GoodLog(chain) /\ confirmed = Ids(chain) /\ stored = Rows(chain)
  BY LogAtHand DEF SaveSnapshot, Running, IInv, AtHand, DiskHoldsChain
<1>2. /\ phase' = Then(todo)
      /\ chain' = chain /\ confirmed' = confirmed /\ stored' = stored
      /\ kept' = kept /\ todo' = todo
  BY DEF SaveSnapshot, ram
<1>3. /\ phase' \in Running
      /\ phase' = "extend" => todo' # <<>>
  BY <1>2, ThenExtend DEF Running
<1>4. Shapes' /\ Table' /\ DiskHoldsChain'
  BY <1>1, <1>2, <1>3, TableStays
     DEF IInv, Shapes, Phases, Running, DiskHoldsChain
<1>5. SnapshotRows'
  <2>1. Tip \in Nat
    BY <1>1, EmptySeq DEF Tip, GoodLog
  <2>2. PICK snap : snap.idx = Tip /\ snapshots' = Put(snapshots, Tip, snap)
    BY DEF SaveSnapshot
  <2>3. QED
    BY <2>1, <2>2 DEF IInv, SnapshotRows, Put
<1>6. AtHand'
  BY <1>1, <1>2, <1>3 DEF AtHand, GoodLog, Running, Rebuilds
<1>7. QED
  BY <1>4, <1>5, <1>6 DEF IInv

\* The first commit of a rollback.
LEMMA StartRollbackKeeps ==
  ASSUME IInv, phase = "idle", NEW target \in Int, NEW branch \in Seq(Known),
         StartRollback(target, branch)
  PROVE  IInv'
<1>1. GoodLog(chain) /\ stored = Rows(chain)
  BY LogAtHand DEF Running, IInv, DiskHoldsChain
<1>2. target + 1 \in 1 .. Len(chain)
  BY <1>1, EmptySeq DEF StartRollback, Tip, GoodLog
<1>3. /\ stored' = Restrict(stored, {i \in DOMAIN stored : i <= target})
      /\ kept' = SubSeq(chain, 1, target + 1)
      /\ todo' = branch /\ phase' = "clear"
      /\ chain' = chain /\ confirmed' = confirmed /\ snapshots' = snapshots
  BY DEF StartRollback, ram
<1>4. GoodLog(kept') /\ stored' = Rows(kept')
  <2>1. target = (target + 1) - 1
    OBVIOUS
  <2>2. QED
    BY <1>1, <1>2, <1>3, <2>1, GoodPrefix
<1>5. Shapes' /\ SnapshotRows'
  BY <1>3, <1>4 DEF IInv, Shapes, SnapshotRows, GoodLog, Phases
<1>6. Table' /\ DiskHoldsChain'
  BY <1>3, <1>4, TableNext DEF DiskHoldsChain
<1>7. AtHand'
  BY <1>3, <1>4 DEF AtHand, GoodLog, Running, Rebuilds
<1>8. QED
  BY <1>5, <1>6, <1>7 DEF IInv

\* The commit that empties the state.
LEMMA ClearStateKeeps ==
  ASSUME IInv, ClearState
  PROVE  IInv'
<1>1. GoodLog(kept) /\ stored = Rows(kept)
  BY LogAtHand DEF ClearState, Rebuilds, IInv, DiskHoldsChain
<1>2. /\ chain' = <<>> /\ phase' = "restore"
      /\ stored' = stored /\ snapshots' = snapshots
      /\ kept' = kept /\ todo' = todo
  BY DEF ClearState
<1>3. <<>> \in Seq(Known)
  OBVIOUS
<1>4. Shapes' /\ SnapshotRows'
  BY <1>2, <1>3 DEF IInv, Shapes, SnapshotRows, Phases
<1>5. Table' /\ DiskHoldsChain'
  BY <1>1, <1>2, TableStays DEF IInv, DiskHoldsChain
<1>6. AtHand'
  BY <1>1, <1>2 DEF AtHand, GoodLog, Running, Rebuilds
<1>7. QED
  BY <1>4, <1>5, <1>6 DEF IInv

\* A rollback starts its replay from a prefix of the blocks it keeps.
LEMMA BaseIsPrefix ==
  ASSUME NEW s \in Seq(Known), s # <<>>, SnapshotRows
  PROVE  /\ Len(Base(s).chain) \in 1 .. Len(s)
         /\ Base(s).chain = SubSeq(s, 1, Len(Base(s).chain))
<1>1. Len(s) \in Nat \ {0}
  BY EmptySeq
<1>2. CASE UsableSnapshot(s) = {}
  <2>1. Base(s).chain = <<s[1]>>
    BY <1>2 DEF Base
  <2>2. SubSeq(s, 1, 1) = <<s[1]>>
    <3>1. /\ SubSeq(s, 1, 1) \in Seq(Known) /\ Len(SubSeq(s, 1, 1)) = 1
          /\ SubSeq(s, 1, 1)[1] = s[1]
      BY <1>1
    <3>2. \A t \in Seq(Known) : Len(t) = 1 => t = <<t[1]>>
      OBVIOUS
    <3>3. QED
      BY <3>1, <3>2
  <2>3. QED
    BY <1>1, <2>1, <2>2
<1>3. CASE UsableSnapshot(s) # {}
  <2>1. PICK i \in UsableSnapshot(s) :
          Base(s).chain = SubSeq(s, 1, snapshots[i].idx + 1)
    BY <1>3 DEF Base
  <2>2. i \in DOMAIN snapshots /\ i < Len(s) /\ i \in Nat /\ snapshots[i].idx = i
    BY <2>1 DEF UsableSnapshot, LatestSnapshot, SnapshotRows
  <2>3. i + 1 \in 1 .. Len(s)
    BY <1>1, <2>2
  <2>4. Len(SubSeq(s, 1, i + 1)) = i + 1
    BY <1>1, <2>3
  <2>5. QED
    BY <2>1, <2>2, <2>3, <2>4
<1>4. QED
  BY <1>2, <1>3

\* The commit that restores a snapshot or starts from genesis.
LEMMA RestoreKeeps ==
  ASSUME IInv, Restore
  PROVE  IInv'
<1>1. GoodLog(kept) /\ stored = Rows(kept)
  BY LogAtHand DEF Restore, Rebuilds, IInv, DiskHoldsChain
<1>2. /\ chain' = Base(kept).chain /\ phase' = "replay"
      /\ stored' = stored /\ snapshots' = snapshots
      /\ kept' = kept /\ todo' = todo
  BY DEF Restore
<1>3. Len(chain') \in 1 .. Len(kept) /\ chain' = SubSeq(kept, 1, Len(chain'))
  BY <1>1, <1>2, BaseIsPrefix DEF IInv, GoodLog
<1>4. chain' \in Seq(Known)
  BY <1>1, <1>3, GoodPrefix DEF GoodLog
<1>5. Shapes' /\ SnapshotRows'
  BY <1>2, <1>4 DEF IInv, Shapes, SnapshotRows, Phases
<1>6. Table' /\ DiskHoldsChain'
  BY <1>1, <1>2, TableStays DEF IInv, DiskHoldsChain
<1>7. AtHand'
  BY <1>1, <1>2, <1>3 DEF AtHand, GoodLog, Running, Rebuilds
<1>8. QED
  BY <1>5, <1>6, <1>7 DEF IInv

\* Executing one of the kept blocks again.
LEMMA ReplayKeeps ==
  ASSUME IInv, Replay
  PROVE  IInv'
<1>1. GoodLog(kept) /\ stored = Rows(kept)
  BY LogAtHand DEF Replay, Rebuilds, IInv, DiskHoldsChain
<1>2. /\ chain' = Append(chain, kept[Len(chain) + 1]) /\ phase' = "replay"
      /\ stored' = stored /\ snapshots' = snapshots
      /\ kept' = kept /\ todo' = todo
      /\ Len(chain) < Len(kept)
  BY DEF Replay, job
<1>3. /\ chain \in Seq(Known) /\ kept \in Seq(Known)
      /\ Len(chain) \in 1 .. Len(kept) /\ chain = SubSeq(kept, 1, Len(chain))
  BY DEF IInv, Shapes, AtHand, Replay
<1>4. Len(chain) + 1 \in 1 .. Len(kept) /\ kept[Len(chain) + 1] \in Known
  BY <1>2, <1>3, ElementOfSeq
<1>5. chain' \in Seq(Known) /\ Len(chain') = Len(chain) + 1
  BY <1>2, <1>3, <1>4
<1>6. chain' = SubSeq(kept, 1, Len(chain'))
  <2>1. SubSeq(kept, 1, Len(chain) + 1)
          = Append(SubSeq(kept, 1, Len(chain)), kept[Len(chain) + 1])
    BY <1>3, <1>4
  <2>2. QED
    BY <1>2, <1>3, <1>5, <2>1
<1>7. Shapes' /\ SnapshotRows'
  BY <1>2, <1>5 DEF IInv, Shapes, SnapshotRows, Phases
<1>8. Table' /\ DiskHoldsChain'
  BY <1>1, <1>2, TableStays DEF IInv, DiskHoldsChain
<1>9. AtHand'
  BY <1>1, <1>2, <1>4, <1>5, <1>6 DEF AtHand, GoodLog, Running, Rebuilds
<1>10. QED
  BY <1>7, <1>8, <1>9 DEF IInv

\* The end of a rollback: the confirmed transactions are collected again.
LEMMA FinishRollbackKeeps ==
  ASSUME IInv, FinishRollback
  PROVE  IInv'
<1>1. GoodLog(kept) /\ stored = Rows(kept)
  BY LogAtHand DEF FinishRollback, Rebuilds, IInv, DiskHoldsChain
<1>2. /\ chain' = chain /\ phase' = Then(todo) /\ confirmed' = Ids(chain)
      /\ stored' = stored /\ snapshots' = snapshots
      /\ kept' = <<>> /\ todo' = todo
  BY DEF FinishRollback, disk
<1>3. chain = kept
  <2>1. /\ chain \in Seq(Known) /\ kept \in Seq(Known)
        /\ Len(chain) = Len(kept) /\ chain = SubSeq(kept, 1, Len(kept))
    BY DEF IInv, Shapes, AtHand, FinishRollback
  <2>2. QED
    BY <2>1
<1>4. phase' \in Running /\ (phase' = "extend" => todo' # <<>>)
  BY <1>2, ThenExtend DEF Running
<1>5. Shapes' /\ SnapshotRows'
  BY <1>2, <1>4 DEF IInv, Shapes, SnapshotRows, Phases, Running
<1>6. Table' /\ DiskHoldsChain'
  BY <1>1, <1>2, <1>3, <1>4, TableStays DEF IInv, DiskHoldsChain, Running
<1>7. AtHand'
  BY <1>1, <1>2, <1>3, <1>4 DEF AtHand, GoodLog, Running, Rebuilds
<1>8. QED
  BY <1>5, <1>6, <1>7 DEF IInv

\* What replace_chain adds is made of blocks, and what it keeps is counted.
LEMMA CandidateShape ==
  ASSUME NEW offer \in Offers, chain \in Seq(Known), offer.base <= Len(chain)
  PROVE  /\ Candidate(offer) \in Seq(Known)
         /\ CommonLength(Candidate(offer)) \in Nat
         /\ SubSeq(Candidate(offer), CommonLength(Candidate(offer)) + 1,
                   Len(Candidate(offer))) \in Seq(Known)
<1> DEFINE cand   == Candidate(offer)
           common == CommonLength(cand)
<1>1. offer.base \in Nat /\ offer.blocks \in Seq(Known) /\ Len(chain) \in Nat
  BY ChainConstants DEF ChainConstants, Known
<1>2. cand \in Seq(Known)
  <2>1. SubSeq(chain, 1, offer.base) \in Seq(Known)
    BY <1>1
  <2>2. QED
    BY <1>1, <2>1 DEF Candidate
<1>3. common \in Nat
  <2> DEFINE agreeing == {n \in 1 .. Len(chain) :
                 n <= Len(cand) /\ \A i \in 1 .. n : cand[i].hash = chain[i].hash}
  <2>1. IsFiniteSet(1 .. Len(chain)) /\ agreeing \subseteq 1 .. Len(chain)
    BY <1>1, FS_Interval
  <2>2. Cardinality(agreeing) \in Nat
    BY <2>1, FS_Subset, FS_CardinalityType
  <2>3. QED
    BY <2>2 DEF CommonLength
<1>4. SubSeq(cand, common + 1, Len(cand)) \in Seq(Known)
  <2> HIDE DEF cand, common
  <2>1. Len(cand) \in Nat /\ common + 1 \in Nat \ {0}
    BY <1>2, <1>3
  <2>2. QED
    BY <1>2, <2>1
<1>5. QED
  BY <1>2, <1>3, <1>4

\* The decision of replace_chain, which begins a rollback or goes on to extend.
LEMMA ReplaceChainKeeps ==
  ASSUME IInv, NEW offer \in Offers, ReplaceChain(offer)
  PROVE  IInv'
<1> DEFINE cand   == Candidate(offer)
           common == CommonLength(cand)
           branch == SubSeq(cand, common + 1, Len(cand))
<1>1. common \in Nat /\ branch \in Seq(Known)
  BY CandidateShape DEF ReplaceChain, Adopts, IInv, Shapes
<1>2. phase = "idle"
  BY DEF ReplaceChain
<1>3. CASE common < Len(chain)
  <2>1. StartRollback(common - 1, branch)
    BY <1>3 DEF ReplaceChain
  <2>2. common - 1 \in Int
    BY <1>1
  <2> HIDE DEF branch, common
  <2>3. QED
    BY <1>1, <1>2, <2>1, <2>2, StartRollbackKeeps
<1>4. CASE ~(common < Len(chain))
  <2>1. /\ todo' = branch /\ phase' = Then(branch)
        /\ chain' = chain /\ confirmed' = confirmed
        /\ stored' = stored /\ snapshots' = snapshots /\ kept' = kept
    BY <1>4 DEF ReplaceChain, ram, disk
  <2> HIDE DEF branch
  <2>2. phase' \in {"idle", "extend"} /\ (phase' = "extend" => todo' # <<>>)
    BY <2>1, ThenExtend
  <2>3. Shapes' /\ SnapshotRows'
    BY <1>1, <2>1, <2>2 DEF IInv, Shapes, SnapshotRows, Phases
  <2>4. Table' /\ DiskHoldsChain'
    BY <1>2, <2>1, <2>2, TableStays DEF IInv, DiskHoldsChain
  <2>5. AtHand'
    BY <1>2, <2>1, <2>2 DEF IInv, AtHand, Running, Rebuilds
  <2>6. QED
    BY <2>3, <2>4, <2>5 DEF IInv
<1>5. QED
  BY <1>3, <1>4

\* Adding the next block of an adopted branch.
LEMMA ExtendBranchKeeps ==
  ASSUME IInv, ExtendBranch
  PROVE  IInv'
<1>1. phase = "extend" /\ todo \in Seq(Known) /\ todo # <<>>
  BY DEF ExtendBranch, IInv, Shapes, AtHand
<1>2. todo[1] \in Known /\ Tail(todo) \in Seq(Known)
  BY <1>1, HeadTailProperties
<1>3. Adds(node, todo[1], now, FALSE) /\ Commit(todo[1], Tail(todo))
  BY DEF ExtendBranch
<1>4. QED
  BY <1>1, <1>2, <1>3, CommitKeeps

\* Giving up the rest of a branch.
LEMMA BranchRefusedKeeps ==
  ASSUME IInv, BranchRefused
  PROVE  IInv'
<1>1. /\ phase = "extend" /\ phase' = "idle" /\ todo' = <<>>
      /\ chain' = chain /\ confirmed' = confirmed
      /\ stored' = stored /\ snapshots' = snapshots /\ kept' = kept
  BY DEF BranchRefused, ram, disk
<1>2. <<>> \in Seq(Known)
  OBVIOUS
<1>3. Shapes' /\ SnapshotRows'
  BY <1>1, <1>2 DEF IInv, Shapes, SnapshotRows, Phases
<1>4. Table' /\ DiskHoldsChain'
  BY <1>1, TableStays DEF IInv, DiskHoldsChain
<1>5. AtHand'
  BY <1>1 DEF IInv, AtHand, Running, Rebuilds
<1>6. QED
  BY <1>3, <1>4, <1>5 DEF IInv

\* Death, wherever it comes: the tables of blocks and snapshots stay.
LEMMA DieKeeps ==
  ASSUME IInv, Die, stored' = stored, snapshots' = snapshots
  PROVE  IInv'
<1>1. chain' = <<>> /\ kept' = <<>> /\ todo' = <<>> /\ phase' = "down"
  BY DEF Die
<1>2. <<>> \in Seq(Known)
  OBVIOUS
<1>3. Shapes' /\ SnapshotRows'
  BY <1>1, <1>2 DEF IInv, Shapes, SnapshotRows, Phases
<1>4. Table' /\ DiskHoldsChain'
  BY <1>1, TableStays DEF IInv, DiskHoldsChain
<1>5. AtHand'
  BY <1>1 DEF AtHand, Running, Rebuilds
<1>6. QED
  BY <1>3, <1>4, <1>5 DEF IInv

\* Loading the chain from disk.
LEMMA RestartKeeps ==
  ASSUME IInv, Restart
  PROVE  IInv'
<1>1. GoodLog(StoredChain) /\ stored = Rows(StoredChain)
  BY DEF IInv, Table
<1>2. /\ chain' = StoredChain /\ confirmed' = Ids(StoredChain) /\ phase' = "idle"
      /\ stored' = stored /\ snapshots' = snapshots
      /\ kept' = kept /\ todo' = todo
  BY DEF Restart, Loaded, disk
<1>3. Shapes' /\ SnapshotRows'
  BY <1>1, <1>2 DEF IInv, Shapes, SnapshotRows, GoodLog, Phases
<1>4. Table' /\ DiskHoldsChain'
  BY <1>1, <1>2, TableStays DEF IInv, DiskHoldsChain
<1>5. AtHand'
  BY <1>1, <1>2 DEF AtHand, GoodLog, Running, Rebuilds
<1>6. QED
  BY <1>3, <1>4, <1>5 DEF IInv

-----------------------------------------------------------------------------
(* The theorems                                                             *)

\* The initial state satisfies the inductive invariant.
LEMMA InitKeeps == Init => IInv
<1> SUFFICES ASSUME Init PROVE IInv
  OBVIOUS
<1> DEFINE s == <<Genesis>>
<1>1. s \in Seq(Known) /\ s # <<>> /\ Len(s) = 1 /\ s[1] = Genesis
  BY DEF Known
<1>2. GoodLog(s)
  BY <1>1 DEF GoodLog
<1>3. StoredChain = s
  BY <1>1, ReadBack DEF Init
<1>4. Table
  BY <1>2, <1>3 DEF Table, Init
<1>5. Ids(s) = {}
  <2>1. SenderIds(s[1]) = {}
    BY <1>1, ChainConstants DEF ChainConstants, SenderIds
  <2>2. DOMAIN s = {1}
    BY <1>1
  <2>3. QED
    BY <2>1, <2>2 DEF Ids
<1>6. Shapes /\ SnapshotRows /\ DiskHoldsChain /\ AtHand
  <2>1. <<>> \in Seq(Known) /\ DOMAIN <<>> = {}
    OBVIOUS
  <2>2. Shapes
    BY <1>1, <2>1 DEF Init, Shapes, Phases
  <2>3. SnapshotRows
    BY <2>1 DEF Init, SnapshotRows
  <2>4. DiskHoldsChain
    BY DEF Init, DiskHoldsChain
  <2>5. AtHand
    BY <1>1, <1>5 DEF Init, AtHand, Running, Rebuilds
  <2>6. QED
    BY <2>2, <2>3, <2>4, <2>5
<1>7. QED
  BY <1>4, <1>6 DEF IInv

\* Every step keeps the inductive invariant.
LEMMA NextKeeps == IInv /\ [Next]_vars => IInv'
<1> SUFFICES ASSUME IInv, [Next]_vars PROVE IInv'
  OBVIOUS
<1>1. ASSUME UNCHANGED <<ram, disk, job>> PROVE IInv'
  BY <1>1, TableStays DEF IInv, Shapes, DiskHoldsChain, SnapshotRows, AtHand,
                          ram, disk, job
<1>2. CASE Tick
  BY <1>1, <1>2 DEF Tick
<1>3. ASSUME NEW b \in Blocks, AddBlock(b) PROVE IInv'
  <2>1. b \in Known /\ <<>> \in Seq(Known)
    BY DEF Known
  <2>2. phase = "idle" /\ Adds(node, b, now, TRUE) /\ Commit(b, <<>>)
    BY <1>3 DEF AddBlock
  <2>3. QED
    BY <2>1, <2>2, CommitKeeps
<1>4. CASE SaveSnapshot
  BY <1>4, SaveSnapshotKeeps
<1>5. ASSUME NEW target \in 0 .. Tip, Rollback(target) PROVE IInv'
  <2>1. phase = "idle" /\ StartRollback(target, <<>>) /\ target \in Int
    BY <1>5 DEF Rollback
  <2>2. <<>> \in Seq(Known)
    OBVIOUS
  <2>3. QED
    BY <2>1, <2>2, StartRollbackKeeps
<1>6. CASE ClearState
  BY <1>6, ClearStateKeeps
<1>7. CASE Restore
  BY <1>7, RestoreKeeps
<1>8. CASE Replay
  BY <1>8, ReplayKeeps
<1>9. CASE FinishRollback
  BY <1>9, FinishRollbackKeeps
<1>10. ASSUME NEW offer \in Offers, ReplaceChain(offer) PROVE IInv'
  BY <1>10, ReplaceChainKeeps
<1>11. CASE ExtendBranch
  BY <1>11, ExtendBranchKeeps
<1>12. CASE BranchRefused
  BY <1>12, BranchRefusedKeeps
<1>13. CASE Crash \/ CrashInClear
  BY <1>13, DieKeeps DEF Crash, CrashInClear, disk
<1>14. ASSUME NEW m \in 0 .. MaxTxs, CrashInReplay(m) PROVE IInv'
  BY <1>14, DieKeeps DEF CrashInReplay
<1>15. CASE Restart
  BY <1>15, RestartKeeps
<1>16. CASE UNCHANGED vars
  BY <1>1, <1>16 DEF vars
<1>17. QED
  BY <1>2, <1>3, <1>4, <1>5, <1>6, <1>7, <1>8, <1>9, <1>10, <1>11, <1>12,
     <1>13, <1>14, <1>15, <1>16 DEF Next

\* IInv holds in every state a node can reach.
THEOREM Inductive == Spec => []IInv
<1>1. QED
  BY InitKeeps, NextKeeps, PTL DEF Spec

\* chain.py:504-524, 596. Whatever blocks and branches are offered and
\* wherever the process dies, the table of blocks is a complete chain.
THEOREM TableIsChain == Spec => []StoredIsChain
<1>1. IInv => StoredIsChain
  <2> SUFFICES ASSUME IInv PROVE StoredIsChain
    OBVIOUS
  <2>1. PICK s \in Seq(Known) : GoodLog(s) /\ stored = Rows(s) /\ s # <<>>
    BY DEF IInv, Table, GoodLog
  <2>2. /\ DOMAIN stored = 0 .. Len(s) - 1 /\ Len(s) \in Nat \ {0}
        /\ Cardinality(DOMAIN stored) = Len(s)
    BY <2>1, RowsOfLog
  <2>3. \A i \in 0 .. Len(s) - 1 : stored[i] = s[i + 1]
    BY <2>1 DEF Rows
  <2>4. 0 \in DOMAIN stored /\ stored[0] = Genesis
    BY <2>1, <2>2, <2>3 DEF GoodLog
  <2>5. ASSUME NEW i \in DOMAIN stored \ {0}
        PROVE  stored[i].idx = i /\ stored[i].prev = stored[i - 1].hash
    <3>1. /\ i + 1 \in 2 .. Len(s) /\ i \in Int
          /\ stored[i] = s[i + 1] /\ stored[i - 1] = s[i]
      BY <2>2, <2>3
    <3>2. s[i + 1].idx = (i + 1) - 1 /\ s[i + 1].prev = s[(i + 1) - 1].hash
      BY <2>1, <3>1 DEF GoodLog
    <3>3. QED
      BY <3>1, <3>2
  <2>6. QED
    BY <2>2, <2>4, <2>5 DEF StoredIsChain
<1>2. QED
  BY <1>1, Inductive, PTL

\* chain.py:504-533, 596-643. RAM and the table of blocks agree whenever no
\* rollback is running, and the table holds the kept blocks while one is.
THEOREM TableIsRAM == Spec => []DiskHoldsChain
<1>1. IInv => DiskHoldsChain
  BY DEF IInv
<1>2. QED
  BY <1>1, Inductive, PTL

\* chain.py:474-488, 645-647. No transaction is confirmed twice, on any chain the
\* node can come to hold.
THEOREM NoDoubleConfirmation == Spec => []ConfirmedOnce
<1>1. IInv => ConfirmedOnce
  <2> SUFFICES ASSUME IInv, Idle PROVE ConfirmedOnce
    BY DEF ConfirmedOnce
  <2>1. GoodLog(chain) /\ confirmed = Ids(chain)
    BY LogAtHand DEF Idle, Running, IInv, AtHand
  <2>2. QED
    BY <2>1 DEF ConfirmedOnce, GoodLog
<1>2. QED
  BY <1>1, Inductive, PTL

\* What BoundedReorg says of one step.
DeepRowsStay ==
  phase # "down" =>
    \A i \in DOMAIN stored :
       i + MaxReorg < Cardinality(DOMAIN stored) =>
         i \in DOMAIN stored' /\ stored'[i] = stored[i]

\* Adding a block rewrites no row.
LEMMA CommitAddsARow ==
  ASSUME IInv, phase \in {"idle", "extend"},
         NEW b \in Known, NEW rest, NEW full,
         Adds(node, b, now, full), Commit(b, rest)
  PROVE  DeepRowsStay
<1>1. GoodLog(chain) /\ confirmed = Ids(chain) /\ stored = Rows(chain)
  BY LogAtHand DEF Running, IInv, AtHand, DiskHoldsChain
<1>2. b.idx = Last(chain).idx + 1 /\ b.prev = Last(chain).hash
      /\ SenderIds(b) \cap Ids(chain) = {}
  BY <1>1 DEF Adds, Accepts, Follows, AllNew, node
<1>3. b.idx = Len(chain) /\ DOMAIN stored = 0 .. Len(chain) - 1 /\ Len(chain) \in Nat
  BY <1>1, <1>2, GoodAppend, RowsOfLog DEF GoodLog
<1>4. stored' = Put(stored, b.idx, b)
  BY DEF Commit
<1>5. \A i \in DOMAIN stored : i # b.idx
  BY <1>3
<1>6. QED
  BY <1>4, <1>5 DEF Put, DeepRowsStay

\* A rollback cuts the table above its target, which is not deep.
LEMMA RollbackCutsTheTop ==
  ASSUME IInv, phase = "idle", NEW target \in Int, NEW branch,
         StartRollback(target, branch)
  PROVE  DeepRowsStay
<1>1. GoodLog(chain) /\ stored = Rows(chain)
  BY LogAtHand DEF Running, IInv, DiskHoldsChain
<1>2. /\ DOMAIN stored = 0 .. Len(chain) - 1 /\ Len(chain) \in Nat
      /\ Cardinality(DOMAIN stored) = Len(chain)
  BY <1>1, RowsOfLog DEF GoodLog
<1>3. /\ stored' = Restrict(stored, {i \in DOMAIN stored : i <= target})
      /\ Tip - target <= MaxReorg
  BY DEF StartRollback
<1>4. MaxReorg \in Nat
  BY ChainConstants DEF ChainConstants
<1>5. ASSUME NEW i \in DOMAIN stored, i + MaxReorg < Cardinality(DOMAIN stored)
      PROVE  i <= target
  BY <1>2, <1>3, <1>4, <1>5 DEF Tip
<1>6. QED
  BY <1>3, <1>5 DEF DeepRowsStay, Restrict

\* Every step of a running node leaves the deep rows alone.
LEMMA StepIsBounded == IInv /\ [Next]_vars => DeepRowsStay
<1> SUFFICES ASSUME IInv, [Next]_vars PROVE DeepRowsStay
  OBVIOUS
<1>1. ASSUME stored' = stored PROVE DeepRowsStay
  BY <1>1 DEF DeepRowsStay
<1>2. ASSUME NEW b \in Blocks, AddBlock(b) PROVE DeepRowsStay
  BY <1>2, CommitAddsARow DEF AddBlock, Known
<1>3. ASSUME NEW target \in 0 .. Tip, Rollback(target) PROVE DeepRowsStay
  BY <1>3, RollbackCutsTheTop DEF Rollback
<1>4. ASSUME NEW offer \in Offers, ReplaceChain(offer) PROVE DeepRowsStay
  <2> DEFINE cand   == Candidate(offer)
             common == CommonLength(cand)
             branch == SubSeq(cand, common + 1, Len(cand))
  <2>1. phase = "idle" /\ common \in Nat
    BY <1>4, CandidateShape DEF ReplaceChain, Adopts, IInv, Shapes
  <2>2. CASE common < Len(chain)
    <3>1. StartRollback(common - 1, branch) /\ common - 1 \in Int
      BY <1>4, <2>1, <2>2 DEF ReplaceChain
    <3> HIDE DEF branch, common
    <3>2. QED
      BY <2>1, <3>1, RollbackCutsTheTop
  <2>3. CASE ~(common < Len(chain))
    BY <1>1, <1>4, <2>3 DEF ReplaceChain, disk
  <2>4. QED
    BY <2>2, <2>3
<1>5. CASE ExtendBranch
  <2>1. todo[1] \in Known
    BY <1>5, HeadTailProperties DEF ExtendBranch, IInv, Shapes, AtHand
  <2>2. QED
    BY <1>5, <2>1, CommitAddsARow DEF ExtendBranch
<1>6. CASE Tick \/ SaveSnapshot \/ ClearState \/ Restore \/ Replay \/ FinishRollback
  BY <1>1, <1>6 DEF Tick, SaveSnapshot, ClearState, Restore, Replay,
                    FinishRollback, disk
<1>7. CASE BranchRefused \/ Crash \/ CrashInClear \/ Restart \/ \E m \in 0 .. MaxTxs : CrashInReplay(m)
  BY <1>1, <1>7 DEF BranchRefused, Crash, CrashInClear, Restart, CrashInReplay, disk
<1>8. CASE UNCHANGED vars
  BY <1>1, <1>8 DEF vars, disk
<1>9. QED
  BY <1>2, <1>3, <1>4, <1>5, <1>6, <1>7, <1>8 DEF Next

\* chain.py:561-578, 670-680. However many branches replace each other, no step
\* of a running node abandons a block deeper than MaxReorg.
THEOREM ReorgIsBounded == Spec => BoundedReorg
<1>1. IInv /\ [Next]_vars => [DeepRowsStay]_vars
  BY StepIsBounded
<1>2. Spec => [][DeepRowsStay]_vars
  BY <1>1, Inductive, PTL DEF Spec
<1>3. QED
  BY <1>2 DEF BoundedReorg, DeepRowsStay
=============================================================================
