--------------------------- MODULE VirtualMachine ---------------------------
(***************************************************************************)
(* The contract machine (core/vm.py) over the table contract_state.        *)
(*                                                                         *)
(* con maps the address of each contract, which is the identifier of the   *)
(* transaction that deployed it, to its rows: a function from keys to      *)
(* values, "owner" among the keys. A call that names no method is one      *)
(* of no contract, one of an unknown method is one that sets nothing.      *)
(***************************************************************************)

NoContracts == <<>>

\* set_contract_state for every pair of rows: the rows of other keys stay
Written(con, address, rows) ==
  LET before == IF address \in DOMAIN con THEN con[address] ELSE <<>>
      after  == [k \in DOMAIN rows \cup DOMAIN before |->
                   IF k \in DOMAIN rows THEN rows[k] ELSE before[k]]
  IN [a \in DOMAIN con \cup {address} |-> IF a = address THEN after ELSE con[a]]

\* OP_DEPLOY: the initial data are written after the owner, so that a key
\* "owner" among them replaces it
Deployed(con, tx) ==
  Written(Written(con, tx.id, [owner |-> tx.from]), tx.id, tx.data)

\* Mutant of MayInvoke: whoever calls may write
AnyoneInvokes(con, tx) == tx.target \in DOMAIN con

\* OP_INVOKE is for the owner alone
MayInvoke(con, tx) ==
  /\ tx.target \in DOMAIN con
  /\ con[tx.target]["owner"] = tx.from

\* Whether the machine lets a transaction pass
Executes(con, tx) == tx.op = "INVOKE" => MayInvoke(con, tx)

\* CAFVirtualMachine.execute, and nothing on a refusal
Execute(con, tx) ==
  CASE tx.op = "DEPLOY"                        -> Deployed(con, tx)
    [] tx.op = "INVOKE" /\ MayInvoke(con, tx)  -> Written(con, tx.target, tx.data)
    [] OTHER                                   -> con
=============================================================================
