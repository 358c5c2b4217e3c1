------------------------------ MODULE MCChain ------------------------------
(***************************************************************************)
(* A deposit and two transactions that spend it: blocks that are empty,    *)
(* that connect, that cannot be connected, and that cannot be confirmed,   *)
(* because the bundle they collect is too heavy.                           *)
(***************************************************************************)
EXTENDS NodeClaims

MCTxid == {"payA", "payB"}
MCDeposit == {<<"deposit", 1>>}
MCOutPoint == MCDeposit \cup {<<t, 1>> : t \in MCTxid}
MCInputs == [t \in MCTxid |-> <<<<"deposit", 1>>>>]
MCOutputs == [t \in MCTxid |-> <<<<t, 1>>>>]
MCOutput == [o \in MCOutPoint |-> [type |-> "Value"]]
MCHmac == [ks \in {"k"} \X {"s"} |-> "A"]
MCOutputWeight == [d \in MainAddress |-> 8]

\* The second transaction withdraws the deposit.
MCOutputWithdrawn ==
  [MCOutput EXCEPT ![<<"payB", 1>>] = [type |-> "Withdrawal", dest |-> "m"]]
=============================================================================
