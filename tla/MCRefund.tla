------------------------------ MODULE MCRefund -------------------------------
(***************************************************************************)
(* A deposit, its withdrawal in two outputs, and the transaction that      *)
(* takes one of them back.                                                 *)
(***************************************************************************)
EXTENDS NodeClaims

MCTxid == {"withdraw", "refund"}
MCDeposit == {<<"deposit", 1>>}
MCOutPoint == MCDeposit \cup {<<t, 1>> : t \in MCTxid} \cup {<<"withdraw", 2>>}
MCInputs == [t \in MCTxid |->
               IF t = "withdraw" THEN <<<<"deposit", 1>>>> ELSE <<<<"withdraw", 1>>>>]
MCOutputs == [t \in MCTxid |->
                IF t = "withdraw" THEN <<<<t, 1>>, <<t, 2>>>> ELSE <<<<t, 1>>>>]
MCOutput ==
  [o \in MCOutPoint |->
     IF o[1] = "withdraw" THEN [type |-> "Withdrawal", dest |-> "m"] ELSE [type |-> "Value"]]
MCHmac == [ks \in {"k"} \X {"s"} |-> "A"]
MCOutputWeight == [d \in MainAddress |-> 4]
=============================================================================
