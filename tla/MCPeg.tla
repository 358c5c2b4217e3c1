------------------------------- MODULE MCPeg -------------------------------
(***************************************************************************)
(* Two deposits, a transaction that withdraws the first in two outputs to  *)
(* one destination, one that withdraws the second to another destination,  *)
(* and the transaction that takes an output of the first back.  No names.  *)
(***************************************************************************)
EXTENDS BundleHistory

MCTxid == {"withdraw1", "withdraw2", "refund"}
MCDeposit == {<<"deposit", 1>>, <<"deposit", 2>>}
MCOutPoint == MCDeposit \cup {<<t, 1>> : t \in MCTxid} \cup {<<"withdraw1", 2>>}
MCInputs == [t \in MCTxid |->
               CASE t = "withdraw1" -> <<<<"deposit", 1>>>>
                 [] t = "withdraw2" -> <<<<"deposit", 2>>>>
                 [] t = "refund"    -> <<<<"withdraw1", 1>>>>]
MCOutputs == [t \in MCTxid |->
                IF t = "withdraw1" THEN <<<<t, 1>>, <<t, 2>>>> ELSE <<<<t, 1>>>>]
MCOutput ==
  [o \in MCOutPoint |->
     CASE o[1] = "withdraw1" -> [type |-> "Withdrawal", dest |-> "m1"]
       [] o[1] = "withdraw2" -> [type |-> "Withdrawal", dest |-> "m2"]
       [] OTHER              -> [type |-> "Value"]]
MCHmac == [ks \in {"k"} \X {"s"} |-> "A"]
MCOutputWeight == [d \in MainAddress |-> 4]
=============================================================================
