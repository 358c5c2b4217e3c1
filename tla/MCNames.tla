------------------------------ MODULE MCNames ------------------------------
(***************************************************************************)
(* One name, two commitments to it with different salts, the reveal of     *)
(* each, and the transaction that sets the value of the name once the      *)
(* first reveal is connected.  No deposits, so no withdrawals.             *)
(***************************************************************************)
EXTENDS NodeClaims, BlockValidation

MCTxid == {"commitA", "commitB", "revealA", "revealB", "setA"}
MCOutPoint == {<<t, 1>> : t \in MCTxid}
MCInputs == [t \in MCTxid |->
               CASE t = "revealA" -> <<<<"commitA", 1>>>>
                 [] t = "revealB" -> <<<<"commitB", 1>>>>
                 [] t = "setA"    -> <<<<"revealA", 1>>>>
                 [] OTHER         -> <<>>]
MCOutputs == [t \in MCTxid |-> <<<<t, 1>>>>]
MCOutput ==
  [o \in MCOutPoint |->
     CASE o[1] = "commitA" -> [type |-> "Commitment", commitment |-> "A"]
       [] o[1] = "commitB" -> [type |-> "Commitment", commitment |-> "B"]
       [] o[1] = "revealA" -> [type |-> "Reveal", key |-> "k", salt |-> "a"]
       [] o[1] = "revealB" -> [type |-> "Reveal", key |-> "k", salt |-> "b"]
       [] o[1] = "setA"    -> [type |-> "KeyValue", key |-> "k", value |-> "v"]]
MCHmac == [ks \in {"k"} \X {"a", "b"} |-> IF ks[2] = "a" THEN "A" ELSE "B"]
MCOutputWeight == [d \in MainAddress |-> 4]

\* Bound, a constraint: in a longer mainchain only the first commitment is made,
\* which can be made again, with the same outpoint, after it has expired.
OneAlone ==
  Len(main) > 4 =>
    mempool \cup todo \cup Connected \cup (IF block = None THEN {} ELSE block.txs)
      \subseteq {"commitA", "revealA"}

\* The second commitment transaction commits to what the first one does.
MCOutputRepeated ==
  [MCOutput EXCEPT ![<<"commitB", 1>>] = [type |-> "Commitment", commitment |-> "A"]]
=============================================================================
