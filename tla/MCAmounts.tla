------------------------------ MODULE MCAmounts ------------------------------
(***************************************************************************)
(* The two algorithms that handle amounts, in one run: from each initial   *)
(* state of the one, with the other at rest.  Four withdrawals to three    *)
(* destinations, two of them to the same one.                              *)
(***************************************************************************)
EXTENDS WithdrawalBundle, DepositValues

MCOutPoint == 1..4
MCOutput == [o \in MCOutPoint |->
               [type |-> "Withdrawal", dest |-> CASE o = 1 -> "m1" [] o = 2 -> "m2" [] OTHER -> "m3"]]
MCTxid == {"withdraw"}
MCInputs == [t \in MCTxid |-> <<>>]
MCOutputs == [t \in MCTxid |-> <<1, 2, 3, 4>>]
MCHmac == [ks \in {"k"} \X {"s"} |-> "A"]
MCOutputWeight == [d \in MainAddress |-> CASE d = "m1" -> 3 [] d = "m2" -> 4 [] OTHER -> 8]
MCAddressRank == [d \in MainAddress |-> CASE d = "m1" -> 1 [] d = "m2" -> 2 [] OTHER -> 3]

NothingWithdrawn ==
  /\ utxos = {} /\ value = <<>> /\ mainFee = <<>>
  /\ list = <<>> /\ taken = 0
  /\ bundleOutputs = <<>> /\ fee = 0 /\ spentUtxos = {}
  /\ stage = "built"

NothingDeposited ==
  /\ height = MaxHeight /\ connected = MaxHeight
  /\ funds = 0 /\ deposits = <<>>
  /\ start = 0 /\ credited = <<>>

AmountsInit == (BundleInit /\ NothingDeposited) \/ (DepositInit /\ NothingWithdrawn)

AmountsNext ==
  \/ BundleNext /\ UNCHANGED depositVars
  \/ DepositNext /\ UNCHANGED bundleVars

AmountsSpec == AmountsInit /\ [][AmountsNext]_<<bundleVars, depositVars>>
=============================================================================
