------------------------------ MODULE MCWallet ------------------------------
(***************************************************************************)
(* One name.  A transaction is the address index and the commands that led *)
(* to it: <<i>> commits, <<i, "claim">> claims that, and so on.            *)
(***************************************************************************)
EXTENDS WalletProperties

CONSTANTS MaxCommands,  \* bound: the commands that follow a commit
          SetTo,        \* the values the user sets names to
          CommitIndex   \* bound: the addresses names are committed to with

\* Bound, a constraint: one command that failed and was not completed, and two
\* with what was dropped.
FewFailures ==
  Cardinality(gaveUp) <= 1 /\ Cardinality(gaveUp) + Cardinality(dropped) <= 2

\* Bounds, action constraints: address get comes before the first name, update
\* before anything goes wrong; what update adds nothing but a balance reads.
AddressesFirst ==
  wallet'.addresses # wallet.addresses => \A k \in Key : wallet.keyToOutpoint[k] = None
UpdatesFirst ==
  wallet'.utxos # wallet.utxos /\ walletTxn = None => gaveUp = {} /\ dropped = {}

MCTxid == {<<i>> \o s : i \in CommitIndex,
                        s \in UNION {[1..n -> {"claim"} \cup SetTo] : n \in 0..MaxCommands}}
MCOutPoint == {<<t, 1>> : t \in MCTxid}
MCInputs == [t \in MCTxid |-> IF Len(t) = 1 THEN <<>> ELSE <<<<Front(t), 1>>>>]
MCOutputs == [t \in MCTxid |-> <<<<t, 1>>>>]
MCAddressOf == [o \in MCOutPoint |-> o[1][1]]
MCOutput ==
  [o \in MCOutPoint |->
     LET t == o[1]
     IN  CASE Len(t) = 1        -> [type |-> "Commitment", commitment |-> t[1]]
           [] Len(t) > 1 /\ t[Len(t)] = "claim" -> [type |-> "Reveal", key |-> "k", salt |-> t[1]]
           [] OTHER             -> [type |-> "KeyValue", key |-> "k", value |-> t[Len(t)]]]
MCSalt == [ik \in AddressIndex \X {"k"} |-> ik[1]]
MCHmac == [ks \in {"k"} \X AddressIndex |-> ks[2]]
MCOutputWeight == [d \in MainAddress |-> 4]
MCValue == {"zero"} \cup SetTo
=============================================================================
