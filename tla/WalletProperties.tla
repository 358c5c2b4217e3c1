-------------------------- MODULE WalletProperties --------------------------
(***************************************************************************)
(* What the wallet and the node together keep true when calls fail, are    *)
(* served late or are served twice, and the node loses its mempool.        *)
(***************************************************************************)
EXTENDS Wallet, NodeClaims

Maker(o) == CHOOSE t \in Txid : o \in OutputSet(t)

\* A commitment that was not opened in time.
TooOld(o) == \E c \in Commitment : CommitsTo(o, c) /\ db.commitmentToHeight[c] = None

(***************************************************************************)
(* How far the wallet can be from the node.  It keeps, for a name, what the*)
(* last committed command made, whatever became of that: if it was         *)
(* connected it can be spent, unless it is a commitment that expired or    *)
(* something else spent it: the running command, or one that was given up  *)
(* and served all the same.  If it was not, it waits in the mempool, or the*)
(* node refused it or lost it, and the name is then stuck: later commands  *)
(* spend an output that never is.  There is no other way out of step.      *)
(***************************************************************************)
InStep ==
  \A k \in Key : wallet.keyToOutpoint[k] # None =>
    LET o == wallet.keyToOutpoint[k]
        t == Maker(o)
    IN  IF t \in Connected
        THEN \/ o \in db.utxos
             \/ TooOld(o)
             \/ \E u \in Connected : o \in InputSet(u) /\ u \in gaveUp \cup {asked}
        ELSE t \in mempool \cup dropped

(***************************************************************************)
(* Two transactions of the mempool that spend one output go into one block,*)
(* which cannot be connected and poisons the node.  However calls are lost,*)
(* repeated and delayed, a wallet does that only by a command that failed, *)
(* that was not repeated to its end, and that the node served all the same.*)
(***************************************************************************)
NoDoubleSpend ==
  \A t, u \in mempool :
    t # u /\ InputSet(t) \cap InputSet(u) # {} => t \in gaveUp \/ u \in gaveUp

(***************************************************************************)
(* The wallet can only give out KeyRadix + 1 addresses: up to there        *)
(* get_new_address makes one it has not made before, and from there on it  *)
(* makes the last one again, which nothing reports.                        *)
(***************************************************************************)
AddressesRunOut ==
  NewIndex(wallet) \in wallet.addresses <=> Cardinality(wallet.addresses) > KeyRadix
=============================================================================
