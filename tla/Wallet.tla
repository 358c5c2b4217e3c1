------------------------------- MODULE Wallet -------------------------------
(***************************************************************************)
(* The wallet (wallet/src: wallet.rs, state.rs, signer.rs, main.rs) beside *)
(* a node that only it submits transactions to.                            *)
(*                                                                         *)
(* A command opens a write transaction on the wallet's own LMDB, moves     *)
(* key_to_outpoint to the output of the transaction it makes, calls the    *)
(* node, and commits whatever the answer.  LMDB has one writer, so a       *)
(* second process waits: one command runs at a time.  A call that fails    *)
(* drops the write transaction although the node may have served it, or    *)
(* may serve it later: its handler blocks in lock() and is not cancelled.  *)
(*                                                                         *)
(* Keys are derived from a seed, so an address is the index it is derived  *)
(* from, and Txid holds what the wallet can make: a transaction follows    *)
(* from its input, its address and the content of its only output.         *)
(***************************************************************************)
EXTENDS Node

CONSTANTS
  AddressIndex,         \* bound: the indexes an instance derives addresses from
  addressOf,            \* OutPoint -> AddressIndex, Output::address
  salt                  \* salt[<<i, k>>], of address i for key k

ASSUME WalletAssumption ==
  /\ AddressIndex \subseteq Nat
  /\ addressOf \in [OutPoint -> AddressIndex]
  /\ salt \in [AddressIndex \X Key -> Salt]
  /\ None \notin Txid

VARIABLES
  wallet,               \* the committed databases of the wallet
  walletTxn,            \* as the open write transaction sees them
  asked,                \* the transaction of the running command
  call,                 \* how far the call to the node is
  abandoned,            \* calls the wallet gave up and the node may serve
  \* History: no process keeps them, they are there for the properties.
  gaveUp,               \* what failed commands made and no later one committed
  dropped               \* what a commit followed although the node refused it,
                        \* and what the node lost with its mempool

walletVars == <<wallet, walletTxn, asked, call, abandoned, gaveUp, dropped>>
allVars == <<vars, walletVars>>

WalletState ==
  [keyToOutpoint     : [Key -> OutPoint \cup {None}],
   outpointToAddress : [OutPoint -> AddressIndex \cup {None}],
   utxos             : SUBSET OutPoint,
   addresses         : SUBSET AddressIndex]

ASSUME NoWalletAssumption == None \notin WalletState

WalletTypeOK ==
  /\ TypeOK
  /\ wallet \in WalletState
  /\ walletTxn \in WalletState \cup {None}
  /\ asked \in Txid \cup {None}
  /\ call \in {"none", "sent", "valid", "invalid", "broken"}
  /\ abandoned \in SUBSET Txid
  /\ gaveUp \in SUBSET Txid
  /\ dropped \in SUBSET Txid
  /\ walletTxn = None <=> call = "none"

WalletInit ==
  /\ Init
  /\ wallet = [keyToOutpoint     |-> [k \in Key |-> None],
               outpointToAddress |-> [o \in OutPoint |-> None],
               utxos             |-> {},
               addresses         |-> {}]
  /\ walletTxn = None
  /\ asked = None
  /\ call = "none"
  /\ abandoned = {}
  /\ gaveUp = {}
  /\ dropped = {}

-----------------------------------------------------------------------------
(* Addresses.  index_to_address has u32 keys: its last entry is the last   *)
(* one in the order of module NativeKeys.                                  *)

LastIndex(st) == CHOOSE i \in st.addresses : \A j \in st.addresses \ {i} : KeyPrecedes(j, i)

\* Mutant: the first free index is the number of addresses.
NewIndexCounts(st) == Cardinality(st.addresses)

NewIndex(st) == IF st.addresses = {} THEN 0 ELSE LastIndex(st) + 1

WithAddress(st) == [st EXCEPT !.addresses = @ \cup {NewIndex(st)}]

\* address get
GetNewAddress ==
  /\ walletTxn = None
  /\ NewIndex(wallet) \in AddressIndex
  /\ wallet' = WithAddress(wallet)
  /\ UNCHANGED <<walletTxn, asked, call, abandoned, gaveUp, dropped, vars>>

-----------------------------------------------------------------------------
(* Name commands, up to the call.                                          *)

\* t is what the builder makes: the inputs and one output.
Builds(t, inputs, address, content) ==
  /\ Inputs[t] = inputs
  /\ Len(Outputs[t]) = 1
  /\ addressOf[Outputs[t][1]] = address
  /\ Output[Outputs[t][1]] = content

\* State::connect
ConnectWallet(st, t) ==
  [st EXCEPT !.utxos = @ \ InputSet(t),
             !.outpointToAddress = [o \in OutPoint |->
                IF o \in OutputSet(t) THEN addressOf[o] ELSE @[o]]]

KeepOutpoint(st, k, o) == [st EXCEPT !.keyToOutpoint[k] = o]

Submit(st, t) ==
  /\ walletTxn = None
  /\ walletTxn' = ConnectWallet(st, t)
  /\ asked' = t
  /\ call' = "sent"
  /\ UNCHANGED <<wallet, abandoned, gaveUp, dropped, vars>>

\* name commit: the salt is that of a new address.
CommitName(k) ==
  LET i == NewIndex(wallet)
      content == [type |-> "Commitment", commitment |-> hmac[<<k, salt[<<i, k>>]>>]]
  IN  /\ i \in AddressIndex
      /\ \E t \in Txid :
           /\ Builds(t, <<>>, i, content)
           /\ Submit(KeepOutpoint(WithAddress(wallet), k, Outputs[t][1]), t)

\* Both other commands spend the outpoint the wallet keeps for the name.
KeptAddress(k) == wallet.outpointToAddress[wallet.keyToOutpoint[k]]

Spends(k, t, content) ==
  /\ wallet.keyToOutpoint[k] # None
  /\ KeptAddress(k) # None
  /\ Builds(t, <<wallet.keyToOutpoint[k]>>, KeptAddress(k), content)

\* Mutant: the outpoint stays the one that is spent.
ClaimNameForgets(k) ==
  \E t \in Txid :
    /\ Spends(k, t, [type |-> "Reveal", key |-> k, salt |-> salt[<<KeptAddress(k), k>>]])
    /\ Submit(wallet, t)

\* name claim
ClaimName(k) ==
  \E t \in Txid :
    /\ Spends(k, t, [type |-> "Reveal", key |-> k, salt |-> salt[<<KeptAddress(k), k>>]])
    /\ Submit(KeepOutpoint(wallet, k, Outputs[t][1]), t)

\* Mutant: the same of name set.
SetNameForgets(k, v) ==
  \E t \in Txid :
    /\ Spends(k, t, [type |-> "KeyValue", key |-> k, value |-> v])
    /\ Submit(wallet, t)

\* name set
SetName(k, v) ==
  \E t \in Txid :
    /\ Spends(k, t, [type |-> "KeyValue", key |-> k, value |-> v])
    /\ Submit(KeepOutpoint(wallet, k, Outputs[t][1]), t)

-----------------------------------------------------------------------------
(* The call.                                                               *)

\* The handler of the node: a transaction that is not valid is answered, too.
Serve(t) ==
  \/ SubmitTransaction(t)
  \/ pc = "idle" /\ ~ValidateTransaction(db, t) /\ UNCHANGED vars

ServeCall ==
  /\ call = "sent"
  /\ Serve(asked)
  /\ call' = IF ValidateTransaction(db, asked) THEN "valid" ELSE "invalid"
  /\ UNCHANGED <<wallet, walletTxn, asked, abandoned, gaveUp, dropped>>

ServeAbandoned(t) ==
  /\ t \in abandoned
  /\ Serve(t)
  /\ abandoned' = abandoned \ {t}
  /\ UNCHANGED <<wallet, walletTxn, asked, call, gaveUp, dropped>>

\* The end of a command.
Done ==
  /\ walletTxn' = None
  /\ asked' = None
  /\ call' = "none"
  /\ UNCHANGED vars

\* valid is printed and nothing else: the commit follows whatever it says.
CommitWallet ==
  /\ call \in {"valid", "invalid"}
  /\ wallet' = walletTxn
  /\ gaveUp' = gaveUp \ {asked}
  /\ dropped' = IF call = "invalid" THEN dropped \cup {asked} ELSE dropped
  /\ Done
  /\ UNCHANGED abandoned

\* The call, or the process, ends before the commit: was the request sent?
GiveUp ==
  /\ call # "none"
  /\ \/ UNCHANGED abandoned
     \/ call = "sent" /\ pc # "poisoned" /\ abandoned' = abandoned \cup {asked}
  /\ gaveUp' = gaveUp \cup {asked}
  /\ Done
  /\ UNCHANGED <<wallet, dropped>>

\* update, whose call reads the node between two handlers; a failed one does nothing.
Update ==
  /\ walletTxn = None
  /\ pc = "idle"
  /\ wallet' = [wallet EXCEPT !.utxos = @ \cup {o \in db.utxos : addressOf[o] \in wallet.addresses}]
  /\ UNCHANGED <<walletTxn, asked, call, abandoned, gaveUp, dropped, vars>>

-----------------------------------------------------------------------------

WalletNext ==
  \/ GetNewAddress
  \/ \E k \in Key : CommitName(k) \/ ClaimName(k) \/ \E v \in Value : SetName(k, v)
  \/ ServeCall
  \/ \E t \in Txid : ServeAbandoned(t)
  \/ CommitWallet
  \/ GiveUp
  \/ Update

\* What the node does on its own.
NodeAlone ==
  /\ \/ AttemptBmm
     \/ ConfirmBmm
     \/ HandlerStep
     \/ ConfirmFails
     \/ HeaderFails
     \/ CollectFails
     \/ CallFails
     \/ AnswerLost
     \/ MainNext /\ UNCHANGED nodeVars
  /\ UNCHANGED walletVars

\* The calls in flight end with the connection.
RestartNode ==
  /\ Restart
  /\ abandoned' = {}
  /\ call' = IF call = "sent" THEN "broken" ELSE call
  /\ dropped' = dropped \cup mempool
  /\ UNCHANGED <<wallet, walletTxn, asked, gaveUp>>

WalletSpec == WalletInit /\ [][WalletNext \/ NodeAlone \/ RestartNode]_allVars
=============================================================================
