---------------------------- MODULE WalletProofs ----------------------------
(***************************************************************************)
(* The wallet and its calls, for every value of the constants.             *)
(***************************************************************************)
EXTENDS WalletProperties, BundleProofs

-----------------------------------------------------------------------------
(* The order of the keys of one byte, and the first key of two.            *)

LEMMA SmallKeyBytes ==
  /\ \A i \in 0..(KeyRadix - 1) : KeyBytes(i) = <<i, 0, 0, 0>>
  /\ KeyBytes(KeyRadix) = <<0, 1, 0, 0>>
<1> DEFINE r == KeyRadix
           q == r * r
           c == r * r * r
<1>1. r \in Nat /\ r >= 2
  BY KeyRadixAssumption
<1>2. q \in Nat /\ q > r
  BY <1>1, Z3
<1>3. c \in Nat /\ c > r
  <2>1. c = q * r
    OBVIOUS
  <2> HIDE DEF q, c, r
  <2> QED BY <1>1, <1>2, <2>1, Z3
<1> DEFINE Bytes(i) == <<i % r, (i \div r) % r, (i \div q) % r, (i \div c) % r>>
<1>4. \A i : KeyBytes(i) = Bytes(i)
  BY DEF KeyBytes
<1> HIDE DEF q, c, r
<1>5. \A i, m \in Nat : i < m => i % m = i /\ i \div m = 0
  BY Z3
<1>6. r % r = 0 /\ r \div r = 1 /\ 0 % r = 0 /\ 1 % r = 1
  BY <1>1, Z3
<1>7. ASSUME NEW i \in 0..(r - 1) PROVE Bytes(i) = <<i, 0, 0, 0>>
  <2>1. i \in Nat /\ i < r /\ i < q /\ i < c
    BY <1>1, <1>2, <1>3
  <2>2. i % r = i /\ i \div r = 0 /\ i \div q = 0 /\ i \div c = 0
    BY <1>1, <1>2, <1>3, <1>5, <2>1
  <2> QED BY <1>6, <2>2
<1>8. Bytes(r) = <<0, 1, 0, 0>>
  <2>1. r \div q = 0 /\ r \div c = 0
    BY <1>1, <1>2, <1>3, <1>5
  <2> QED BY <1>6, <2>1
<1> QED BY <1>4, <1>7, <1>8 DEF r

\* Which of the first KeyRadix + 1 keys comes before which.
LEMMA SmallKeyOrder ==
  /\ \A i, j \in 0..(KeyRadix - 1) : KeyPrecedes(i, j) <=> i < j
  /\ \A i \in 0..(KeyRadix - 1) : KeyPrecedes(i, KeyRadix) <=> i = 0
  /\ \A i \in 0..(KeyRadix - 1) : KeyPrecedes(KeyRadix, i) <=> i > 0
<1>1. ASSUME NEW a \in Nat, NEW b \in Nat, NEW c \in Nat, NEW d \in Nat, NEW i, NEW j,
             KeyBytes(i) = <<a, b, 0, 0>>, KeyBytes(j) = <<c, d, 0, 0>>
      PROVE  KeyPrecedes(i, j) <=> a < c \/ (a = c /\ b < d)
  <2>1. /\ KeyBytes(i)[1] = a /\ KeyBytes(i)[2] = b /\ KeyBytes(i)[3] = 0 /\ KeyBytes(i)[4] = 0
        /\ KeyBytes(j)[1] = c /\ KeyBytes(j)[2] = d /\ KeyBytes(j)[3] = 0 /\ KeyBytes(j)[4] = 0
    BY <1>1
  <2>2. ASSUME KeyPrecedes(i, j) PROVE a < c \/ (a = c /\ b < d)
    <3>1. PICK n \in 1..4 : /\ KeyBytes(i)[n] < KeyBytes(j)[n]
                            /\ \A m \in 1..(n - 1) : KeyBytes(i)[m] = KeyBytes(j)[m]
      BY <2>2 DEF KeyPrecedes
    <3>2. n = 1 \/ (n = 2 /\ 1 \in 1..(n - 1))
      BY <2>1, <3>1
    <3> QED BY <2>1, <3>1, <3>2
  <2>3. ASSUME a < c PROVE KeyPrecedes(i, j)
    <3>1. 1 \in 1..4 /\ 1..(1 - 1) = {}
      OBVIOUS
    <3> QED BY <2>1, <2>3, <3>1 DEF KeyPrecedes
  <2>4. ASSUME a = c, b < d PROVE KeyPrecedes(i, j)
    <3>1. 2 \in 1..4 /\ 1..(2 - 1) = {1}
      OBVIOUS
    <3> QED BY <2>1, <2>4, <3>1 DEF KeyPrecedes
  <2> QED BY <2>2, <2>3, <2>4
<1>2. \A i \in 0..(KeyRadix - 1) : i \in Nat
  OBVIOUS
<1> QED BY <1>1, <1>2, SmallKeyBytes

-----------------------------------------------------------------------------
(* Addresses.                                                              *)

\* The first n indexes have an address.
FirstAddresses(st, n) == n \in 0..(KeyRadix + 1) /\ st.addresses = 0..(n - 1)

LEMMA NextAddress ==
  ASSUME NEW st, NEW n, FirstAddresses(st, n)
  PROVE  NewIndex(st) = IF n = KeyRadix + 1 THEN KeyRadix ELSE n
<1>0. KeyRadix \in Nat /\ KeyRadix >= 2 /\ n \in Nat /\ n <= KeyRadix + 1
  BY KeyRadixAssumption DEF FirstAddresses
<1>1. CASE n = 0
  BY <1>0, <1>1 DEF FirstAddresses, NewIndex
<1>2. CASE n # 0
  <2> DEFINE last == IF n = KeyRadix + 1 THEN KeyRadix - 1 ELSE n - 1
             IsLast(i) == i \in 0..(n - 1) /\ \A j \in (0..(n - 1)) \ {i} : KeyPrecedes(j, i)
  <2>1. 0..(n - 1) # {} /\ last \in 0..(KeyRadix - 1) /\ last \in 0..(n - 1)
    BY <1>0, <1>2
  <2>2. ASSUME NEW j \in (0..(n - 1)) \ {last} PROVE KeyPrecedes(j, last) /\ ~KeyPrecedes(last, j)
    <3>1. CASE j \in 0..(KeyRadix - 1)
      <4>1. j < last
        BY <1>0, <1>2, <3>1
      <4>2. ~(last < j)
        BY <1>0, <2>1, <3>1, <4>1
      <4> HIDE DEF last
      <4> QED BY <2>1, <3>1, <4>1, <4>2, SmallKeyOrder
    <3>2. CASE j \notin 0..(KeyRadix - 1)
      <4>1. j = KeyRadix /\ last > 0
        BY <1>0, <3>2
      <4>2. last # 0
        BY <2>1, <4>1
      <4> HIDE DEF last
      <4> QED BY <2>1, <4>1, <4>2, SmallKeyOrder
    <3> QED BY <3>1, <3>2
  <2> HIDE DEF last
  <2>3. IsLast(last)
    BY <2>1, <2>2
  <2>4. ASSUME NEW i, IsLast(i) PROVE i = last
    BY <2>1, <2>2, <2>4
  <2>5. LastIndex(st) = last
    <3>1. LastIndex(st) = CHOOSE i : IsLast(i)
      BY DEF LastIndex, FirstAddresses
    <3> HIDE DEF IsLast
    <3> QED BY <2>3, <2>4, <3>1
  <2> QED BY <1>0, <1>2, <2>1, <2>5 DEF NewIndex, FirstAddresses, last
<1> QED BY <1>1, <1>2

LEMMA AddressIsNext ==
  ASSUME NEW st \in WalletState, NEW n, FirstAddresses(st, n)
  PROVE  \E m : FirstAddresses(WithAddress(st), m)
<1>0. KeyRadix \in Nat /\ KeyRadix >= 2 /\ n \in Nat /\ n <= KeyRadix + 1
  BY KeyRadixAssumption DEF FirstAddresses
<1>1. WithAddress(st).addresses = st.addresses \cup {NewIndex(st)}
  BY DEF WithAddress, WalletState
<1>2. CASE n = KeyRadix + 1
  <2>1. WithAddress(st).addresses = 0..(n - 1)
    <3>1. NewIndex(st) = KeyRadix /\ KeyRadix \in 0..(n - 1)
      BY <1>0, <1>2, NextAddress
    <3> QED BY <1>1, <3>1 DEF FirstAddresses
  <2> QED BY <2>1 DEF FirstAddresses
<1>3. CASE n # KeyRadix + 1
  <2>1. WithAddress(st).addresses = (0..(n - 1)) \cup {n}
    BY <1>1, <1>3, NextAddress DEF FirstAddresses
  <2>2. (0..(n - 1)) \cup {n} = 0..((n + 1) - 1) /\ n + 1 \in 0..(KeyRadix + 1)
    BY <1>0, <1>3
  <2> QED BY <2>1, <2>2 DEF FirstAddresses
<1> QED BY <1>2, <1>3

-----------------------------------------------------------------------------
(* Commands and calls.                                                     *)

AddressInv ==
  /\ \E n : FirstAddresses(wallet, n)
  /\ walletTxn # None => \E n : FirstAddresses(walletTxn, n)

WalletInv ==
  /\ ChainInv
  /\ WalletTypeOK
  /\ call # "none" => asked \in Txid /\ walletTxn \in WalletState
  /\ AddressInv

\* What a command writes before it calls the node.
LEMMA CommandType ==
  ASSUME NEW st \in WalletState, NEW k \in Key, NEW t \in Txid, Len(Outputs[t]) = 1
  PROVE  /\ ConnectWallet(KeepOutpoint(st, k, Outputs[t][1]), t) \in WalletState
         /\ ConnectWallet(KeepOutpoint(st, k, Outputs[t][1]), t).addresses = st.addresses
<1>1. Outputs[t][1] \in OutPoint
  <2>1. Outputs[t] \in Seq(OutPoint \ Deposit)
    BY ConstantsAssumption
  <2> QED BY <2>1
<1> DEFINE kept == KeepOutpoint(st, k, Outputs[t][1])
<1>2. kept \in WalletState /\ kept.addresses = st.addresses
  BY <1>1 DEF KeepOutpoint, WalletState
<1> HIDE DEF kept
<1>3. /\ ConnectWallet(kept, t) \in WalletState
      /\ ConnectWallet(kept, t).addresses = kept.addresses
  BY <1>2, WalletAssumption DEF ConnectWallet, WalletState
<1> QED BY <1>2, <1>3 DEF kept

LEMMA AddressType ==
  ASSUME NEW st \in WalletState, NewIndex(st) \in AddressIndex
  PROVE  WithAddress(st) \in WalletState
BY DEF WithAddress, WalletState

\* The invariant holds of an empty wallet beside a new node.
LEMMA WalletInvInit == WalletInit => WalletInv
<1> SUFFICES ASSUME WalletInit PROVE WalletInv
  OBVIOUS
<1>1. ChainInv
  BY ChainInvInit DEF WalletInit
<1>2. WalletTypeOK
  BY <1>1 DEF WalletInit, WalletTypeOK, WalletState, ChainInv
<1>3. FirstAddresses(wallet, 0)
  BY KeyRadixAssumption DEF WalletInit, FirstAddresses
<1> QED BY <1>1, <1>2, <1>3 DEF WalletInit, WalletInv, AddressInv

WalletStep == [WalletNext \/ NodeAlone \/ RestartNode]_allVars

\* A call that is served, now or late, is a call of the node or changes nothing.
LEMMA StepOfNode ==
  ASSUME WalletInv, WalletStep
  PROVE  [Next]_vars
<1>1. ASSUME NEW t \in Txid, Serve(t) PROVE [Next]_vars
  BY <1>1 DEF Serve, Next, NodeNext
<1>2. CASE ServeCall
  BY <1>1, <1>2 DEF ServeCall, WalletInv
<1>3. CASE \E t \in Txid : ServeAbandoned(t)
  BY <1>1, <1>3 DEF ServeAbandoned
<1>4. CASE NodeAlone \/ RestartNode
  BY <1>4 DEF NodeAlone, RestartNode, Next, NodeNext
<1>5. CASE GetNewAddress \/ CommitWallet \/ GiveUp \/ Update \/ UNCHANGED allVars
  BY <1>5 DEF GetNewAddress, CommitWallet, GiveUp, Update, Done, allVars
<1>6. CASE \E k \in Key : CommitName(k) \/ ClaimName(k) \/ \E v \in Value : SetName(k, v)
  BY <1>6 DEF CommitName, ClaimName, SetName, Submit
<1> QED BY <1>2, <1>3, <1>4, <1>5, <1>6 DEF WalletStep, WalletNext

WalletTyped ==
  /\ WalletTypeOK
  /\ call # "none" => asked \in Txid /\ walletTxn \in WalletState

\* A name command writes to its write transaction only.
LEMMA SubmitKeeps ==
  ASSUME WalletInv, NEW st \in WalletState, NEW n, FirstAddresses(st, n),
         NEW k \in Key, NEW t \in Txid, Len(Outputs[t]) = 1,
         Submit(KeepOutpoint(st, k, Outputs[t][1]), t), TypeOK'
  PROVE  WalletTyped' /\ AddressInv'
<1>1. /\ walletTxn' = ConnectWallet(KeepOutpoint(st, k, Outputs[t][1]), t)
      /\ asked' = t /\ call' = "sent" /\ UNCHANGED <<wallet, abandoned, gaveUp, dropped>>
  BY DEF Submit
<1>2. walletTxn' \in WalletState /\ walletTxn'.addresses = st.addresses
  BY <1>1, CommandType
<1>3. FirstAddresses(walletTxn', n)
  BY <1>2 DEF FirstAddresses
<1>4. walletTxn' # None
  BY <1>2, NoWalletAssumption
<1>5. AddressInv'
  BY <1>1, <1>3 DEF WalletInv, AddressInv, FirstAddresses
<1> QED BY <1>1, <1>2, <1>4, <1>5 DEF WalletInv, WalletTypeOK, WalletTyped

LEMMA WalletInvStep == WalletInv /\ WalletStep => WalletInv'
<1> SUFFICES ASSUME WalletInv, WalletStep PROVE WalletInv'
  OBVIOUS
<1>1. ChainInv' /\ TypeOK'
  BY StepOfNode, ChainInvStep DEF WalletInv, ChainInv
<1>2. PICK n : FirstAddresses(wallet, n)
  BY DEF WalletInv, AddressInv
<1>3. wallet \in WalletState
  BY DEF WalletInv, WalletTypeOK
<1>4. CASE GetNewAddress
  <2>1. /\ walletTxn = None /\ wallet' = WithAddress(wallet)
        /\ UNCHANGED <<walletTxn, asked, call, abandoned, gaveUp, dropped>>
    BY <1>4 DEF GetNewAddress
  <2>2. wallet' \in WalletState
    BY <1>3, <1>4, <2>1, AddressType DEF GetNewAddress
  <2>3. \E m : FirstAddresses(wallet', m)
    BY <1>2, <1>3, <2>1, AddressIsNext
  <2> QED BY <1>1, <2>1, <2>2, <2>3 DEF WalletInv, WalletTypeOK, AddressInv, FirstAddresses
<1>5. ASSUME NEW k \in Key, CommitName(k) PROVE WalletInv'
  <2>1. PICK t \in Txid :
          /\ Len(Outputs[t]) = 1
          /\ Submit(KeepOutpoint(WithAddress(wallet), k, Outputs[t][1]), t)
    BY <1>5 DEF CommitName, Builds
  <2>2. WithAddress(wallet) \in WalletState
    BY <1>3, <1>5, AddressType DEF CommitName
  <2>3. PICK m : FirstAddresses(WithAddress(wallet), m)
    BY <1>2, <1>3, AddressIsNext
  <2> QED BY <1>1, <2>1, <2>2, <2>3, SubmitKeeps DEF WalletInv, WalletTyped
<1>6. ASSUME NEW k \in Key, ClaimName(k) \/ \E v \in Value : SetName(k, v) PROVE WalletInv'
  <2>1. PICK t \in Txid :
          /\ Len(Outputs[t]) = 1
          /\ Submit(KeepOutpoint(wallet, k, Outputs[t][1]), t)
    BY <1>6 DEF ClaimName, SetName, Spends, Builds
  <2> QED BY <1>1, <1>2, <1>3, <2>1, SubmitKeeps DEF WalletInv, WalletTyped
<1>7. CASE ServeCall \/ RestartNode \/ (\E t \in Txid : ServeAbandoned(t)) \/ NodeAlone
           \/ UNCHANGED allVars
  <2>1. UNCHANGED <<wallet, walletTxn, asked, gaveUp>>
    BY <1>7 DEF ServeCall, RestartNode, ServeAbandoned, NodeAlone, walletVars, allVars
  <2>2. abandoned' \subseteq abandoned /\ dropped' \subseteq dropped \cup mempool
    BY <1>7 DEF ServeCall, RestartNode, ServeAbandoned, NodeAlone, walletVars, allVars
  <2>3. /\ call' \in {"none", "sent", "valid", "invalid", "broken"}
        /\ (call' = "none" <=> call = "none")
    BY <1>7 DEF ServeCall, RestartNode, ServeAbandoned, NodeAlone, walletVars, allVars, WalletInv,
       WalletTypeOK
  <2>4. mempool \subseteq Txid
    BY DEF WalletInv, ChainInv, TypeOK, NodeTypeOK
  <2> QED BY <1>1, <2>1, <2>2, <2>3, <2>4 DEF WalletInv, WalletTypeOK, AddressInv, FirstAddresses
<1>8. CASE CommitWallet \/ GiveUp
  <2>1. /\ call # "none" /\ walletTxn' = None /\ asked' = None /\ call' = "none"
        /\ wallet' \in {wallet, walletTxn}
        /\ abandoned' \subseteq abandoned \cup {asked} /\ gaveUp' \subseteq gaveUp \cup {asked}
        /\ dropped' \subseteq dropped \cup {asked}
    BY <1>8 DEF CommitWallet, GiveUp, Done
  <2>2. wallet' \in WalletState /\ \E m : FirstAddresses(wallet', m)
    BY <2>1 DEF WalletInv, WalletTypeOK, AddressInv
  <2> QED BY <1>1, <2>1, <2>2 DEF WalletInv, WalletTypeOK, AddressInv, FirstAddresses
<1>9. CASE Update
  <2>1. /\ wallet' = [wallet EXCEPT !.utxos =
                         @ \cup {o \in db.utxos : addressOf[o] \in wallet.addresses}]
        /\ UNCHANGED <<walletTxn, asked, call, abandoned, gaveUp, dropped>>
    BY <1>9 DEF Update
  <2>2. db.utxos \subseteq OutPoint
    BY DEF WalletInv, ChainInv, TypeOK, NodeTypeOK, State
  <2>3. wallet' \in WalletState /\ wallet'.addresses = wallet.addresses
    BY <1>3, <2>1, <2>2 DEF WalletState
  <2> QED BY <1>1, <2>1, <2>3 DEF WalletInv, WalletTypeOK, AddressInv, FirstAddresses
<1> QED BY <1>4, <1>5, <1>6, <1>7, <1>8, <1>9 DEF WalletStep, WalletNext

(***************************************************************************)
(* What the node keeps true on its own it keeps true beside a wallet.      *)
(***************************************************************************)
NodeInv == NameInv /\ WaitInv /\ CreditInv /\ KeptInv /\ MadeInv

LEMMA NodeInvInit == WalletInit => NodeInv
BY NameInvInit, WaitInvInit, CreditInvInit, KeptInvInit, MadeInvInit DEF WalletInit, NodeInv

LEMMA NodeInvStep == WalletInv /\ NodeInv /\ WalletStep => NodeInv'
<1> SUFFICES ASSUME WalletInv, NodeInv, WalletStep PROVE NodeInv'
  OBVIOUS
<1>1. ChainInv /\ [Next]_vars
  BY StepOfNode DEF WalletInv
<1>2. NameInv' /\ WaitInv' /\ CreditInv'
  BY <1>1, NameInvStep, WaitInvStep, CreditInvStep DEF NodeInv
<1>3. KeptInv' /\ MadeInv'
  BY <1>1, KeptInvStep, MadeInvStep DEF NodeInv
<1> QED BY <1>2, <1>3 DEF NodeInv

(***************************************************************************)
(* Type correctness of the wallet and of the node beside it.               *)
(***************************************************************************)
THEOREM WalletTypes == WalletSpec => []WalletTypeOK
<1>1. WalletInv => WalletTypeOK
  BY DEF WalletInv
<1> QED BY <1>1, WalletInvInit, WalletInvStep, PTL DEF WalletSpec, WalletStep

(***************************************************************************)
(* A wallet makes KeyRadix + 1 addresses, and then the last one again.     *)
(***************************************************************************)
THEOREM AddressesEnd == WalletSpec => []AddressesRunOut
<1>1. WalletInv => AddressesRunOut
  <2> SUFFICES ASSUME WalletInv PROVE AddressesRunOut
    OBVIOUS
  <2>1. PICK n : FirstAddresses(wallet, n)
    BY DEF WalletInv, AddressInv
  <2>2. KeyRadix \in Nat /\ n \in Nat /\ n <= KeyRadix + 1 /\ wallet.addresses = 0..(n - 1)
    BY <2>1, KeyRadixAssumption DEF FirstAddresses
  <2>3. Cardinality(wallet.addresses) = n
    <3>1. Cardinality(0..(n - 1)) = IF 0 > n - 1 THEN 0 ELSE ((n - 1) - 0) + 1
      BY <2>2, FS_Interval
    <3> QED BY <2>2, <3>1
  <2>4. NewIndex(wallet) \in wallet.addresses <=> n = KeyRadix + 1
    BY <2>1, <2>2, NextAddress
  <2> QED BY <2>2, <2>3, <2>4 DEF AddressesRunOut
<1> QED BY <1>1, WalletInvInit, WalletInvStep, PTL DEF WalletSpec, WalletStep

-----------------------------------------------------------------------------
(* No two transactions of the mempool spend the same output.               *)

(***************************************************************************)
(* An outpoint holds the hash of its transaction and that the outpoints it *)
(* spends: following inputs never leads back.                              *)
(***************************************************************************)
InHashOrder(depth) ==
  /\ depth \in [OutPoint -> Nat]
  /\ \A t \in Txid : \A p \in InputSet(t), o \in OutputSet(t) : depth[p] < depth[o]

\* No two names have outpoints of one address.
KeptApart(st) ==
  /\ \A k \in Key : st.keyToOutpoint[k] # None => addressOf[st.keyToOutpoint[k]] \in st.addresses
  /\ \A k, l \in Key :
       k # l /\ st.keyToOutpoint[k] # None /\ st.keyToOutpoint[l] # None =>
         addressOf[st.keyToOutpoint[k]] # addressOf[st.keyToOutpoint[l]]
  /\ \A o \in OutPoint : st.outpointToAddress[o] \in {None, addressOf[o]}

\* The running command spends the outpoint of a name, or begins a name anew.
CommandMoves(k) ==
  /\ \A l \in Key \ {k} : walletTxn.keyToOutpoint[l] = wallet.keyToOutpoint[l]
  /\ walletTxn.keyToOutpoint[k] \in OutputSet(asked)
  /\ \/ InputSet(asked) = {} /\ addressOf[walletTxn.keyToOutpoint[k]] \notin wallet.addresses
     \/ /\ InputSet(asked) = {wallet.keyToOutpoint[k]} /\ wallet.keyToOutpoint[k] # None
        /\ addressOf[walletTxn.keyToOutpoint[k]] = addressOf[wallet.keyToOutpoint[k]]

(***************************************************************************)
(* What the wallet stands by: the running command and, unless it gave them *)
(* up, what may get into the mempool and what was connected; and what makes*)
(* the outpoints it keeps, wherever that is.                               *)
(***************************************************************************)
Live ==
  ((mempool \cup abandoned \cup Connected) \ gaveUp) \cup ({asked} \ {None})
    \cup {t \in Txid : \E k \in Key : wallet.keyToOutpoint[k] \in OutputSet(t)}

\* A command has one output, and spends a name unless it commits to one.
IsCommand(t) ==
  \E o \in NamePoint :
    /\ OutputSet(t) = {o}
    /\ \/ InputSet(t) = {}
       \/ Output[o].type # "Commitment" /\ \E p \in NamePoint : InputSet(t) = {p}

\* What spends this outpoint is behind the names, or is the running command.
Behind(depth, u, p) ==
  /\ addressOf[p] \in wallet.addresses
  /\ \A k \in Key :
       LET o == wallet.keyToOutpoint[k]
       IN  o # None /\ addressOf[p] = addressOf[o] =>
             depth[p] < depth[o] \/ (p = o /\ u = asked)

LiveInv(depth) ==
  /\ KeptApart(wallet)
  /\ call = "none" => asked = None
  /\ call # "none" =>
       /\ KeptApart(walletTxn)
       /\ wallet.addresses \subseteq walletTxn.addresses
       /\ \E k \in Key : CommandMoves(k)
  /\ \A u \in Live : \A p \in InputSet(u) : Behind(depth, u, p)
  /\ \A t, u \in Live : t # u => InputSet(t) \cap InputSet(u) = {}
  /\ \A t \in Live : IsCommand(t)
  /\ \A k \in Key : wallet.keyToOutpoint[k] # None =>
       \E t \in Txid : wallet.keyToOutpoint[k] \in OutputSet(t)

LEMMA LiveType ==
  ASSUME WalletInv
  PROVE  Live \subseteq Txid /\ None \notin Txid /\ None \notin OutPoint
<1>1. mempool \subseteq Txid
  BY DEF WalletInv, ChainInv, TypeOK, NodeTypeOK
<1>2. Connected \subseteq Txid
  BY ConnectedType DEF WalletInv
<1> QED BY <1>1, <1>2, WalletAssumption, NoneAssumption DEF Live, WalletInv, WalletTypeOK

LEMMA LiveInvInit ==
  ASSUME NEW CONSTANT depth
  PROVE  WalletInit => LiveInv(depth)
<1> SUFFICES ASSUME WalletInit PROVE LiveInv(depth)
  OBVIOUS
<1>1. db.headers = <<Genesis>>
  BY NewStateType DEF WalletInit, Init
<1>2. Connected = {}
  BY <1>1 DEF Connected, Genesis
<1>3. \A k \in Key : wallet.keyToOutpoint[k] = None
  BY DEF WalletInit
<1>4. ASSUME NEW t \in Txid PROVE None \notin OutputSet(t)
  BY InputsAndOutputs, NoneAssumption
<1>5. Live = {}
  BY <1>2, <1>3, <1>4 DEF WalletInit, Init, Live
<1>6. KeptApart(wallet)
  BY <1>3 DEF WalletInit, KeptApart
<1> QED BY <1>3, <1>5, <1>6 DEF WalletInit, LiveInv

\* A new index is one the wallet has not used.
LEMMA IndexIsNew ==
  ASSUME WalletInv, AddressIndex \subseteq 0..(KeyRadix - 1), NewIndex(wallet) \in AddressIndex
  PROVE  NewIndex(wallet) \notin wallet.addresses
<1>1. PICK n : FirstAddresses(wallet, n)
  BY DEF WalletInv, AddressInv
<1>2. NewIndex(wallet) = IF n = KeyRadix + 1 THEN KeyRadix ELSE n
  BY <1>1, NextAddress
<1>3. n \in Nat /\ wallet.addresses = 0..(n - 1) /\ KeyRadix \in Nat
  BY <1>1, KeyRadixAssumption DEF FirstAddresses
<1>4. NewIndex(wallet) \in 0..(KeyRadix - 1)
  OBVIOUS
<1>5. NewIndex(wallet) # KeyRadix
  BY <1>3, <1>4
<1>6. NewIndex(wallet) = n
  BY <1>2, <1>5
<1> QED BY <1>3, <1>6

\* What a command writes.
LEMMA CommandFields ==
  ASSUME NEW st \in WalletState, NEW k \in Key, NEW t \in Txid, Len(Outputs[t]) = 1,
         NEW new, new = ConnectWallet(KeepOutpoint(st, k, Outputs[t][1]), t)
  PROVE  /\ OutputSet(t) = {Outputs[t][1]} /\ Outputs[t][1] \in OutPoint
         /\ new.addresses = st.addresses
         /\ new.keyToOutpoint = [st.keyToOutpoint EXCEPT ![k] = Outputs[t][1]]
         /\ \A o \in OutPoint : new.outpointToAddress[o] \in {addressOf[o], st.outpointToAddress[o]}
<1>1. Outputs[t] \in Seq(OutPoint \ Deposit)
  BY ConstantsAssumption
<1>2. OutputSet(t) = {Outputs[t][1]} /\ Outputs[t][1] \in OutPoint
  BY <1>1 DEF OutputSet, ToSet
<1>3. /\ new.addresses = st.addresses
      /\ new.keyToOutpoint = [st.keyToOutpoint EXCEPT ![k] = Outputs[t][1]]
      /\ new.outpointToAddress = [o \in OutPoint |->
           IF o \in OutputSet(t) THEN addressOf[o] ELSE st.outpointToAddress[o]]
  BY DEF ConnectWallet, KeepOutpoint, WalletState
<1> QED BY <1>2, <1>3

\* A command that begins or moves a name, when it calls the node.
LEMMA SubmitLive ==
  ASSUME NEW CONSTANT depth, InHashOrder(depth), WalletInv, LiveInv(depth),
         NEW st \in WalletState, NEW k \in Key, NEW t \in Txid, Len(Outputs[t]) = 1,
         Submit(KeepOutpoint(st, k, Outputs[t][1]), t),
         st.keyToOutpoint = wallet.keyToOutpoint, st.outpointToAddress = wallet.outpointToAddress,
         wallet.addresses \subseteq st.addresses,
         addressOf[Outputs[t][1]] \in st.addresses,
         \/ /\ InputSet(t) = {} /\ Output[Outputs[t][1]].type = "Commitment"
            /\ addressOf[Outputs[t][1]] \notin wallet.addresses
         \/ /\ InputSet(t) = {wallet.keyToOutpoint[k]} /\ wallet.keyToOutpoint[k] # None
            /\ Output[Outputs[t][1]].type \in {"Reveal", "KeyValue"}
            /\ addressOf[Outputs[t][1]] = addressOf[wallet.keyToOutpoint[k]]
  PROVE  LiveInv(depth)'
<1> DEFINE out == Outputs[t][1]
<1>1. /\ walletTxn' = ConnectWallet(KeepOutpoint(st, k, out), t)
      /\ asked' = t /\ call' = "sent" /\ asked = None
      /\ UNCHANGED <<wallet, abandoned, gaveUp, mempool, db>>
  BY DEF Submit, vars, nodeVars, WalletInv, WalletTypeOK, LiveInv
<1>2. /\ OutputSet(t) = {out} /\ out \in OutPoint
      /\ walletTxn'.addresses = st.addresses
      /\ walletTxn'.keyToOutpoint = [wallet.keyToOutpoint EXCEPT ![k] = out]
      /\ \A o \in OutPoint : walletTxn'.outpointToAddress[o] \in {addressOf[o], st.outpointToAddress[o]}
  BY <1>1, CommandFields
<1>3. /\ Live' = Live \cup {t} /\ Live \subseteq Txid /\ None \notin Txid /\ None \notin OutPoint
      /\ wallet.keyToOutpoint \in [Key -> OutPoint \cup {None}]
  BY <1>1, LiveType DEF Live, Connected, WalletInv, WalletTypeOK, WalletState
<1> HIDE DEF out
<1>4. KeptApart(walletTxn')
  <2>1. \A l \in Key : walletTxn'.keyToOutpoint[l] = IF l = k THEN out ELSE wallet.keyToOutpoint[l]
    BY <1>2, <1>3
  <2>2. \A l \in Key \ {k} : wallet.keyToOutpoint[l] # None =>
          /\ addressOf[wallet.keyToOutpoint[l]] \in wallet.addresses
          /\ addressOf[wallet.keyToOutpoint[l]] # addressOf[out]
    BY DEF LiveInv, KeptApart, out
  <2>3. \A o \in OutPoint : walletTxn'.outpointToAddress[o] \in {None, addressOf[o]}
    BY <1>2 DEF LiveInv, KeptApart
  <2>4. addressOf[out] \in st.addresses /\ walletTxn'.addresses = st.addresses
    BY <1>2 DEF out
  <2>5. \A l \in Key : walletTxn'.keyToOutpoint[l] # None =>
          addressOf[walletTxn'.keyToOutpoint[l]] \in st.addresses
    BY <2>1, <2>2, <2>4
  <2>6. \A l, m \in Key :
          l # m /\ walletTxn'.keyToOutpoint[l] # None /\ walletTxn'.keyToOutpoint[m] # None =>
            addressOf[walletTxn'.keyToOutpoint[l]] # addressOf[walletTxn'.keyToOutpoint[m]]
    BY <2>1, <2>2 DEF LiveInv, KeptApart
  <2> QED BY <2>3, <2>4, <2>5, <2>6 DEF KeptApart
<1>5. CommandMoves(k)'
  BY <1>1, <1>2, <1>3 DEF CommandMoves, out
<1>6. ASSUME NEW p \in InputSet(t) PROVE Behind(depth, t, p)' /\ \A u \in Live : p \in InputSet(u) => u = t
  <2>1. p = wallet.keyToOutpoint[k] /\ p # None
    BY <1>6
  <2>2. p \in OutPoint /\ depth[p] \in Nat
    BY <1>3, <2>1 DEF InHashOrder
  <2>3. ASSUME NEW u \in Live, p \in InputSet(u) PROVE u = t
    <3>1. Behind(depth, u, p)
      BY <2>3 DEF LiveInv
    <3>2. ~(depth[p] < depth[p])
      BY <2>2
    <3>3. u = asked
      BY <2>1, <3>1, <3>2 DEF Behind
    <3> QED BY <1>1, <1>3, <3>3
  <2>4. addressOf[p] \in wallet.addresses
    BY <2>1 DEF LiveInv, KeptApart
  <2>5. \A l \in Key : wallet.keyToOutpoint[l] # None /\ addressOf[p] = addressOf[wallet.keyToOutpoint[l]]
          => p = wallet.keyToOutpoint[l]
    BY <2>1 DEF LiveInv, KeptApart
  <2> QED BY <1>1, <2>3, <2>4, <2>5 DEF Behind
<1>7. ASSUME NEW u \in Live, NEW p \in InputSet(u) PROVE Behind(depth, u, p)'
  <2>1. Behind(depth, u, p)
    BY DEF LiveInv
  <2>2. u # asked
    BY <1>1, <1>3
  <2> QED BY <1>1, <2>1, <2>2 DEF Behind
<1>8. \A u \in Live' : \A p \in InputSet(u) : Behind(depth, u, p)'
  BY <1>3, <1>6, <1>7
<1>9. \A u, v \in Live' : u # v => InputSet(u) \cap InputSet(v) = {}
  BY <1>3, <1>6 DEF LiveInv
<1>10. \A p \in InputSet(t) : p = wallet.keyToOutpoint[k] /\ p \in NamePoint
  <2> SUFFICES ASSUME NEW p \in InputSet(t) PROVE p = wallet.keyToOutpoint[k] /\ p \in NamePoint
    OBVIOUS
  <2>1. p = wallet.keyToOutpoint[k] /\ p # None
    OBVIOUS
  <2>2. PICK u \in Txid : p \in OutputSet(u)
    BY <2>1 DEF LiveInv
  <2>3. u \in Live
    BY <2>1, <2>2 DEF Live
  <2> QED BY <2>1, <2>2, <2>3 DEF LiveInv, IsCommand
<1>11. IsCommand(t)
  <2>1. out \in NamePoint
    BY <1>2 DEF out, NamePoint
  <2> QED BY <1>2, <1>10, <2>1 DEF IsCommand, out
<1>12. \A u \in Live' : IsCommand(u)
  BY <1>3, <1>11 DEF LiveInv
<1> QED BY <1>1, <1>2, <1>4, <1>5, <1>8, <1>9, <1>12 DEF LiveInv

\* Nothing new comes in, and the wallet waits for what it waited for.
LEMMA LiveKept ==
  ASSUME NEW CONSTANT depth, LiveInv(depth), Live' \subseteq Live,
         UNCHANGED <<wallet, walletTxn, asked>>,
         call' = "none" <=> call = "none"
  PROVE  LiveInv(depth)'
<1>1. \A k \in Key : CommandMoves(k) => CommandMoves(k)'
  BY DEF CommandMoves
<1>2. \A u, p : Behind(depth, u, p) => Behind(depth, u, p)'
  BY DEF Behind
<1> QED BY <1>1, <1>2 DEF LiveInv, KeptApart

\* What is connected was in the mempool.
LEMMA ConnectedGrows ==
  ASSUME ChainInv, CreditInv, WaitInv, [Next]_vars
  PROVE  Connected \subseteq Connected' /\ Connected' \subseteq Connected \cup mempool
<1>1. CASE Commit
  <2>1. Connecting /\ Connected' = Connected \cup cur.txs
    BY <1>1, CommitConnects
  <2> QED BY <2>1 DEF WaitInv, RestInTime
<1>2. CASE ~Commit
  <2>1. db' = db
    BY <1>2, StepKinds DEF ConfirmBmm, InBody, ConnectTransaction, SweepExpired, BroadcastBundle,
       Elsewhere, nodeVars
  <2> QED BY <2>1 DEF Connected
<1> QED BY <1>1, <1>2

\* Only a call brings a transaction in.
LEMMA NodeAloneKeeps ==
  ASSUME NodeAlone \/ RestartNode
  PROVE  mempool' \subseteq mempool
<1>1. HandlerStep => mempool' \subseteq mempool
  BY DEF HandlerStep, CreateBmm, ConnectTransaction, SweepExpired, ConnectFails, Poison, BroadcastBundle, Commit
<1> QED BY <1>1 DEF NodeAlone, RestartNode, Restart, AttemptBmm, ConfirmBmm, ConfirmFails, HeaderFails,
           CollectFails, CallFails, AnswerLost, Poison, nodeVars

\* The output of the running command is none that the wallet keeps.
LEMMA AskedIsNew ==
  ASSUME NEW CONSTANT depth, InHashOrder(depth), WalletInv, LiveInv(depth), call # "none",
         NEW l \in Key, wallet.keyToOutpoint[l] \in OutputSet(asked)
  PROVE  FALSE
<1>1. asked \in Txid /\ asked \in Live /\ None \notin OutputSet(asked)
  <2>1. asked \in Txid /\ None \notin Txid
    BY LiveType DEF WalletInv
  <2> QED BY <2>1, InputsAndOutputs, NoneAssumption DEF Live
<1>2. PICK k \in Key : CommandMoves(k)
  BY DEF LiveInv
<1> DEFINE old == wallet.keyToOutpoint[l]
           new == walletTxn.keyToOutpoint[k]
<1>3. old = new /\ old # None
  <2>1. new \in OutputSet(asked)
    BY <1>2 DEF CommandMoves
  <2> QED BY <1>1, <2>1 DEF LiveInv, IsCommand
<1>4. addressOf[old] \in wallet.addresses
  BY <1>3 DEF LiveInv, KeptApart
<1>5. /\ InputSet(asked) = {wallet.keyToOutpoint[k]} /\ wallet.keyToOutpoint[k] # None
      /\ addressOf[new] = addressOf[wallet.keyToOutpoint[k]]
  BY <1>2, <1>3, <1>4 DEF CommandMoves
<1>6. l = k
  BY <1>3, <1>5 DEF LiveInv, KeptApart
<1>7. old \in InputSet(asked) /\ old \in OutputSet(asked)
  BY <1>5, <1>6
<1>8. old \in OutPoint
  BY <1>1, <1>7, InputsAndOutputs
<1>9. depth[old] \in Nat /\ depth[old] < depth[old]
  BY <1>1, <1>7, <1>8 DEF InHashOrder
<1> QED BY <1>9

LEMMA LiveInvStep ==
  ASSUME NEW CONSTANT depth, InHashOrder(depth), AddressIndex \subseteq 0..(KeyRadix - 1)
  PROVE  WalletInv /\ NodeInv /\ LiveInv(depth) /\ WalletStep => LiveInv(depth)'
<1> SUFFICES ASSUME WalletInv, NodeInv, LiveInv(depth), WalletStep PROVE LiveInv(depth)'
  OBVIOUS
<1>00. Connected \subseteq Connected' /\ Connected' \subseteq Connected \cup mempool
  BY StepOfNode, ConnectedGrows DEF WalletInv, NodeInv
<1>0. wallet \in WalletState /\ (walletTxn = None <=> call = "none")
  BY DEF WalletInv, WalletTypeOK
<1>1. CASE GetNewAddress \/ Update
  <2>1. /\ wallet'.keyToOutpoint = wallet.keyToOutpoint
        /\ wallet'.outpointToAddress = wallet.outpointToAddress
        /\ wallet.addresses \subseteq wallet'.addresses
    BY <1>0, <1>1 DEF GetNewAddress, Update, WithAddress, WalletState
  <2>2. call = "none" /\ UNCHANGED <<asked, call, gaveUp, abandoned, mempool, Connected>>
    BY <1>0, <1>1 DEF GetNewAddress, Update, vars, nodeVars, Connected
  <2>3. CASE GetNewAddress
    <3>1. wallet'.addresses = wallet.addresses \cup {NewIndex(wallet)} /\ NewIndex(wallet) \notin wallet.addresses
      BY <1>0, <2>3, IndexIsNew DEF GetNewAddress, WithAddress, WalletState
    <3> QED BY <2>1, <2>2, <3>1 DEF LiveInv, KeptApart, Behind, Live
  <2>4. CASE Update
    BY <2>1, <2>2 DEF LiveInv, KeptApart, Behind, Live
  <2> QED BY <1>1, <2>3, <2>4
<1>2. ASSUME NEW k \in Key, CommitName(k) PROVE LiveInv(depth)'
  <2> DEFINE i == NewIndex(wallet)
             content == [type |-> "Commitment", commitment |-> hmac[<<k, salt[<<i, k>>]>>]]
  <2>1. i \in AddressIndex
    BY <1>2 DEF CommitName
  <2>2. PICK t \in Txid :
          /\ Builds(t, <<>>, i, content)
          /\ Submit(KeepOutpoint(WithAddress(wallet), k, Outputs[t][1]), t)
    BY <1>2 DEF CommitName
  <2>3. /\ Len(Outputs[t]) = 1 /\ addressOf[Outputs[t][1]] = i /\ InputSet(t) = {}
        /\ Output[Outputs[t][1]].type = "Commitment"
    BY <2>2 DEF Builds, InputSet, ToSet
  <2>4. i \notin wallet.addresses
    BY <2>1, IndexIsNew
  <2>5. /\ WithAddress(wallet) \in WalletState
        /\ WithAddress(wallet).addresses = wallet.addresses \cup {i}
        /\ WithAddress(wallet).keyToOutpoint = wallet.keyToOutpoint
        /\ WithAddress(wallet).outpointToAddress = wallet.outpointToAddress
    BY <1>0, <2>1, AddressType DEF WithAddress, WalletState
  <2> QED BY <2>2, <2>3, <2>4, <2>5, SubmitLive
<1>3. ASSUME NEW k \in Key, ClaimName(k) \/ \E v \in Value : SetName(k, v) PROVE LiveInv(depth)'
  <2> DEFINE o == wallet.keyToOutpoint[k]
  <2> DEFINE Built(t) ==
        /\ o # None /\ KeptAddress(k) # None
        /\ Inputs[t] = <<o>> /\ Len(Outputs[t]) = 1 /\ addressOf[Outputs[t][1]] = KeptAddress(k)
        /\ Output[Outputs[t][1]].type \in {"Reveal", "KeyValue"}
        /\ Submit(KeepOutpoint(wallet, k, Outputs[t][1]), t)
  <2>1. PICK t \in Txid : Built(t)
    <3>1. CASE ClaimName(k)
      <4>1. PICK t \in Txid :
              /\ Spends(k, t, [type |-> "Reveal", key |-> k, salt |-> salt[<<KeptAddress(k), k>>]])
              /\ Submit(KeepOutpoint(wallet, k, Outputs[t][1]), t)
        BY <3>1 DEF ClaimName
      <4>2. Output[Outputs[t][1]].type = "Reveal"
        BY <4>1 DEF Spends, Builds
      <4> QED BY <4>1, <4>2 DEF Spends, Builds
    <3>2. ASSUME NEW v \in Value, SetName(k, v) PROVE \E t \in Txid : Built(t)
      <4>1. PICK t \in Txid :
              /\ Spends(k, t, [type |-> "KeyValue", key |-> k, value |-> v])
              /\ Submit(KeepOutpoint(wallet, k, Outputs[t][1]), t)
        BY <3>2 DEF SetName
      <4>2. Output[Outputs[t][1]].type = "KeyValue"
        BY <4>1 DEF Spends, Builds
      <4> QED BY <4>1, <4>2 DEF Spends, Builds
    <3> QED BY <1>3, <3>1, <3>2
  <2>2. InputSet(t) = {o}
    BY <2>1 DEF InputSet, ToSet
  <2>3. o \in OutPoint
    BY <1>0, <2>1 DEF WalletState
  <2>4. KeptAddress(k) = addressOf[o] /\ addressOf[o] \in wallet.addresses
    BY <2>1, <2>3 DEF LiveInv, KeptApart, KeptAddress
  <2> QED BY <1>0, <2>1, <2>2, <2>4, SubmitLive
<1>4. CASE ServeCall \/ (\E t \in Txid : ServeAbandoned(t))
  <2>1. \A t \in Txid : Serve(t) => mempool' \subseteq mempool \cup {t}
    BY DEF Serve, SubmitTransaction, vars, nodeVars
  <2>2. call = "sent" => asked \in Txid /\ asked # None
    BY LiveType DEF WalletInv
  <2>3. /\ UNCHANGED <<wallet, walletTxn, asked, gaveUp>>
        /\ abandoned' \subseteq abandoned /\ mempool' \ gaveUp \subseteq Live
        /\ (call' = "none" <=> call = "none")
    BY <1>4, <2>1, <2>2 DEF ServeCall, ServeAbandoned, Live
  <2>4. Live' \subseteq Live
    BY <1>00, <2>3 DEF Live
  <2> QED BY <1>00, <2>3, <2>4, LiveKept
<1>5. CASE NodeAlone \/ RestartNode \/ UNCHANGED allVars
  <2>1. /\ UNCHANGED <<wallet, walletTxn, asked, gaveUp>>
        /\ abandoned' \subseteq abandoned /\ (call' = "none" <=> call = "none")
    BY <1>5 DEF NodeAlone, RestartNode, walletVars, allVars
  <2>2. mempool' \subseteq mempool
    BY <1>5, NodeAloneKeeps DEF allVars, vars, nodeVars
  <2>3. Live' \subseteq Live
    BY <1>00, <2>1, <2>2 DEF Live
  <2> QED BY <1>00, <2>1, <2>3, LiveKept
<1>6. CASE GiveUp
  <2>1. /\ call # "none" /\ asked' = None /\ call' = "none" /\ gaveUp' = gaveUp \cup {asked}
        /\ abandoned' \subseteq abandoned \cup {asked} /\ UNCHANGED <<wallet, mempool, Connected>>
    BY <1>6 DEF GiveUp, Done, vars, nodeVars, Connected
  <2>2. asked \in Txid /\ Live \subseteq Txid /\ None \notin Txid
    BY <2>1, LiveType DEF WalletInv
  <2>3. Live' \subseteq Live \ {asked}
    <3>1. Live' \subseteq Live
      BY <2>1, <2>2 DEF Live
    <3>2. asked \notin Live'
      BY <1>0, <2>1, <2>2, AskedIsNew DEF Live
    <3> QED BY <3>1, <3>2
  <2>4. ASSUME NEW u \in Live', NEW p \in InputSet(u) PROVE Behind(depth, u, p)'
    <3>1. Behind(depth, u, p) /\ u # asked
      BY <2>3 DEF LiveInv
    <3> QED BY <2>1, <3>1 DEF Behind
  <2> QED BY <2>1, <2>3, <2>4 DEF LiveInv, KeptApart
<1>7. CASE CommitWallet
  <2>1. /\ call # "none" /\ asked' = None /\ call' = "none" /\ gaveUp' = gaveUp \ {asked}
        /\ wallet' = walletTxn /\ UNCHANGED <<abandoned, mempool, Connected>>
    BY <1>7 DEF CommitWallet, Done, vars, nodeVars, Connected
  <2>2. /\ asked \in Txid /\ Live \subseteq Txid /\ None \notin Txid
        /\ walletTxn.keyToOutpoint \in [Key -> OutPoint \cup {None}]
        /\ wallet.keyToOutpoint \in [Key -> OutPoint \cup {None}]
    BY <1>0, <2>1, LiveType DEF WalletInv, LiveInv, WalletState
  <2>4. PICK k \in Key : CommandMoves(k)
    BY <2>1 DEF LiveInv
  <2>3. /\ Live' \subseteq Live
        /\ \A l \in Key : wallet'.keyToOutpoint[l] # None =>
             \E t \in Txid : wallet'.keyToOutpoint[l] \in OutputSet(t)
    <3>1. \A l \in Key : \/ wallet'.keyToOutpoint[l] = wallet.keyToOutpoint[l]
                        \/ wallet'.keyToOutpoint[l] \in OutputSet(asked)
      BY <2>1, <2>4 DEF CommandMoves
    <3>2. ASSUME NEW t \in Txid, NEW l \in Key, wallet'.keyToOutpoint[l] \in OutputSet(t)
          PROVE  t \in Live
      <4>1. CASE wallet'.keyToOutpoint[l] = wallet.keyToOutpoint[l]
        BY <3>2, <4>1 DEF Live
      <4>2. CASE wallet'.keyToOutpoint[l] \in OutputSet(asked)
        BY <2>2, <3>2, <4>2, OneMaker DEF Live
      <4> QED BY <3>1, <4>1, <4>2
    <3>3. ((mempool \cup abandoned \cup Connected) \ gaveUp) \cup {asked} \subseteq Live
      BY <2>2 DEF Live
    <3>4. Live' \subseteq Live
      BY <2>1, <3>2, <3>3 DEF Live
    <3> QED BY <2>2, <3>1, <3>4 DEF LiveInv
  <2> DEFINE old == wallet.keyToOutpoint[k]
             new == walletTxn.keyToOutpoint[k]
  <2>5. ASSUME NEW u \in Live, NEW p \in InputSet(u) PROVE Behind(depth, u, p)'
    <3>1. Behind(depth, u, p) /\ addressOf[p] \in walletTxn.addresses
      BY <2>1 DEF LiveInv, Behind
    <3>2. p \in OutPoint /\ depth[p] \in Nat
      <4>1. u \in Txid /\ Inputs[u] \in Seq(OutPoint)
        BY <2>2, ConstantsAssumption
      <4> QED BY <4>1 DEF InputSet, ToSet, InHashOrder
    <3>3. ASSUME addressOf[p] = addressOf[new] PROVE depth[p] < depth[new]
      <4>1. InputSet(asked) = {old} /\ old # None /\ addressOf[new] = addressOf[old]
        BY <2>4, <3>1, <3>3 DEF CommandMoves, Behind
      <4>2. depth[p] < depth[old] \/ p = old
        BY <3>1, <3>3, <4>1 DEF Behind
      <4>3. depth[old] < depth[new] /\ old \in OutPoint /\ new \in OutPoint
        <5>1. new \in OutputSet(asked) /\ old \in InputSet(asked)
          BY <2>4, <4>1 DEF CommandMoves
        <5>2. new # None
          <6>1. Outputs[asked] \in Seq(OutPoint \ Deposit)
            BY <2>2, ConstantsAssumption
          <6> QED BY <5>1, <6>1, NoneAssumption DEF OutputSet, ToSet
        <5> QED BY <2>2, <4>1, <5>1, <5>2 DEF InHashOrder
      <4>4. depth[old] \in Nat /\ depth[new] \in Nat
        BY <4>3 DEF InHashOrder
      <4> QED BY <3>2, <4>2, <4>3, <4>4
    <3>4. ASSUME NEW l \in Key \ {k}, walletTxn.keyToOutpoint[l] # None,
                 addressOf[p] = addressOf[walletTxn.keyToOutpoint[l]]
          PROVE  depth[p] < depth[walletTxn.keyToOutpoint[l]]
      <4>1. walletTxn.keyToOutpoint[l] = wallet.keyToOutpoint[l]
        BY <2>4 DEF CommandMoves
      <4>2. depth[p] < depth[wallet.keyToOutpoint[l]] \/ (p = wallet.keyToOutpoint[l] /\ u = asked)
        BY <2>2, <3>1, <3>4, <4>1 DEF Behind
      <4>3. ~(p = wallet.keyToOutpoint[l] /\ u = asked)
        <5> SUFFICES ASSUME p = wallet.keyToOutpoint[l], u = asked PROVE FALSE
          OBVIOUS
        <5>1. p = old /\ old # None
          BY <2>4 DEF CommandMoves
        <5> QED BY <5>1, <3>4, <2>4, <4>1 DEF LiveInv, KeptApart, CommandMoves
      <4> QED BY <4>1, <4>2, <4>3
    <3> HIDE DEF new
    <3> QED BY <2>1, <3>1, <3>3, <3>4 DEF Behind, new
  <2> QED BY <2>1, <2>3, <2>5 DEF LiveInv, KeptApart
<1> QED BY <1>1, <1>2, <1>3, <1>4, <1>5, <1>6, <1>7 DEF WalletStep, WalletNext


(***************************************************************************)
(* Where addresses do not run out, whatever calls are lost, repeated and   *)
(* served late: two transactions of the mempool spend one output only if   *)
(* the command of one of them failed and was not repeated to its end.      *)
(***************************************************************************)
THEOREM MempoolDisjoint ==
  ASSUME NEW CONSTANT depth, InHashOrder(depth), AddressIndex \subseteq 0..(KeyRadix - 1)
  PROVE  WalletSpec => []NoDoubleSpend
<1>1. WalletInit => LiveInv(depth)
  BY LiveInvInit
<1>2. WalletInv /\ NodeInv /\ LiveInv(depth) /\ WalletStep => LiveInv(depth)'
  BY LiveInvStep
<1>3. LiveInv(depth) => NoDoubleSpend
  BY DEF LiveInv, NoDoubleSpend, Live
<1> QED BY <1>1, <1>2, <1>3, WalletInvInit, WalletInvStep, NodeInvInit, NodeInvStep, PTL
        DEF WalletSpec, WalletStep

-----------------------------------------------------------------------------
(* The wallet and the node are in step.                                    *)

\* An outpoint the wallet keeps, and what makes it.
LEMMA KeptIsMade ==
  ASSUME NEW CONSTANT depth, LiveInv(depth), NEW k \in Key, wallet.keyToOutpoint[k] # None
  PROVE  LET o == wallet.keyToOutpoint[k]
         IN  /\ Maker(o) \in Txid /\ Maker(o) \in Live
             /\ OutputSet(Maker(o)) = {o} /\ o \in NamePoint /\ IsCommand(Maker(o))
<1> DEFINE o == wallet.keyToOutpoint[k]
<1>1. Maker(o) \in Txid /\ o \in OutputSet(Maker(o))
  <2>1. \E t \in Txid : o \in OutputSet(t)
    BY DEF LiveInv
  <2> HIDE DEF o
  <2> QED BY <2>1 DEF Maker
<1>2. Maker(o) \in Live
  BY <1>1 DEF Live
<1> QED BY <1>1, <1>2 DEF LiveInv, IsCommand

\* A command that was connected made what can be spent.
LEMMA ConnectedCanBeSpent ==
  ASSUME KeptInv, ChainInv, NEW t \in Connected, NEW o \in OutputSet(t) \ Spent,
         o \in NamePoint, Output[o].type # "Commitment"
  PROVE  o \in db.utxos
<1>1. \A b \in received : o \notin ToSet(b)
  BY BundleMembers DEF ChainInv, TypeOK, MainTypeOK, Withdrawals, NamePoint
<1> QED BY <1>1 DEF KeptInv, Kept

(***************************************************************************)
(* What the wallet keeps was connected, waits, or was dropped; and what the*)
(* node just answered valid waits, unless it was connected or lost since.  *)
(***************************************************************************)
Placed(t) == t \in Connected \cup mempool \cup dropped

PlacedInv ==
  /\ \A t \in Txid, k \in Key : wallet.keyToOutpoint[k] \in OutputSet(t) => Placed(t)
  /\ call = "valid" => Placed(asked)

LEMMA PlacedInvInit == WalletInit => PlacedInv
<1>1. \A t \in Txid : None \notin OutputSet(t)
  BY InputsAndOutputs, NoneAssumption
<1> QED BY <1>1 DEF WalletInit, PlacedInv

\* A transaction leaves the mempool with a block or with the process.
LEMMA MempoolKept ==
  ASSUME WalletInv, NodeInv, WalletStep
  PROVE  \A t : Placed(t) => Placed(t)'
<1>1. Connected \subseteq Connected'
  BY StepOfNode, ConnectedGrows DEF WalletInv, NodeInv
<1>2. CASE Commit
  <2>1. Connected' = Connected \cup cur.txs
    BY <1>2, CommitConnects DEF WalletInv, NodeInv
  <2>2. mempool' = mempool \ cur.txs /\ pc = "commit" /\ pc' = "idle"
    BY <1>2 DEF Commit
  <2>3. dropped \subseteq dropped'
    BY DEF WalletStep, WalletNext, GetNewAddress, CommitName, ClaimName, SetName, Submit, ServeCall,
       ServeAbandoned, CommitWallet, GiveUp, Update, NodeAlone, RestartNode, walletVars, allVars
  <2> QED BY <1>1, <2>1, <2>2, <2>3 DEF Placed
<1>3. CASE RestartNode
  BY <1>1, <1>3 DEF RestartNode, Placed
<1>4. ASSUME ~Commit, ~RestartNode PROVE mempool \subseteq mempool' /\ dropped \subseteq dropped'
  <2>1. CASE NodeAlone
    <3>1. HandlerStep => mempool' = mempool
      BY <1>4 DEF HandlerStep, CreateBmm, ConnectTransaction, SweepExpired, ConnectFails, Poison,
         BroadcastBundle
    <3> QED BY <2>1, <3>1 DEF NodeAlone, AttemptBmm, ConfirmBmm, ConfirmFails, HeaderFails,
           CollectFails, CallFails, AnswerLost, Poison, nodeVars, walletVars
  <2>2. CASE ServeCall \/ \E t \in Txid : ServeAbandoned(t)
    BY <2>2 DEF ServeCall, ServeAbandoned, Serve, SubmitTransaction, vars, nodeVars
  <2>3. CASE GetNewAddress \/ CommitWallet \/ GiveUp \/ Update \/ UNCHANGED allVars
    BY <2>3 DEF GetNewAddress, CommitWallet, GiveUp, Update, Done, allVars, walletVars, vars, nodeVars
  <2>4. CASE \E k \in Key : CommitName(k) \/ ClaimName(k) \/ \E v \in Value : SetName(k, v)
    BY <2>4 DEF CommitName, ClaimName, SetName, Submit, vars, nodeVars
  <2> QED BY <1>4, <2>1, <2>2, <2>3, <2>4 DEF WalletStep, WalletNext
<1> QED BY <1>1, <1>2, <1>3, <1>4 DEF Placed

LEMMA PlacedInvStep ==
  ASSUME NEW CONSTANT depth
  PROVE  WalletInv /\ NodeInv /\ LiveInv(depth) /\ PlacedInv /\ WalletStep => PlacedInv'
<1> SUFFICES ASSUME WalletInv, NodeInv, LiveInv(depth), PlacedInv, WalletStep PROVE PlacedInv'
  OBVIOUS
<1>1. \A t : Placed(t) => Placed(t)'
  BY MempoolKept
<1>2. CASE CommitWallet
  <2>1. /\ wallet' = walletTxn /\ call' = "none" /\ call \in {"valid", "invalid"}
        /\ dropped' = IF call = "invalid" THEN dropped \cup {asked} ELSE dropped
    BY <1>2 DEF CommitWallet, Done
  <2>0. PICK ended : ended = asked
    OBVIOUS
  <2>2. Placed(ended)'
    <3>1. CASE call = "valid"
      BY <1>1, <2>0, <3>1 DEF PlacedInv
    <3>2. CASE call = "invalid"
      BY <2>0, <2>1, <3>2 DEF Placed
    <3> QED BY <2>1, <3>1, <3>2
  <2>3. PICK k \in Key : CommandMoves(k)
    BY <2>1 DEF LiveInv
  <2>4. asked \in Txid
    BY <2>1 DEF WalletInv
  <2>5. ASSUME NEW t \in Txid, NEW l \in Key, wallet'.keyToOutpoint[l] \in OutputSet(t)
        PROVE  Placed(t)'
    <3>1. CASE l = k
      <4>1. wallet'.keyToOutpoint[l] \in OutputSet(asked)
        BY <2>1, <2>3, <3>1 DEF CommandMoves
      <4>2. t = ended
        BY <2>0, <2>4, <2>5, <4>1, OneMaker
      <4> QED BY <2>2, <4>2
    <3>2. CASE l # k
      <4>1. wallet'.keyToOutpoint[l] = wallet.keyToOutpoint[l]
        BY <2>1, <2>3, <3>2 DEF CommandMoves
      <4> QED BY <1>1, <2>5, <4>1 DEF PlacedInv
    <3> QED BY <3>1, <3>2
  <2> QED BY <2>1, <2>5 DEF PlacedInv
<1>3. CASE ServeCall
  <2>1. UNCHANGED <<wallet, asked>>
    BY <1>3 DEF ServeCall
  <2>2. call' = "valid" => asked \in mempool'
    BY <1>3 DEF ServeCall, Serve, SubmitTransaction
  <2> QED BY <1>1, <2>1, <2>2 DEF PlacedInv, Placed
<1>4. ASSUME ~CommitWallet, ~ServeCall
      PROVE  /\ wallet'.keyToOutpoint = wallet.keyToOutpoint
             /\ call' = "valid" => call = "valid" /\ asked' = asked
  <2>1. CASE GetNewAddress \/ Update
    <3>1. wallet \in WalletState
      BY DEF WalletInv, WalletTypeOK
    <3> QED BY <2>1, <3>1 DEF GetNewAddress, Update, WithAddress, WalletState
  <2>2. CASE \E k \in Key : CommitName(k) \/ ClaimName(k) \/ \E v \in Value : SetName(k, v)
    BY <2>2 DEF CommitName, ClaimName, SetName, Submit
  <2>3. CASE GiveUp \/ RestartNode
    BY <2>3 DEF GiveUp, Done, RestartNode
  <2>4. CASE NodeAlone \/ UNCHANGED allVars \/ \E t \in Txid : ServeAbandoned(t)
    BY <2>4 DEF NodeAlone, allVars, walletVars, ServeAbandoned
  <2> QED BY <1>4, <2>1, <2>2, <2>3, <2>4 DEF WalletStep, WalletNext
<1>5. CASE ~CommitWallet /\ ~ServeCall
  BY <1>1, <1>4, <1>5 DEF PlacedInv
<1> QED BY <1>2, <1>3, <1>5

LEMMA KeptInStep ==
  ASSUME NEW CONSTANT depth, InHashOrder(depth), Unrepeated = Commitment,
         WalletInv, NodeInv, LiveInv(depth), PlacedInv
  PROVE  InStep
<1> SUFFICES ASSUME NEW k \in Key, wallet.keyToOutpoint[k] # None
             PROVE  LET o == wallet.keyToOutpoint[k]
                        t == Maker(o)
                    IN  IF t \in Connected
                        THEN \/ o \in db.utxos
                             \/ TooOld(o)
                             \/ \E u \in Connected : o \in InputSet(u) /\ u \in gaveUp \cup {asked}
                        ELSE t \in mempool \cup dropped
  BY DEF InStep
<1> DEFINE o == wallet.keyToOutpoint[k]
           t == Maker(o)
<1>1. t \in Txid /\ OutputSet(t) = {o} /\ o \in NamePoint
  BY KeptIsMade
<1>2. t \notin Connected => t \in mempool \cup dropped
  BY <1>1 DEF PlacedInv, Placed
<1>3. ASSUME o \in Spent PROVE \E u \in Connected : o \in InputSet(u) /\ u \in gaveUp \cup {asked}
  <2>1. PICK u \in Connected : o \in InputSet(u)
    BY <1>3 DEF Spent
  <2>2. CASE u \in gaveUp
    BY <2>1, <2>2
  <2>3. CASE u \notin gaveUp
    <3>1. u \in Live
      BY <2>3 DEF Live
    <3>2. Behind(depth, u, o)
      BY <2>1, <3>1 DEF LiveInv
    <3>3. ~(depth[o] < depth[o])
      BY <1>1 DEF InHashOrder, NamePoint
    <3>4. u = asked
      BY <3>2, <3>3 DEF Behind
    <3> QED BY <2>1, <3>4
  <2> QED BY <2>2, <2>3
<1> HIDE DEF o, t
<1>4. ASSUME t \in Connected, o \notin Spent PROVE o \in db.utxos \/ TooOld(o)
  <2>1. CASE Output[o].type # "Commitment"
    BY <1>1, <1>4, <2>1, ConnectedCanBeSpent DEF WalletInv, NodeInv
  <2>2. CASE Output[o].type = "Commitment"
    <3> DEFINE c == Output[o].commitment
    <3>1. o \in OutPoint /\ c \in Commitment /\ CommitsTo(o, c)
      BY <1>1, <2>2, OutputType DEF NamePoint, CommitsTo
    <3>2. o \in Outs(Connected)
      BY <1>1, <1>4 DEF Outs
    <3>3. db.commitmentToHeight[c] # None => o \in db.utxos
      BY <1>4, <3>1, <3>2 DEF NodeInv, MadeInv, MadeAndOpen
    <3> QED BY <3>1, <3>3 DEF TooOld
  <2> QED BY <2>1, <2>2
<1> QED BY <1>2, <1>3, <1>4 DEF o, t

(***************************************************************************)
(* The wallet and the node are out of step on a name only as InStep says:  *)
(* whatever calls are lost, repeated and served late, and wherever the node*)
(* loses its mempool.  Addresses do not run out, and every output that     *)
(* commits has a commitment of its own, as those of name commit have then. *)
(***************************************************************************)
THEOREM WalletInStep ==
  ASSUME NEW CONSTANT depth, InHashOrder(depth),
         AddressIndex \subseteq 0..(KeyRadix - 1), Unrepeated = Commitment
  PROVE  WalletSpec => []InStep
<1>1. WalletInit => LiveInv(depth)
  BY LiveInvInit
<1>2. WalletInv /\ NodeInv /\ LiveInv(depth) /\ WalletStep => LiveInv(depth)'
  BY LiveInvStep
<1>3. WalletInv /\ NodeInv /\ LiveInv(depth) /\ PlacedInv /\ WalletStep => PlacedInv'
  BY PlacedInvStep
<1>4. WalletInv /\ NodeInv /\ LiveInv(depth) /\ PlacedInv => InStep
  BY KeptInStep
<1> QED BY <1>1, <1>2, <1>3, <1>4, WalletInvInit, WalletInvStep, NodeInvInit, NodeInvStep,
           PlacedInvInit, PTL
        DEF WalletSpec, WalletStep
=============================================================================
