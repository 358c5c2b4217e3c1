----------------------------- MODULE NodeProofs -----------------------------
(***************************************************************************)
(* Theorems about a node for every value of the constants.  First the      *)
(* lemmas on the operators of BitNamesState: which fields of the state an  *)
(* operation leaves alone, and that it maps states to states.              *)
(***************************************************************************)
EXTENDS BlockValidation, FiniteSetTheorems, SequenceTheorems, TLAPS

\* Max finds the greatest member of a finite set that is not empty.
LEMMA MaxOfFinite ==
  ASSUME NEW S \in SUBSET Nat, IsFiniteSet(S), S # {}
  PROVE  Max(S) \in S /\ \A i \in S : i <= Max(S)
<1> DEFINE Above(i) == {j \in S : j > i}
           F == {Above(i) : i \in S}
           R == StrictSubsetOrdering(S)
<1>1. F \subseteq FiniteSubsetsOf(S)
  BY FS_Subset DEF FiniteSubsetsOf
<1>2. F # {}
  OBVIOUS
<1>3. IsWellFoundedOn(R, FiniteSubsetsOf(S))
  BY FS_StrictSubsetOrderingWellFounded
<1>4. \E T \in F : \A U \in F : ~(<<U, T>> \in R)
  <2> HIDE DEF F, R
  <2> QED BY <1>1, <1>2, <1>3, WFMin
<1>5. PICK i \in S : \A U \in F : ~(<<U, Above(i)>> \in R)
  BY <1>4
<1>6. ASSUME NEW j \in S PROVE i >= j
  <2> SUFFICES ASSUME j > i PROVE FALSE
    OBVIOUS
  <2>1. Above(j) \subseteq Above(i) /\ Above(j) # Above(i)
    <3>1. j \in Above(i) /\ j \notin Above(j)
      OBVIOUS
    <3>2. ASSUME NEW l \in Above(j) PROVE l \in Above(i)
      OBVIOUS
    <3> QED BY <3>1, <3>2
  <2>2. <<Above(j), Above(i)>> \in R
    BY <2>1 DEF StrictSubsetOrdering
  <2> QED BY <2>2, <1>5
<1> QED BY <1>6 DEF Max

\* The output of t that is written last is one of those that write the entry.
LEMMA LastOutputIsOne ==
  ASSUME NEW t \in Txid, NEW vouts \in SUBSET DOMAIN Outputs[t], vouts # {}
  PROVE  \E i \in vouts : LastOutput(t, vouts) = Outputs[t][i]
<1>1. DOMAIN Outputs[t] = 1..Len(Outputs[t]) /\ Len(Outputs[t]) \in Nat
  BY ConstantsAssumption
<1>2. vouts \in SUBSET Nat
  BY <1>1
<1>3. IsFiniteSet(vouts)
  <2>1. IsFiniteSet(1..Len(Outputs[t]))
    BY <1>1, FS_Interval
  <2> QED BY <1>1, <2>1, FS_Subset
<1> QED BY <1>2, <1>3, MaxOfFinite DEF LastOutput

\* Inputs and outputs of a transaction are outpoints.
LEMMA InputsAndOutputs ==
  ASSUME NEW t \in Txid
  PROVE  /\ InputSet(t) \in SUBSET OutPoint
         /\ OutputSet(t) \in SUBSET (OutPoint \ Deposit)
         /\ \A i \in DOMAIN Outputs[t] : Outputs[t][i] \in OutputSet(t)
<1>1. Inputs[t] \in Seq(OutPoint) /\ Outputs[t] \in Seq(OutPoint \ Deposit)
  BY ConstantsAssumption
<1>2. \A i \in DOMAIN Inputs[t] : Inputs[t][i] \in OutPoint
  BY <1>1
<1>3. \A i \in DOMAIN Outputs[t] : Outputs[t][i] \in OutPoint \ Deposit
  BY <1>1
<1> QED BY <1>2, <1>3 DEF InputSet, OutputSet, ToSet

\* What Content says of an output by its type.
LEMMA OutputType ==
  ASSUME NEW o \in OutPoint
  PROVE  /\ Output[o].type = "Commitment" => Output[o].commitment \in Commitment
         /\ Output[o].type = "Reveal" => /\ Output[o].key \in Key
                                         /\ Output[o].salt \in Salt
                                         /\ RevealedBy(o) \in Commitment
         /\ Output[o].type = "KeyValue" => Output[o].key \in Key /\ Output[o].value \in Value
<1>1. Output[o] \in Content
  BY ConstantsAssumption
<1>2. Output[o].type = "Reveal" => Output[o].key \in Key /\ Output[o].salt \in Salt
  BY <1>1 DEF Content
<1>3. \A k \in Key, s \in Salt : hmac[<<k, s>>] \in Commitment
  BY ConstantsAssumption
<1> QED BY <1>1, <1>2, <1>3 DEF Content, RevealedBy

-----------------------------------------------------------------------------
(* Every operation of connect_block maps states to states.                 *)

\* BitNamesState::new: an empty environment with the genesis header.
LEMMA NewStateType == NewState \in State /\ NewState.headers = <<Genesis>>
<1>1. Genesis \in Header
  BY DEF Genesis, Header, BlockHash
<1> QED BY <1>1 DEF NewState, State

\* The hash of a header is a block hash.
LEMMA HashType ==
  ASSUME NEW header \in Header
  PROVE  Hash(header) \in BlockHash
BY DEF Hash, Header, BlockHash

\* The header and the deposits.
LEMMA ConnectHeaderType ==
  ASSUME NEW st \in State, NEW header \in Header, NEW deposits \in SUBSET OutPoint,
         NEW depositBlock \in Nat \cup {None}
  PROVE  /\ ConnectHeader(st, header, deposits, depositBlock) \in State
         /\ ConnectHeader(st, header, deposits, depositBlock).headers = Append(st.headers, header)
<1>1. Append(st.headers, header) \in Seq(Header)
  BY DEF State
<1> QED BY <1>1 DEF ConnectHeader, State

\* The outpoints a bundle spends are withdrawals.
LEMMA BundleMembers ==
  ASSUME NEW b \in Bundle
  PROVE  ToSet(b) \subseteq Withdrawals(OutPoint)
<1> DEFINE W == Withdrawals(OutPoint)
<1>1. b \in Seq(W)
  BY DEF Bundle
<1>2. \A i \in DOMAIN b : b[i] \in W
  <2> HIDE DEF W
  <2> QED BY <1>1
<1> QED BY <1>2 DEF ToSet

\* The bundle that is collected spends withdrawals, each once.
LEMMA CollectType ==
  ASSUME NEW utxos \in SUBSET OutPoint, NEW b \in CollectWithdrawalBundle(utxos)
  PROVE  b \in Bundle /\ ToSet(b) \subseteq Withdrawals(utxos)
<1>1. PICK chosen : chosen \subseteq Withdrawals(utxos) /\ b \in SetToSeqs(chosen)
  BY DEF CollectWithdrawalBundle
<1>2. b \in [1..Cardinality(chosen) -> chosen]
  BY <1>1 DEF SetToSeqs
<1>3. Cardinality(chosen) \in Nat
  <2>1. chosen \in SUBSET OutPoint
    BY <1>1 DEF Withdrawals
  <2>2. IsFiniteSet(chosen)
    BY <2>1, ConstantsAssumption, FS_Subset
  <2> QED BY <2>2, FS_CardinalityType
<1>4. chosen \subseteq Withdrawals(OutPoint)
  BY <1>1 DEF Withdrawals
<1>5. b \in Seq(chosen)
  BY <1>2, <1>3
<1>6. \A i \in DOMAIN b : b[i] \in chosen
  BY <1>5
<1>7. b \in Bundle
  BY <1>4, <1>5, <1>6 DEF Bundle
<1> QED BY <1>1, <1>6, <1>7 DEF ToSet

\* The withdrawals of the bundle leave the utxo set; the headers stay.
LEMMA LockBundleType ==
  ASSUME NEW st \in State, NEW b \in Bundle
  PROVE  LockBundle(st, b) \in State /\ LockBundle(st, b).headers = st.headers
BY DEF LockBundle, State

\* A failed bundle comes back as outpoints, a confirmed one is forgotten.
LEMMA HandleBundleStatusType ==
  ASSUME NEW st \in State, NEW bad, NEW paid, NEW height \in Nat,
         bad \subseteq Bundle
  PROVE  /\ HandleBundleStatus(st, bad, paid, height) \in State
         /\ HandleBundleStatus(st, bad, paid, height).headers = st.headers
<1>1. CASE st.bundle \in bad
  <2>1. ToSet(st.bundle) \subseteq OutPoint
    BY <1>1, BundleMembers DEF Withdrawals
  <2> QED BY <1>1, <2>1 DEF HandleBundleStatus, State
<1>2. CASE st.bundle \in paid \ bad
  BY <1>2 DEF HandleBundleStatus, State
<1>3. CASE st.bundle \notin bad /\ st.bundle \notin paid \ bad
  BY <1>3 DEF HandleBundleStatus, State
<1> QED BY <1>1, <1>2, <1>3

-----------------------------------------------------------------------------
(* One transaction.                                                        *)

\* One turn of the loop over the body writes no header, and each index gets
\* values of its kind.
LEMMA ApplyTransactionType ==
  ASSUME NEW st \in State, NEW t \in Txid, NEW height \in Nat
  PROVE  /\ ApplyTransaction(st, t, height) \in State
         /\ ApplyTransaction(st, t, height).headers = st.headers
<1>1. (st.utxos \ InputSet(t)) \cup OutputSet(t) \in SUBSET OutPoint
  BY InputsAndOutputs DEF State
<1>2. \A i \in DOMAIN Outputs[t] : Outputs[t][i] \in OutPoint
  BY InputsAndOutputs
<1>3. KeyToValueAfter(st, t) \in [Key -> Value \cup {None}]
  <2> SUFFICES ASSUME NEW k \in Key PROVE KeyToValueAfter(st, t)[k] \in Value \cup {None}
    BY DEF KeyToValueAfter
  <2>1. CASE KeyVouts(t, k) = {}
    BY <2>1 DEF KeyToValueAfter, State
  <2>2. CASE KeyVouts(t, k) # {}
    <3>1. PICK i \in KeyVouts(t, k) : LastOutput(t, KeyVouts(t, k)) = Outputs[t][i]
      BY <2>2, LastOutputIsOne DEF KeyVouts, RevealVouts
    <3>2. Outputs[t][i] \in OutPoint
      BY <1>2 DEF KeyVouts, RevealVouts
    <3>3. \/ Output[Outputs[t][i]].type = "Reveal"
          \/ Output[Outputs[t][i]].value \in Value
      BY <3>2, OutputType DEF KeyVouts, RevealVouts, RevealsKey, SetsKey
    <3> QED BY <2>2, <3>1, <3>3, ConstantsAssumption DEF KeyToValueAfter
  <2> QED BY <2>1, <2>2
<1>4. KeyToCommitmentAfter(st, t) \in [Key -> Commitment \cup {None}]
  <2> SUFFICES ASSUME NEW k \in Key PROVE KeyToCommitmentAfter(st, t)[k] \in Commitment \cup {None}
    BY DEF KeyToCommitmentAfter
  <2>1. CASE RevealVouts(t, k) = {}
    BY <2>1 DEF KeyToCommitmentAfter, State
  <2>2. CASE RevealVouts(t, k) # {}
    <3>1. PICK i \in RevealVouts(t, k) : LastOutput(t, RevealVouts(t, k)) = Outputs[t][i]
      BY <2>2, LastOutputIsOne DEF RevealVouts
    <3>2. RevealedBy(Outputs[t][i]) \in Commitment
      BY <1>2, OutputType DEF RevealVouts, RevealsKey
    <3> QED BY <2>2, <3>1, <3>2 DEF KeyToCommitmentAfter
  <2> QED BY <2>1, <2>2
<1>5. CommitmentToKeyAfter(st, t) \in [Commitment -> Key \cup {None}]
  <2> SUFFICES ASSUME NEW c \in Commitment PROVE CommitmentToKeyAfter(st, t)[c] \in Key \cup {None}
    BY DEF CommitmentToKeyAfter
  <2>1. CASE OpenVouts(t, c) = {}
    BY <2>1 DEF CommitmentToKeyAfter, State
  <2>2. CASE OpenVouts(t, c) # {}
    <3>1. PICK i \in OpenVouts(t, c) : LastOutput(t, OpenVouts(t, c)) = Outputs[t][i]
      BY <2>2, LastOutputIsOne DEF OpenVouts
    <3>2. Output[Outputs[t][i]].key \in Key
      BY <1>2, OutputType DEF OpenVouts
    <3> QED BY <2>2, <3>1, <3>2 DEF CommitmentToKeyAfter
  <2> QED BY <2>1, <2>2
<1>6. CommitmentToHeightAfter(st, t, height) \in [Commitment -> Nat \cup {None}]
  BY DEF CommitmentToHeightAfter, State
<1>7. CommitmentToOutpointAfter(st, t) \in [Commitment -> OutPoint \cup {None}]
  <2> SUFFICES ASSUME NEW c \in Commitment
               PROVE  CommitmentToOutpointAfter(st, t)[c] \in OutPoint \cup {None}
    BY DEF CommitmentToOutpointAfter
  <2>1. CASE CommitVouts(t, c) = {}
    BY <2>1 DEF CommitmentToOutpointAfter, State
  <2>2. CASE CommitVouts(t, c) # {}
    <3>1. PICK i \in CommitVouts(t, c) : LastOutput(t, CommitVouts(t, c)) = Outputs[t][i]
      BY <2>2, LastOutputIsOne DEF CommitVouts
    <3> QED BY <2>2, <3>1, <1>2 DEF CommitmentToOutpointAfter, CommitVouts
  <2> QED BY <2>1, <2>2
<1> QED BY <1>1, <1>3, <1>4, <1>5, <1>6, <1>7 DEF ApplyTransaction, State

-----------------------------------------------------------------------------
(* The sweep.                                                              *)

\* The sweep only deletes, and no header.
LEMMA ExpireCommitmentsType ==
  ASSUME NEW st \in State, NEW height \in Nat
  PROVE  /\ ExpireCommitments(st, height) \in State
         /\ ExpireCommitments(st, height).headers = st.headers
BY DEF ExpireCommitments, State

-----------------------------------------------------------------------------
(* What extends the tip, and what is connected.                            *)

\* The block extends the committed chain and the mainchain knows its parent.
ExtendsTip(header) ==
  /\ header \in Header
  /\ header.prevSide = Hash(Tip(db))
  /\ Tip(db).prevMain < header.prevMain
  /\ header.prevMain <= Len(main)

\* connect_block has begun and has not committed.
Connecting == pc \in {"body", "broadcast", "commit"}

(***************************************************************************)
(* A block is made on the tip and is taken before it is connected, so the  *)
(* block that waits for its confirmation extends the tip until it is       *)
(* replaced, taken or forgotten, and while one is connected none waits.    *)
(***************************************************************************)
ChainInv ==
  /\ TypeOK
  /\ db.headers # <<>>
  /\ Tip(db).prevMain < Len(main)
  /\ block # None => ExtendsTip(block)
  /\ pc = "bmm" => ExtendsTip(cur)
  /\ Connecting =>
       /\ block = None
       /\ ExtendsTip(cur)
       /\ VerifyBmm(cur)
       /\ wtxn \in State
       /\ wtxn.headers = Append(db.headers, cur)

\* headers.last() of a state that has a header.
LEMMA TipType ==
  ASSUME NEW st \in State, st.headers # <<>>
  PROVE  Tip(st) \in Header /\ Tip(st).prevMain \in Nat /\ Height(st) \in Nat
<1>1. st.headers \in Seq(Header) /\ Len(st.headers) \in Nat /\ Len(st.headers) >= 1
  BY DEF State
<1>2. st.headers[Len(st.headers)] \in Header
  BY <1>1
<1> QED BY <1>1, <1>2 DEF Tip, Height, Header

\* Node::new on an empty environment establishes the invariant.
LEMMA ChainInvInit == Init => ChainInv
<1> SUFFICES ASSUME Init PROVE ChainInv
  OBVIOUS
<1> USE DEF Init, MainInit
<1>1. MainTypeOK
  BY DEF MainTypeOK, MainBlock
<1>2. NodeTypeOK
  BY NewStateType DEF NodeTypeOK
<1>3. db.headers # <<>> /\ Tip(db).prevMain < Len(main)
  BY NewStateType DEF Tip, Genesis
<1> QED BY <1>1, <1>2, <1>3 DEF ChainInv, TypeOK, Connecting

\* What a step of a handler may do to the variables of the mainchain.
LEMMA CreateBmmRequestType ==
  ASSUME MainTypeOK, NEW header \in Header, CreateBmmRequest(Hash(header), header.prevMain)
  PROVE  MainTypeOK' /\ main' = main
BY HashType DEF MainTypeOK, CreateBmmRequest

\* receivewithdrawalbundle leaves the blocks of the mainchain alone.
LEMMA ReceiveBundleType ==
  ASSUME MainTypeOK, NEW b \in Bundle, ReceiveBundle(b)
  PROVE  MainTypeOK' /\ main' = main
BY DEF MainTypeOK, ReceiveBundle

\* The mainchain only grows.
LEMMA MainStepType ==
  ASSUME MainTypeOK, MainNext
  PROVE  /\ MainTypeOK'
         /\ Len(main) <= Len(main')
         /\ \A i \in 1..Len(main) : main'[i] = main[i]
<1>1. CASE MineBlock
  <2>1. PICK bmm \in requests \cup {None}, deposits \in SUBSET Deposit :
          main' = Append(main, [bmm |-> bmm, deposits |-> deposits])
    BY <1>1 DEF MineBlock
  <2>2. [bmm |-> bmm, deposits |-> deposits] \in MainBlock
    BY DEF MainTypeOK, MainBlock
  <2>3. main \in Seq(MainBlock)
    BY DEF MainTypeOK
  <2>4. main' \in Seq(MainBlock) /\ main' # <<>> /\ Len(main') = Len(main) + 1
    BY <2>1, <2>2, <2>3
  <2>5. \A i \in 1..Len(main) : main'[i] = main[i]
    BY <2>1, <2>3
  <2> QED BY <1>1, <2>3, <2>4, <2>5 DEF MineBlock, MainTypeOK
<1>2. CASE FailBundle
  BY <1>2 DEF FailBundle, MainTypeOK
<1>3. CASE ConfirmBundle
  BY <1>3 DEF ConfirmBundle, MainTypeOK
<1> QED BY <1>1, <1>2, <1>3 DEF MainNext

\* The deposits of a range and the last block that has one.
LEMMA DepositsType ==
  ASSUME MainTypeOK, NEW st \in State, NEW end \in Nat, end <= Len(main)
  PROVE  /\ NewDeposits(st, end) \in SUBSET OutPoint
         /\ DepositBlock(st, end) \in Nat \cup {None}
<1>1. \A i \in (st.lastDeposit + 1)..end : main[i].deposits \in SUBSET OutPoint
  <2>1. \A i \in 1..Len(main) : main[i] \in MainBlock
    BY DEF MainTypeOK
  <2>2. (st.lastDeposit + 1)..end \subseteq 1..Len(main)
    BY DEF State, MainTypeOK
  <2> QED BY <2>1, <2>2, ConstantsAssumption DEF MainBlock
<1>2. NewDeposits(st, end) \in SUBSET OutPoint
  BY <1>1 DEF NewDeposits, MainDeposits
<1> DEFINE found == {i \in (st.lastDeposit + 1)..end : main[i].deposits # {}}
<1>3. CASE found = {}
  BY <1>2, <1>3 DEF DepositBlock
<1>4. CASE found # {}
  <2>1. found \in SUBSET Nat /\ found \subseteq 0..end
    BY DEF State
  <2>2. IsFiniteSet(found)
    <3>1. IsFiniteSet(0..end)
      BY FS_Interval
    <3> HIDE DEF found
    <3> QED BY <2>1, <3>1, FS_Subset
  <2>3. Max(found) \in Nat
    <3> HIDE DEF found
    <3> QED BY <2>1, <2>2, <1>4, MaxOfFinite
  <2> QED BY <1>2, <1>4, <2>3 DEF DepositBlock
<1> QED BY <1>3, <1>4

\* The header, the deposits, and the bundle that may be collected then.
LEMMA HeaderConnectedType ==
  ASSUME MainTypeOK, NEW st \in State, NEW header \in Header, header.prevMain <= Len(main)
  PROVE  /\ HeaderConnected(st, header) \in State
         /\ HeaderConnected(st, header).headers = Append(st.headers, header)
         /\ Collected(HeaderConnected(st, header)) \subseteq Bundle \cup {None}
<1> DEFINE new == HeaderConnected(st, header)
<1>1. new \in State /\ new.headers = Append(st.headers, header)
  <2>1. header.prevMain \in Nat
    BY DEF Header
  <2> QED BY <2>1, DepositsType, ConnectHeaderType DEF HeaderConnected
<1> HIDE DEF new
<1>2. Collected(new) \subseteq Bundle \cup {None}
  BY <1>1, CollectType DEF Collected, State
<1> QED BY <1>1, <1>2 DEF new

\* The write transaction that a confirmation opens.
LEMMA ConfirmType ==
  ASSUME MainTypeOK, NEW st \in State, st.headers # <<>>,
         NEW header \in Header, header.prevMain <= Len(main),
         NEW b \in Collected(HeaderConnected(st, header))
  PROVE  /\ WithdrawalsHandled(HeaderConnected(st, header), b) \in State
         /\ WithdrawalsHandled(HeaderConnected(st, header), b).headers = Append(st.headers, header)
<1> DEFINE new == HeaderConnected(st, header)
<1>1. /\ new \in State /\ new.headers = Append(st.headers, header)
      /\ b = None \/ b \in Bundle
  BY HeaderConnectedType
<1>2. Height(new) \in Nat
  BY <1>1 DEF Height, State
<1>3. failed \subseteq Bundle
  BY DEF MainTypeOK
<1> HIDE DEF new
<1> DEFINE locked == IF b = None THEN new ELSE LockBundle(new, b)
<1>4. locked \in State /\ locked.headers = new.headers
  BY <1>1, LockBundleType
<1> HIDE DEF locked
<1>5. /\ HandleBundleStatus(locked, failed, confirmed, Height(new)) \in State
      /\ HandleBundleStatus(locked, failed, confirmed, Height(new)).headers = locked.headers
  BY <1>2, <1>3, <1>4, HandleBundleStatusType
<1> QED BY <1>1, <1>4, <1>5 DEF WithdrawalsHandled, new, locked

\* No step of a handler, an error, a restart or the mainchain breaks it.
LEMMA ChainInvStep == ChainInv /\ [Next]_vars => ChainInv'
<1> SUFFICES ASSUME ChainInv, [Next]_vars PROVE ChainInv'
  OBVIOUS
<1> USE DEF ChainInv, TypeOK
<1>0. /\ Tip(db) \in Header /\ Tip(db).prevMain \in Nat
      /\ Len(main) \in Nat /\ Len(main) >= 1
      /\ \A header \in Header : header.prevMain \in Nat /\ header.prevSide \in BlockHash
                                /\ header.txs \in SUBSET Txid
  BY TipType DEF NodeTypeOK, MainTypeOK, Header
<1>1. ASSUME NEW t \in Txid, SubmitTransaction(t) PROVE ChainInv'
  BY <1>1 DEF SubmitTransaction, mainVars, MainTypeOK, NodeTypeOK, ExtendsTip, Connecting, VerifyBmm
<1>2. CASE AttemptBmm
  <2>1. GenerateBlock \in Header
    BY <1>0, HashType DEF GenerateBlock, Header, NodeTypeOK
  <2>2. ExtendsTip(cur)'
    BY <1>0, <1>2, <2>1 DEF AttemptBmm, ExtendsTip, GenerateBlock, mainVars
  <2> QED BY <1>2, <2>1, <2>2
        DEF AttemptBmm, mainVars, MainTypeOK, NodeTypeOK, ExtendsTip, Connecting
<1>3. CASE CreateBmm
  <2>1. cur \in Header
    BY <1>3 DEF CreateBmm, ExtendsTip
  <2>2. MainTypeOK' /\ main' = main
    BY <1>3, <2>1, CreateBmmRequestType DEF CreateBmm
  <2> QED BY <1>3, <2>1, <2>2 DEF CreateBmm, NodeTypeOK, ExtendsTip, Connecting
<1>4. CASE ConfirmBmm
  <2>1. block \in Header /\ block.prevMain <= Len(main)
    BY <1>4 DEF ConfirmBmm, ExtendsTip
  <2>2. PICK b \in Collected(HeaderConnected(db, block)) :
          wtxn' = WithdrawalsHandled(HeaderConnected(db, block), b)
    BY <1>4 DEF ConfirmBmm
  <2>3. wtxn' \in State /\ wtxn'.headers = Append(db.headers, block)
    BY <2>1, <2>2, ConfirmType DEF NodeTypeOK
  <2>4. NodeTypeOK'
    BY <1>0, <1>4, <2>1, <2>3 DEF ConfirmBmm, TakeBlock, NodeTypeOK
  <2> QED BY <1>4, <2>1, <2>3, <2>4
        DEF ConfirmBmm, TakeBlock, mainVars, MainTypeOK, ExtendsTip, Connecting, VerifyBmm
<1>5. ASSUME NEW t \in Txid, ConnectTransaction(t) PROVE ChainInv'
  <2>1. wtxn \in State /\ wtxn.headers = Append(db.headers, cur) /\ cur \in Header
    BY <1>5 DEF ConnectTransaction, Connecting, ExtendsTip
  <2>2. Height(wtxn) \in Nat
    <3>1. db.headers \in Seq(Header)
      BY DEF NodeTypeOK, State
    <3>2. wtxn.headers # <<>>
      BY <2>1, <3>1
    <3> QED BY <2>1, <3>2, TipType
  <2>3. wtxn' \in State /\ wtxn'.headers = wtxn.headers
    BY <1>5, <2>1, <2>2, ApplyTransactionType DEF ConnectTransaction
  <2> QED BY <1>5, <2>1, <2>3
        DEF ConnectTransaction, mainVars, MainTypeOK, NodeTypeOK, ExtendsTip, Connecting, VerifyBmm
<1>6. CASE SweepExpired
  <2>1. wtxn \in State /\ wtxn.headers = Append(db.headers, cur) /\ cur \in Header
    BY <1>6 DEF SweepExpired, Connecting, ExtendsTip
  <2>2. Height(wtxn) \in Nat
    <3>1. db.headers \in Seq(Header)
      BY DEF NodeTypeOK, State
    <3>2. wtxn.headers # <<>>
      BY <2>1, <3>1
    <3> QED BY <2>1, <3>2, TipType
  <2>3. wtxn' \in State /\ wtxn'.headers = wtxn.headers
    BY <1>6, <2>1, <2>2, ExpireCommitmentsType DEF SweepExpired
  <2> QED BY <1>6, <2>1, <2>3
        DEF SweepExpired, mainVars, MainTypeOK, NodeTypeOK, ExtendsTip, Connecting, VerifyBmm
<1>7. CASE BroadcastBundle
  <2>1. wtxn \in State
    BY <1>7 DEF BroadcastBundle, Connecting
  <2>2. MainTypeOK' /\ main' = main
    <3>1. CASE wtxn.bundle = None
      BY <1>7, <3>1 DEF BroadcastBundle, mainVars, MainTypeOK
    <3>2. CASE wtxn.bundle # None
      BY <1>7, <2>1, <3>2, ReceiveBundleType DEF BroadcastBundle, State
    <3> QED BY <3>1, <3>2
  <2> QED BY <1>7, <2>2 DEF BroadcastBundle, NodeTypeOK, ExtendsTip, Connecting, VerifyBmm
<1>8. CASE Commit
  <2>1. /\ wtxn \in State /\ wtxn.headers = Append(db.headers, cur)
        /\ cur \in Header /\ VerifyBmm(cur)
    BY <1>8 DEF Commit, Connecting, ExtendsTip
  <2>2. db'.headers # <<>> /\ Tip(db') = cur
    BY <1>8, <2>1 DEF Commit, Tip, NodeTypeOK, State
  <2> QED BY <1>8, <2>1, <2>2
        DEF Commit, mainVars, MainTypeOK, NodeTypeOK, ExtendsTip, Connecting, VerifyBmm
<1>9. CASE ConfirmFails \/ ConnectFails \/ CallFails
  BY <1>9 DEF ConfirmFails, ConnectFails, CallFails, Poison, mainVars, MainTypeOK, NodeTypeOK,
              ExtendsTip, Connecting
<1>10. CASE HeaderFails \/ CollectFails
  BY <1>10 DEF HeaderFails, CollectFails, TakeBlock, Poison, mainVars, MainTypeOK, NodeTypeOK,
               ExtendsTip, Connecting
<1>11. CASE AnswerLost
  <2>1. MainTypeOK' /\ main' = main
    <3>1. CASE pc = "bmm" /\ CreateBmmRequest(Hash(cur), cur.prevMain)
      BY <3>1, CreateBmmRequestType DEF ExtendsTip
    <3>2. CASE pc = "broadcast" /\ wtxn.bundle # None /\ ReceiveBundle(wtxn.bundle)
      BY <3>2, ReceiveBundleType DEF Connecting, State
    <3> QED BY <1>11, <3>1, <3>2 DEF AnswerLost
  <2> QED BY <1>11, <2>1 DEF AnswerLost, Poison, NodeTypeOK, ExtendsTip, Connecting
<1>12. CASE Restart
  BY <1>12 DEF Restart, mainVars, MainTypeOK, NodeTypeOK, Connecting
<1>13. CASE MainNext /\ UNCHANGED nodeVars
  <2>1. /\ MainTypeOK' /\ Len(main) <= Len(main') /\ Len(main') \in Nat
        /\ \A i \in 1..Len(main) : main'[i] = main[i]
    BY <1>13, MainStepType DEF MainTypeOK
  <2>2. NodeTypeOK'
    BY <1>13 DEF nodeVars, NodeTypeOK
  <2>3. \A header : ExtendsTip(header) => ExtendsTip(header)'
    BY <1>0, <1>13, <2>1 DEF nodeVars, ExtendsTip
  <2>4. \A header \in Header : VerifyBmm(header) => VerifyBmm(header)'
    BY <1>0, <2>1 DEF VerifyBmm
  <2>5. Tip(db).prevMain < Len(main')
    BY <1>0, <2>1
  <2> QED BY <1>13, <2>1, <2>2, <2>3, <2>4, <2>5 DEF nodeVars, Connecting, ExtendsTip
<1>14. CASE UNCHANGED vars
  BY <1>14 DEF vars, nodeVars, mainVars, MainTypeOK, NodeTypeOK, ExtendsTip, Connecting, VerifyBmm
<1> QED BY <1>1, <1>2, <1>3, <1>4, <1>5, <1>6, <1>7, <1>8, <1>9, <1>10, <1>11, <1>12, <1>13, <1>14
        DEF Next, NodeNext, HandlerStep

(***************************************************************************)
(* The block that waits, the one that is requested and the one that is     *)
(* connected always extend the committed chain, whatever is attempted,     *)
(* abandoned, lost or restarted.                                           *)
(***************************************************************************)
THEOREM ChainInvariant == Spec => []ChainInv
BY ChainInvInit, ChainInvStep, PTL DEF Spec

(***************************************************************************)
(* Type correctness.                                                       *)
(***************************************************************************)
THEOREM TypeCorrect == Spec => []TypeOK
<1>1. ChainInv => TypeOK
  BY DEF ChainInv
<1> QED BY <1>1, ChainInvariant, PTL

-----------------------------------------------------------------------------
(* The committed headers.                                                  *)

(***************************************************************************)
(* A step leaves the committed headers alone, or it appends one that       *)
(* extends the tip and that the mainchain committed to; and a mainchain    *)
(* block, once mined, stays as it is.                                      *)
(***************************************************************************)
HeadersKeptOrExtended ==
  \/ db'.headers = db.headers
  \/ /\ ExtendsTip(cur)
     /\ VerifyBmm(cur)
     /\ db'.headers = Append(db.headers, cur)
     /\ main' = main

MainKept ==
  /\ Len(main) <= Len(main')
  /\ \A i \in 1..Len(main) : main'[i] = main[i]

\* Only the commit writes the committed state, and only mining the mainchain.
LEMMA StepOnHeaders ==
  ASSUME ChainInv, [Next]_vars
  PROVE  HeadersKeptOrExtended /\ MainKept
<1> USE DEF ChainInv, TypeOK
<1>0. Len(main) \in Nat
  BY DEF MainTypeOK
<1>1. CASE Commit
  BY <1>0, <1>1 DEF Commit, Connecting, mainVars, HeadersKeptOrExtended, MainKept
<1>2. CASE NodeNext /\ ~Commit
  <2>1. db' = db
    BY <1>2 DEF NodeNext, HandlerStep, SubmitTransaction, AttemptBmm, CreateBmm, ConfirmBmm,
                ConnectTransaction, SweepExpired, ConnectFails, BroadcastBundle, ConfirmFails,
                HeaderFails, CollectFails, CallFails, AnswerLost, Restart, Poison
  <2>2. main' = main
    BY <1>2 DEF NodeNext, HandlerStep, SubmitTransaction, AttemptBmm, CreateBmm, ConfirmBmm,
                ConnectTransaction, SweepExpired, ConnectFails, BroadcastBundle, ConfirmFails,
                HeaderFails, CollectFails, CallFails, AnswerLost, Restart, mainVars, CreateBmmRequest,
                ReceiveBundle
  <2> QED BY <1>0, <2>1, <2>2 DEF HeadersKeptOrExtended, MainKept
<1>3. CASE MainNext /\ UNCHANGED nodeVars
  BY <1>3, MainStepType DEF nodeVars, HeadersKeptOrExtended, MainKept
<1>4. CASE UNCHANGED vars
  BY <1>0, <1>4 DEF vars, nodeVars, mainVars, HeadersKeptOrExtended, MainKept
<1> QED BY <1>1, <1>2, <1>3, <1>4 DEF Next

\* A header that extends the tip keeps the chain linked.
LEMMA HeadersLinkedStep ==
  ASSUME ChainInv, HeadersLinked, HeadersKeptOrExtended
  PROVE  HeadersLinked'
<1>0. db.headers \in Seq(Header) /\ db.headers # <<>> /\ Len(db.headers) \in Nat
  BY DEF ChainInv, TypeOK, NodeTypeOK, State
<1>1. CASE db'.headers = db.headers
  BY <1>1 DEF HeadersLinked
<1>2. CASE ExtendsTip(cur) /\ db'.headers = Append(db.headers, cur)
  <2> SUFFICES ASSUME NEW i \in 2..Len(db'.headers)
               PROVE  db'.headers[i].prevSide = Hash(db'.headers[i - 1])
    BY DEF HeadersLinked
  <2>1. Len(db'.headers) = Len(db.headers) + 1 /\ db'.headers[i - 1] = db.headers[i - 1]
    BY <1>0, <1>2
  <2>2. CASE i = Len(db.headers) + 1
    BY <1>0, <1>2, <2>1, <2>2 DEF ExtendsTip, Tip
  <2>3. CASE i \in 2..Len(db.headers)
    BY <1>0, <1>2, <2>1, <2>3 DEF HeadersLinked
  <2> QED BY <1>0, <2>1, <2>2, <2>3
<1> QED BY <1>1, <1>2 DEF HeadersKeptOrExtended

\* A header that the mainchain committed to keeps the chain mined, and a
\* mainchain that grows leaves the commitments where they were.
LEMMA MergeMinedStep ==
  ASSUME ChainInv, MergeMined, HeadersKeptOrExtended, MainKept, MainTypeOK'
  PROVE  MergeMined'
<1>0. /\ db.headers \in Seq(Header) /\ db.headers # <<>> /\ Len(db.headers) \in Nat
      /\ Len(main) \in Nat /\ Len(main') \in Nat
      /\ \A header \in Header : header.prevMain \in Nat
  BY DEF ChainInv, TypeOK, NodeTypeOK, State, MainTypeOK, Header
<1>1. ASSUME NEW i \in 2..Len(db.headers)
      PROVE  /\ db.headers[i].prevMain < Len(main')
             /\ main'[db.headers[i].prevMain + 1].bmm = Hash(db.headers[i])
             /\ db.headers[i - 1].prevMain < db.headers[i].prevMain
  <2>1. db.headers[i].prevMain \in Nat
    BY <1>0
  <2>2. /\ db.headers[i].prevMain < Len(main)
        /\ main[db.headers[i].prevMain + 1].bmm = Hash(db.headers[i])
        /\ db.headers[i - 1].prevMain < db.headers[i].prevMain
    BY <1>1 DEF MergeMined
  <2>3. db.headers[i].prevMain + 1 \in 1..Len(main)
    BY <1>0, <2>1, <2>2
  <2>4. /\ Len(main) <= Len(main')
        /\ main'[db.headers[i].prevMain + 1] = main[db.headers[i].prevMain + 1]
    BY <2>3 DEF MainKept
  <2>5. db.headers[i].prevMain < Len(main')
    BY <1>0, <2>1, <2>2, <2>4
  <2> QED BY <2>2, <2>4, <2>5
<1>2. CASE db'.headers = db.headers
  BY <1>1, <1>2 DEF MergeMined
<1>3. CASE /\ ExtendsTip(cur) /\ VerifyBmm(cur)
           /\ db'.headers = Append(db.headers, cur) /\ main' = main
  <2> SUFFICES ASSUME NEW i \in 2..Len(db'.headers)
               PROVE  /\ db'.headers[i].prevMain < Len(main')
                      /\ main'[db'.headers[i].prevMain + 1].bmm = Hash(db'.headers[i])
                      /\ db'.headers[i - 1].prevMain < db'.headers[i].prevMain
    BY DEF MergeMined
  <2>1. Len(db'.headers) = Len(db.headers) + 1 /\ db'.headers[i - 1] = db.headers[i - 1]
    BY <1>0, <1>3
  <2>2. CASE i = Len(db.headers) + 1
    BY <1>0, <1>3, <2>1, <2>2 DEF ExtendsTip, VerifyBmm, Tip
  <2>3. CASE i \in 2..Len(db.headers)
    BY <1>0, <1>1, <1>3, <2>1, <2>3
  <2> QED BY <1>0, <2>1, <2>2, <2>3
<1> QED BY <1>2, <1>3 DEF HeadersKeptOrExtended

(***************************************************************************)
(* The committed headers are linked by their prev_side_block_hash although *)
(* connect_block does not look at it.                                      *)
(***************************************************************************)
THEOREM Linked == Spec => []HeadersLinked
<1>1. Init => HeadersLinked
  BY NewStateType DEF Init, HeadersLinked
<1>2. ChainInv /\ HeadersLinked /\ [Next]_vars => HeadersLinked'
  BY StepOnHeaders, HeadersLinkedStep
<1> QED BY <1>1, <1>2, ChainInvariant, PTL DEF Spec

(***************************************************************************)
(* Each committed header stays committed to by the mainchain block after   *)
(* the one it names, and no mainchain block serves two of them.            *)
(***************************************************************************)
THEOREM Mined == Spec => []MergeMined
<1>1. Init => MergeMined
  BY NewStateType DEF Init, MergeMined
<1>2. ChainInv /\ MergeMined /\ ChainInv' /\ [Next]_vars => MergeMined'
  BY StepOnHeaders, MergeMinedStep DEF ChainInv, TypeOK
<1> QED BY <1>1, <1>2, ChainInvariant, PTL DEF Spec

-----------------------------------------------------------------------------
(* The node implements blind merged mining.                                *)

\* What the mapping makes of the mainchain.
Commitments == [i \in DOMAIN main |-> main[i].bmm]

\* The commitments of a chain of mainchain blocks.
LEMMA CommitmentsType ==
  ASSUME NEW blocks \in Seq(MainBlock)
  PROVE  /\ [i \in DOMAIN blocks |-> blocks[i].bmm] \in Seq(BlockHash \cup {None})
         /\ Len([i \in DOMAIN blocks |-> blocks[i].bmm]) = Len(blocks)
<1> DEFINE bmms == [i \in DOMAIN blocks |-> blocks[i].bmm]
           hashes == BlockHash \cup {None}
<1>1. DOMAIN blocks = 1..Len(blocks) /\ Len(blocks) \in Nat
  OBVIOUS
<1>2. \A i \in 1..Len(blocks) : blocks[i].bmm \in hashes
  <2>1. \A i \in 1..Len(blocks) : blocks[i] \in MainBlock
    OBVIOUS
  <2> QED BY <2>1 DEF MainBlock
<1>3. bmms \in [1..Len(blocks) -> hashes]
  BY <1>1, <1>2
<1> HIDE DEF bmms, hashes
<1>4. bmms \in Seq(hashes) /\ Len(bmms) = Len(blocks)
  BY <1>1, <1>3
<1> QED BY <1>4 DEF bmms, hashes

\* A node that has not started yet is the empty chain of the specification.
LEMMA InitRefines == Init => Bmm!Init
<1> SUFFICES ASSUME Init PROVE Bmm!Init
  OBVIOUS
<1>1. PICK deposits : main = <<[bmm |-> None, deposits |-> deposits]>>
  BY DEF Init, MainInit
<1>2. Commitments = <<None>>
  BY <1>1 DEF Commitments
<1>3. db.headers = <<Genesis>>
  BY NewStateType DEF Init
<1> QED BY <1>2, <1>3 DEF Bmm!Init, Bmm!Genesis, Genesis, Commitments

\* The commitments change when the mainchain is extended, and only then.
LEMMA MainRefines ==
  ASSUME MainTypeOK, MineBlock
  PROVE  \E hash \in BlockHash \cup {None} : Commitments' = Append(Commitments, hash)
<1>1. PICK bmm \in requests \cup {None}, deposits \in SUBSET Deposit :
        main' = Append(main, [bmm |-> bmm, deposits |-> deposits])
  BY DEF MineBlock
<1>2. bmm \in BlockHash \cup {None}
  BY DEF MainTypeOK
<1>3. main \in Seq(MainBlock) /\ DOMAIN main = 1..Len(main) /\ Len(main) \in Nat
  BY DEF MainTypeOK
<1>4. Commitments' = Append(Commitments, bmm)
  <2>1. Commitments = [i \in 1..Len(main) |-> main[i].bmm]
    BY <1>3 DEF Commitments
  <2>2. Commitments' = [i \in 1..(Len(main) + 1) |-> main'[i].bmm]
    BY <1>1, <1>3 DEF Commitments
  <2>3. Len(Commitments) = Len(main)
    BY <1>3, <2>1
  <2>4. \A i \in 1..Len(main) : main'[i] = main[i]
    BY <1>1, <1>3
  <2>5. main'[Len(main) + 1] = [bmm |-> bmm, deposits |-> deposits]
    BY <1>1, <1>3
  <2>6. Commitments \in Seq(BlockHash \cup {None})
    BY <1>3, CommitmentsType DEF Commitments
  <2>7. Commitments' \in Seq(BlockHash \cup {None})
    <3>1. main' \in Seq(MainBlock)
      BY <1>1, <1>2, <1>3 DEF MainBlock
    <3> QED BY <3>1, CommitmentsType DEF Commitments
  <2> DEFINE appended == Append(Commitments, bmm)
  <2>8. appended \in Seq(BlockHash \cup {None}) /\ Len(appended) = Len(main) + 1
    <3> HIDE DEF Commitments
    <3> QED BY <1>2, <2>3, <2>6
  <2>9. Len(Commitments') = Len(main) + 1
    BY <1>3, <2>2
  <2>10. ASSUME NEW i \in 1..(Len(main) + 1) PROVE Commitments'[i] = appended[i]
    <3>1. CASE i = Len(main) + 1
      <4>1. Commitments'[i] = bmm
        BY <2>2, <2>5, <3>1
      <4>2. appended[Len(main) + 1] = bmm
        BY <1>2, <2>3, <2>6
      <4> QED BY <3>1, <4>1, <4>2
    <3>2. CASE i \in 1..Len(main)
      <4>1. Commitments'[i] = main[i].bmm
        BY <2>2, <2>4, <3>2
      <4>2. Commitments[i] = main[i].bmm
        BY <2>1, <3>2
      <4>3. appended[i] = Commitments[i]
        BY <1>2, <2>3, <2>6, <3>2
      <4> QED BY <4>1, <4>2, <4>3
    <3>3. i = Len(main) + 1 \/ i \in 1..Len(main)
      BY <1>3
    <3> HIDE DEF appended
    <3> QED BY <3>1, <3>2, <3>3
  <2> QED
    <3> HIDE DEF appended
    <3>1. Commitments' = appended
      BY <2>7, <2>8, <2>9, <2>10, SeqEqual
    <3> QED BY <3>1 DEF appended
<1> QED BY <1>2, <1>4

\* Every step of the node maps to a step of BmmChain or to a stutter.
LEMMA StepRefines == ChainInv /\ ChainInv' /\ [Next]_vars => [Bmm!Next]_(Bmm!chainVars)
<1> SUFFICES ASSUME ChainInv, ChainInv', [Next]_vars PROVE [Bmm!Next]_(Bmm!chainVars)
  OBVIOUS
<1> USE DEF Commitments
<1>1. CASE MainNext /\ UNCHANGED nodeVars
  <2>1. UNCHANGED db.headers
    BY <1>1 DEF nodeVars
  <2>2. CASE MineBlock
    <3>1. PICK hash \in BlockHash \cup {None} : Commitments' = Append(Commitments, hash)
      BY <2>2, MainRefines DEF ChainInv, TypeOK
    <3>2. Commitments'[Len(Commitments')] = hash
      <4>1. Commitments \in Seq(BlockHash \cup {None})
        BY CommitmentsType DEF ChainInv, TypeOK, MainTypeOK
      <4>2. \A S, s, e : s \in Seq(S) /\ e \in S => Append(s, e)[Len(Append(s, e))] = e
        OBVIOUS
      <4> QED BY <3>1, <4>1, <4>2
    <3>3. Bmm!Mine(Commitments'[Len(Commitments')])
      BY <2>1, <3>1, <3>2 DEF Bmm!Mine, Bmm!BlockHash, BlockHash
    <3> QED BY <3>3 DEF Bmm!Next
  <2>3. CASE FailBundle \/ ConfirmBundle
    BY <2>1, <2>3 DEF FailBundle, ConfirmBundle, Bmm!chainVars
  <2> QED BY <1>1, <2>2, <2>3 DEF MainNext
<1>2. CASE NodeNext \/ UNCHANGED vars
  <2>1. main' = main
    BY <1>2 DEF NodeNext, HandlerStep, SubmitTransaction, AttemptBmm, CreateBmm, ConfirmBmm,
                ConnectTransaction, SweepExpired, ConnectFails, BroadcastBundle, Commit,
                ConfirmFails, HeaderFails, CollectFails, CallFails, AnswerLost, Restart, mainVars,
                CreateBmmRequest, ReceiveBundle, vars
  <2>2. CASE db'.headers = db.headers
    BY <2>1, <2>2 DEF Bmm!chainVars
  <2>3. CASE ExtendsTip(cur) /\ VerifyBmm(cur) /\ db'.headers = Append(db.headers, cur)
    <3>1. db.headers \in Seq(Header) /\ Len(db.headers) \in Nat /\ cur \in Header
      BY <2>3 DEF ChainInv, TypeOK, NodeTypeOK, State, ExtendsTip
    <3>2. db'.headers[Len(db'.headers)] = cur
      BY <2>3, <3>1
    <3>3. /\ DOMAIN Commitments = 1..Len(main) /\ Len(main) \in Nat
          /\ Len(Commitments) = Len(main)
      BY DEF ChainInv, TypeOK, MainTypeOK
    <3>4. cur.prevMain + 1 \in 1..Len(main)
      BY <2>3, <3>1, <3>3 DEF VerifyBmm, Header
    <3>5. Bmm!Extend(cur)
      BY <2>1, <2>3, <3>1, <3>3, <3>4
         DEF Bmm!Extend, ExtendsTip, VerifyBmm, Tip, Bmm!Header, Header, Bmm!BlockHash, BlockHash,
             Bmm!Hash, Hash
    <3> QED BY <3>2, <3>5 DEF Bmm!Next
  <2> QED BY <2>2, <2>3, StepOnHeaders DEF HeadersKeptOrExtended
<1> QED BY <1>1, <1>2 DEF Next

(***************************************************************************)
(* Refinement: a commit extends the chain of the specification, a block of *)
(* the mainchain its commitments, and everything else is hidden.           *)
(***************************************************************************)
THEOREM Refines == Spec => ImplementsBmmChain
<1>1. ChainInv /\ ChainInv' /\ [Next]_vars => [Bmm!Next]_(Bmm!chainVars)
  BY StepRefines
<1> QED BY <1>1, InitRefines, ChainInvariant, PTL DEF Spec, ImplementsBmmChain, Bmm!Spec

-----------------------------------------------------------------------------
(* What validate_block would say.  The inputs of a body are joined by a    *)
(* recursive function; UpTo, by the greatest number up to which a set has  *)
(* them all, takes the place of an induction along it.                     *)

\* What holds of 1 and of each number after one of which it holds.
LEMMA UpTo ==
  ASSUME NEW N \in Nat, NEW G, \A i \in 1..N : i = 1 \/ i - 1 \in G => i \in G
  PROVE  1..N \subseteq G
<1> DEFINE Good == {n \in 0..N : 1..n \subseteq G}
<1>1. Good \in SUBSET Nat /\ 0 \in Good
  OBVIOUS
<1>2. IsFiniteSet(Good)
  <2>1. IsFiniteSet(0..N) /\ Good \in SUBSET (0..N)
    BY FS_Interval
  <2> HIDE DEF Good
  <2> QED BY <2>1, FS_Subset
<1>3. PICK m \in Good : \A n \in Good : n <= m
  <2> HIDE DEF Good
  <2> QED BY <1>1, <1>2, MaxOfFinite
<1>4. ASSUME NEW n \in Good, n < N PROVE n + 1 \in Good
  <2>1. n \in 0..N /\ n + 1 \in 1..N /\ 1..n \subseteq G
    BY <1>4
  <2>2. n + 1 = 1 \/ (n + 1) - 1 \in G
    BY <2>1
  <2>3. n + 1 \in G
    BY <2>1, <2>2
  <2>4. ASSUME NEW i \in 1..(n + 1) PROVE i \in G
    BY <2>1, <2>3
  <2> QED BY <2>1, <2>4
<1>5. ~(m < N)
  <2>1. m \in Nat /\ ~(m + 1 <= m)
    OBVIOUS
  <2> HIDE DEF Good
  <2> QED BY <1>3, <1>4, <2>1
<1> QED BY <1>5

\* The function by which FlattenSeq joins the sequences of s.
Joins(f, s) == f = [i \in 1..Len(s) |-> IF i = 1 THEN s[i] ELSE f[i - 1] \o s[i]]

Joining(s) == CHOOSE f : Joins(f, s)

\* FlattenSeq is its last value.
LEMMA FlattenJoins ==
  ASSUME NEW s, Len(s) # 0
  PROVE  FlattenSeq(s) = Joining(s)[Len(s)]
BY DEF FlattenSeq, Joining, Joins

\* There is one, and what it joins are sequences.
LEMMA JoiningExists ==
  ASSUME NEW S, NEW s \in Seq(Seq(S))
  PROVE  /\ Joining(s) \in [1..Len(s) -> Seq(S)]
         /\ \A i \in 1..Len(s) :
              Joining(s)[i] = IF i = 1 THEN s[i] ELSE Joining(s)[i - 1] \o s[i]
<1> DEFINE N == Len(s)
           Part(f, n) == /\ f \in [1..n -> Seq(S)]
                         /\ \A i \in 1..n : f[i] = IF i = 1 THEN s[i] ELSE f[i - 1] \o s[i]
           G == {n \in 0..N : \E f : Part(f, n)}
<1>1. N \in Nat /\ \A i \in 1..N : s[i] \in Seq(S)
  OBVIOUS
<1>2. ASSUME NEW n \in 0..N, n < N, NEW f, Part(f, n) PROVE \E g : Part(g, n + 1)
  <2> DEFINE g == [i \in 1..(n + 1) |->
                     IF i <= n THEN f[i] ELSE IF i = 1 THEN s[i] ELSE f[n] \o s[i]]
  <2>1. n + 1 \in 1..N /\ s[n + 1] \in Seq(S)
    BY <1>1, <1>2
  <2>2. n # 0 => f[n] \in Seq(S) /\ f[n] \o s[n + 1] \in Seq(S)
    BY <1>2, <2>1
  <2>3. g \in [1..(n + 1) -> Seq(S)]
    <3>1. ASSUME NEW i \in 1..(n + 1) PROVE g[i] \in Seq(S)
      <4>1. CASE i <= n
        <5>1. i \in 1..n /\ g[i] = f[i]
          BY <4>1
        <5> QED BY <1>2, <5>1
      <4>2. CASE i = n + 1
        BY <2>1, <2>2, <4>2
      <4> QED BY <4>1, <4>2
    <3> QED BY <3>1
  <2>4. ASSUME NEW i \in 1..(n + 1)
        PROVE  g[i] = IF i = 1 THEN s[i] ELSE g[i - 1] \o s[i]
    <3>1. CASE i <= n
      <4>1. i \in 1..n /\ g[i] = f[i] /\ (i # 1 => g[i - 1] = f[i - 1])
        BY <3>1
      <4> HIDE DEF g
      <4> QED BY <1>2, <4>1
    <3>2. CASE i = n + 1
      BY <3>2
    <3> QED BY <3>1, <3>2
  <2>5. Part(g, n + 1)
    <3> HIDE DEF g
    <3> QED BY <2>3, <2>4
  <2> QED BY <2>5
<1>3. 1..N \subseteq G
  <2>1. ASSUME NEW i \in 1..N, i = 1 \/ i - 1 \in G PROVE i \in G
    <3>1. CASE i = 1
      <4>1. Part(<<>>, 0)
        OBVIOUS
      <4>2. 0 \in 0..N /\ 0 < N
        BY <1>1
      <4>3. \E g : Part(g, 0 + 1)
        <5> HIDE DEF Part
        <5> QED BY <1>2, <4>1, <4>2
      <4> HIDE DEF Part
      <4> QED BY <1>1, <3>1, <4>3
    <3>2. CASE i - 1 \in G
      <4>1. i - 1 \in 0..N /\ i - 1 < N /\ \E f : Part(f, i - 1)
        <5> HIDE DEF Part
        <5> QED BY <1>1, <2>1, <3>2
      <4>2. \E g : Part(g, (i - 1) + 1)
        <5> HIDE DEF Part
        <5> QED BY <1>2, <4>1
      <4> HIDE DEF Part
      <4> QED BY <1>1, <4>2
    <3> QED BY <2>1, <3>1, <3>2
  <2> HIDE DEF G
  <2> QED BY <1>1, <2>1, UpTo
<1>4. \E f : Part(f, N)
  <2>1. CASE N = 0
    <3>1. Part(<<>>, 0)
      OBVIOUS
    <3> QED BY <2>1, <3>1
  <2>2. CASE N # 0
    <3>1. N \in 1..N
      BY <1>1, <2>2
    <3> HIDE DEF Part
    <3> QED BY <1>3, <3>1
  <2> QED BY <2>1, <2>2
<1>5. PICK f : Part(f, N)
  BY <1>4
<1>6. Joins(f, s)
  BY <1>5 DEF Joins
<1>7. Joins(Joining(s), s)
  BY <1>6 DEF Joining
<1>8. \A h : Joins(h, s) =>
        /\ DOMAIN h = 1..N
        /\ h = [i \in 1..N |-> h[i]]
        /\ \A i \in 1..N : h[i] = IF i = 1 THEN s[i] ELSE h[i - 1] \o s[i]
  BY DEF Joins
<1>9. \A i \in 1..N : Joining(s)[i] \in Seq(S)
  <2> DEFINE J == Joining(s)
             H == {i \in 1..N : J[i] \in Seq(S)}
  <2>1. \A i \in 1..N : J[i] = IF i = 1 THEN s[i] ELSE J[i - 1] \o s[i]
    BY <1>7, <1>8
  <2>2. ASSUME NEW i \in 1..N, i = 1 \/ i - 1 \in H PROVE i \in H
    <3>1. s[i] \in Seq(S) /\ (i = 1 \/ J[i - 1] \in Seq(S))
      BY <1>1, <2>2
    <3>2. J[i] = IF i = 1 THEN s[i] ELSE J[i - 1] \o s[i]
      BY <2>1
    <3>3. J[i] \in Seq(S)
      <4> HIDE DEF J
      <4>1. CASE i = 1
        BY <3>1, <3>2, <4>1
      <4>2. CASE i # 1
        BY <3>1, <3>2, <4>2, ConcatProperties
      <4> QED BY <4>1, <4>2
    <3> QED BY <3>3
  <2>3. 1..N \subseteq H
    <3> HIDE DEF H
    <3> QED BY <1>1, <2>2, UpTo
  <2> QED BY <2>3
<1> QED BY <1>7, <1>8, <1>9

\* What is joined are the last part, where all others are empty, ...
LEMMA FlattenLast ==
  ASSUME NEW S, NEW s \in Seq(Seq(S)), Len(s) # 0,
         \A i \in 1..Len(s) : i < Len(s) => s[i] = <<>>
  PROVE  FlattenSeq(s) = s[Len(s)]
<1> DEFINE N == Len(s)
           J == Joining(s)
           G == {i \in 1..N : J[i] = s[i]}
<1>1. N \in Nat /\ N \in 1..N /\ \A i \in 1..N : s[i] \in Seq(S)
  OBVIOUS
<1>2. \A i \in 1..N : J[i] = IF i = 1 THEN s[i] ELSE J[i - 1] \o s[i]
  BY JoiningExists
<1>3. ASSUME NEW i \in 1..N, i = 1 \/ i - 1 \in G PROVE i \in G
  <2>1. CASE i = 1
    BY <1>2, <2>1
  <2>2. CASE i # 1
    <3>1. i - 1 \in 1..N /\ i - 1 < N /\ J[i - 1] = s[i - 1]
      BY <1>1, <1>3, <2>2
    <3>2. J[i - 1] = <<>>
      BY <3>1
    <3>3. J[i] = J[i - 1] \o s[i]
      BY <1>2, <2>2
    <3>4. J[i] = s[i]
      <4> HIDE DEF J
      <4> QED BY <1>1, <3>2, <3>3, ConcatEmptySeq
    <3> QED BY <3>4
  <2> QED BY <2>1, <2>2
<1>4. N \in G
  <2> HIDE DEF G
  <2> QED BY <1>1, <1>3, UpTo
<1> QED BY <1>4, FlattenJoins

\* ... no part more than once, and nothing where there are none.
LEMMA FlattenLength ==
  ASSUME NEW S, NEW s \in Seq(Seq(S))
  PROVE  /\ FlattenSeq(s) \in Seq(S)
         /\ \A j \in 1..Len(s) : Len(FlattenSeq(s)) >= Len(s[j])
<1> DEFINE N == Len(s)
           J == Joining(s)
<1>1. N \in Nat /\ \A i \in 1..N : s[i] \in Seq(S) /\ Len(s[i]) \in Nat
  OBVIOUS
<1>2. \A i \in 1..N : /\ J[i] \in Seq(S) /\ Len(J[i]) \in Nat
                      /\ J[i] = IF i = 1 THEN s[i] ELSE J[i - 1] \o s[i]
  <2>1. /\ J \in [1..N -> Seq(S)]
        /\ \A i \in 1..N : J[i] = IF i = 1 THEN s[i] ELSE J[i - 1] \o s[i]
    BY JoiningExists
  <2> HIDE DEF J
  <2>2. \A i \in 1..N : J[i] \in Seq(S)
    BY <2>1
  <2>3. \A i \in 1..N : Len(J[i]) \in Nat
    BY <2>2
  <2> QED BY <2>1, <2>2, <2>3
<1>3. CASE N = 0
  <2>1. s = <<>>
    BY <1>3
  <2> QED BY <1>3, <2>1 DEF FlattenSeq
<1>4. CASE N # 0
  <2>1. FlattenSeq(s) = J[N] /\ N \in 1..N
    BY <1>1, <1>4, FlattenJoins
  <2>2. ASSUME NEW j \in 1..N PROVE Len(J[N]) >= Len(s[j])
    <3> DEFINE G == {i \in 1..N : i >= j => Len(J[i]) >= Len(s[j])}
    <3>1. ASSUME NEW i \in 1..N, i = 1 \/ i - 1 \in G PROVE i \in G
      <4>1. CASE i = 1
        <5>1. J[i] = s[i] /\ (i >= j => i = j)
          BY <1>2, <4>1
        <5>2. i >= j => Len(J[i]) >= Len(s[j])
          <6> HIDE DEF J
          <6> QED BY <1>1, <5>1
        <5> QED BY <5>2
      <4>2. CASE i # 1
        <5>1. i - 1 \in 1..N /\ (i - 1 >= j => Len(J[i - 1]) >= Len(s[j]))
          BY <3>1, <4>2
        <5>2. J[i] = J[i - 1] \o s[i]
          BY <1>2, <4>2
        <5>3. Len(J[i]) = Len(J[i - 1]) + Len(s[i])
          <6>1. J[i - 1] \in Seq(S) /\ s[i] \in Seq(S)
            BY <1>1, <1>2, <5>1
          <6> HIDE DEF J
          <6> QED BY <5>2, <6>1, ConcatProperties
        <5>4. Len(J[i - 1]) \in Nat /\ Len(s[i]) \in Nat /\ Len(s[j]) \in Nat
          BY <1>1, <1>2, <5>1
        <5>5. i >= j => i - 1 >= j \/ i = j
          OBVIOUS
        <5>6. i >= j => Len(J[i]) >= Len(s[j])
          <6> DEFINE before == Len(J[i - 1])
                     now == Len(s[i])
                     then == Len(s[j])
          <6>1. i >= j => now = then \/ before >= then
            BY <5>1, <5>5
          <6>2. before \in Nat /\ now \in Nat /\ then \in Nat /\ Len(J[i]) = before + now
            BY <5>3, <5>4
          <6>3. i >= j => before + now >= then
            <7> HIDE DEF before, now, then
            <7> QED BY <6>1, <6>2
          <6> QED BY <6>2, <6>3
        <5> QED BY <5>6
      <4> QED BY <4>1, <4>2
    <3>2. N \in G
      <4> HIDE DEF G
      <4> QED BY <1>1, <2>1, <3>1, UpTo
    <3> QED BY <2>1, <3>2
  <2> QED BY <1>2, <2>1, <2>2
<1> QED BY <1>3, <1>4

\* An order of a body holds each of its transactions once.
LEMMA BodyOrder ==
  ASSUME NEW S, IsFiniteSet(S), NEW body \in SetToSeqs(S)
  PROVE  /\ body \in Seq(S)
         /\ ToSet(body) = S
<1> DEFINE D == 1..Cardinality(S)
<1>1. /\ body \in [D -> S] /\ \A i, j \in D : i # j => body[i] # body[j]
      /\ Cardinality(S) \in Nat
  BY FS_CardinalityType DEF SetToSeqs
<1>2. body \in Injection(D, S)
  BY <1>1 DEF Injection, IsInjective
<1>3. IsFiniteSet(D) /\ Cardinality(D) = Cardinality(S)
  BY <1>1, FS_Interval
<1>4. body \in Surjection(D, S)
  <2> HIDE DEF D
  <2> QED BY <1>2, <1>3, FS_Injection
<1> QED BY <1>1, <1>4 DEF Surjection, ToSet

(***************************************************************************)
(* A block is made of a mempool that has a transaction more with each call *)
(* of submit_transaction.                                                  *)
(***************************************************************************)
FiniteInv ==
  /\ IsFiniteSet(mempool)
  /\ block # None => IsFiniteSet(block.txs)
  /\ pc = "bmm" => IsFiniteSet(cur.txs)

\* Node::new on an empty environment has an empty mempool.
LEMMA FiniteInvInit == Init => FiniteInv
BY FS_EmptySet DEF Init, FiniteInv

\* A transaction more, or fewer, keeps the mempool finite.
LEMMA FiniteInvStep == ChainInv /\ FiniteInv /\ [Next]_vars => FiniteInv'
<1> SUFFICES ASSUME ChainInv, FiniteInv, [Next]_vars PROVE FiniteInv'
  OBVIOUS
<1> USE DEF FiniteInv
<1>1. CASE \E t \in Txid : SubmitTransaction(t)
  BY <1>1, FS_AddElement DEF SubmitTransaction
<1>2. CASE AttemptBmm
  BY <1>2 DEF AttemptBmm, GenerateBlock
<1>3. CASE CreateBmm
  BY <1>3 DEF CreateBmm
<1>4. CASE Commit
  <2>1. mempool \ cur.txs \in SUBSET mempool
    OBVIOUS
  <2>2. IsFiniteSet(mempool \ cur.txs)
    BY <2>1, FS_Subset
  <2> QED BY <1>4, <2>2 DEF Commit
<1>5. CASE Restart
  BY <1>5, FS_EmptySet DEF Restart
<1>6. CASE ConfirmBmm \/ HeaderFails \/ CollectFails
  BY <1>6 DEF ConfirmBmm, HeaderFails, CollectFails, TakeBlock, Poison
<1>7. CASE ConfirmFails \/ ConnectFails \/ CallFails \/ AnswerLost
  BY <1>7 DEF ConfirmFails, ConnectFails, CallFails, AnswerLost, Poison
<1>8. CASE (\E t \in Txid : ConnectTransaction(t)) \/ SweepExpired \/ BroadcastBundle
  BY <1>8 DEF ConnectTransaction, SweepExpired, BroadcastBundle
<1>9. CASE UNCHANGED nodeVars
  BY <1>9 DEF nodeVars
<1> QED BY <1>1, <1>2, <1>3, <1>4, <1>5, <1>6, <1>7, <1>8, <1>9
        DEF Next, NodeNext, HandlerStep, vars


\* The inputs of a body, one transaction after the other.
LEMMA BodyInputs ==
  ASSUME NEW body \in Seq(Txid)
  PROVE  /\ AllInputs(body) \in Seq(OutPoint)
         /\ \A m \in DOMAIN body : Len(AllInputs(body)) >= Len(Inputs[body[m]])
         /\ body # <<>> /\ (\A m \in DOMAIN body : m < Len(body) => Inputs[body[m]] = <<>>) =>
              AllInputs(body) = Inputs[body[Len(body)]]
         /\ (\A m \in DOMAIN body : Inputs[body[m]] = <<>>) => AllInputs(body) = <<>>
<1> DEFINE parts == [i \in DOMAIN body |-> Inputs[body[i]]]
<1>1. /\ DOMAIN body = 1..Len(body) /\ Len(body) \in Nat
      /\ \A i \in DOMAIN body : body[i] \in Txid /\ Inputs[body[i]] \in Seq(OutPoint)
  BY ConstantsAssumption
<1>2. /\ parts \in Seq(Seq(OutPoint)) /\ Len(parts) = Len(body)
      /\ \A i \in 1..Len(parts) : parts[i] = Inputs[body[i]]
  BY <1>1
<1>3. AllInputs(body) = FlattenSeq(parts)
  BY DEF AllInputs
<1> HIDE DEF parts
<1>4. ASSUME body # <<>>, \A m \in DOMAIN body : m < Len(body) => Inputs[body[m]] = <<>>
      PROVE  AllInputs(body) = Inputs[body[Len(body)]]
  <2>1. Len(body) \in 1..Len(body)
    BY <1>1, <1>4
  <2>2. \A i \in 1..Len(parts) : i < Len(parts) => parts[i] = <<>>
    BY <1>1, <1>2, <1>4
  <2>3. FlattenSeq(parts) = parts[Len(parts)]
    BY <1>2, <2>1, <2>2, FlattenLast
  <2> QED BY <1>2, <1>3, <2>1, <2>3
<1>5. ASSUME \A m \in DOMAIN body : Inputs[body[m]] = <<>> PROVE AllInputs(body) = <<>>
  <2>1. CASE body = <<>>
    <3>1. parts = <<>>
      BY <1>2, <2>1
    <3> QED BY <1>3, <3>1 DEF FlattenSeq
  <2>2. CASE body # <<>>
    <3>1. Len(body) \in DOMAIN body
      BY <1>1, <2>2
    <3> QED BY <1>4, <1>5, <2>2, <3>1
  <2> QED BY <2>1, <2>2
<1> QED BY <1>1, <1>2, <1>3, <1>4, <1>5, FlattenLength

\* A slice begins after the inputs of the transactions before it.
LEMMA IndexType ==
  ASSUME NEW body \in Seq(Txid), NEW n \in DOMAIN body
  PROVE  /\ IndexOf(body, n) \in Nat
         /\ \A m \in DOMAIN body : m < n => IndexOf(body, n) >= Len(Inputs[body[m]])
         /\ (\A m \in DOMAIN body : m < n => Inputs[body[m]] = <<>>) => IndexOf(body, n) = 0
<1> DEFINE before == SubSeq(body, 1, n - 1)
<1>1. /\ DOMAIN body = 1..Len(body) /\ Len(body) \in Nat /\ n \in Nat /\ n >= 1 /\ n <= Len(body)
      /\ \A i \in DOMAIN body : body[i] \in Txid
  OBVIOUS
<1>2. /\ before \in Seq(Txid) /\ Len(before) = n - 1
      /\ \A i \in 1..(n - 1) : before[i] = body[i]
  <2>1. 1 \in Int /\ n - 1 \in Int /\ \A i \in 1..(n - 1) : body[i] \in Txid
    BY <1>1
  <2>2. /\ before \in Seq(Txid) /\ Len(before) = IF 1 <= n - 1 THEN (n - 1) - 1 + 1 ELSE 0
        /\ \A i \in 1..((n - 1) - 1 + 1) : before[i] = body[1 + i - 1]
    BY <2>1, SubSeqProperties
  <2> HIDE DEF before
  <2>3. Len(before) = n - 1
    BY <1>1, <2>2
  <2>4. ASSUME NEW i \in 1..(n - 1) PROVE before[i] = body[i]
    <3>1. i \in 1..((n - 1) - 1 + 1) /\ 1 + i - 1 = i
      BY <1>1
    <3> QED BY <2>2, <3>1
  <2> QED BY <2>2, <2>3, <2>4
<1>3. IndexOf(body, n) = Len(AllInputs(before))
  BY DEF IndexOf
<1> HIDE DEF before
<1>4. DOMAIN before = 1..(n - 1) /\ \A m \in DOMAIN body : m < n => m \in 1..(n - 1)
  BY <1>1, <1>2
<1>5. /\ AllInputs(before) \in Seq(OutPoint)
      /\ \A m \in DOMAIN before : Len(AllInputs(before)) >= Len(Inputs[before[m]])
      /\ (\A m \in DOMAIN before : Inputs[before[m]] = <<>>) => AllInputs(before) = <<>>
  BY <1>2, BodyInputs
<1>6. (\A m \in DOMAIN body : m < n => Inputs[body[m]] = <<>>) => IndexOf(body, n) = 0
  <2>1. \A m \in 1..(n - 1) : m \in DOMAIN body /\ m < n
    BY <1>1
  <2> QED BY <1>2, <1>3, <1>4, <1>5, <2>1
<1> QED BY <1>2, <1>3, <1>4, <1>5, <1>6

\* What reveals a name or sets its value is not valid on its own.
LEMMA NamesNeedInputs ==
  ASSUME NEW st \in State, NEW height, NEW t \in Txid, NEW o \in OutputSet(t),
         Output[o].type \in {"Reveal", "KeyValue"}
  PROVE  ~ValidateTransactionPure(st, {}, height, t)
<1>1. SpentCommitments({}) = {} /\ SpentKeys({}) = {}
  BY DEF SpentCommitments, SpentKeys
<1>2. Output[o] \in Content
  BY ConstantsAssumption DEF OutputSet, ToSet
<1>3. \E k \in Key : RevealsKey(o, k) \/ SetsKey(o, k)
  BY <1>2 DEF Content, RevealsKey, SetsKey
<1> QED BY <1>1, <1>3 DEF ValidateTransactionPure, OutputValid

\* What is valid in the next block is no older at the height of the tip.
LEMMA ValidAtTip ==
  ASSUME NEW st \in State, Height(st) \in Nat, NEW t \in Txid, ValidateTransaction(st, t)
  PROVE  ValidateTransactionPure(st, InputSet(t), Height(st), t)
<1>1. \A c \in Commitment : st.commitmentToHeight[c] \in Nat \cup {None}
  BY DEF State
<1>2. COMMITMENT_MAX_AGE \in Nat
  BY ConstantsAssumption
<1>3. ValidateTransactionPure(st, InputSet(t), Height(st) + 1, t)
  BY DEF ValidateTransaction
<1>4. RevealInTime(st, InputSet(t), Height(st) + 1)
  BY <1>3 DEF ValidateTransactionPure
<1>5. RevealInTime(st, InputSet(t), Height(st))
  BY <1>1, <1>2, <1>4 DEF RevealInTime, SpentCommitments
<1> QED BY <1>3, <1>5 DEF ValidateTransactionPure

\* A sequence of one element at most.
LEMMA OneAtMost ==
  ASSUME NEW S, NEW q \in Seq(S), Len(q) <= 1
  PROVE  Len(q) \in {0, 1} /\ (q # <<>> => Len(q) = 1)
<1>1. Len(q) \in Nat /\ (q # <<>> => Len(q) # 0)
  BY EmptySeq
<1>2. \A n \in Nat : n <= 1 => n \in {0, 1} /\ (n # 0 => n = 1)
  OBVIOUS
<1> QED BY <1>1, <1>2

\* What validate_body says of an order of transactions of wallets.
LEMMA BodyAccepted ==
  ASSUME NEW st \in State, Height(st) \in Nat, NEW body \in Seq(Txid),
         \A n \in DOMAIN body : ValidateTransaction(st, body[n]) /\ SpendsForAName(body[n])
  PROVE  ValidateBody(st, body) <=>
           \A n \in DOMAIN body : n < Len(body) => Inputs[body[n]] = <<>>
<1>1. DOMAIN body = 1..Len(body) /\ Len(body) \in Nat
  OBVIOUS
<1>4. ASSUME NEW n \in DOMAIN body
      PROVE  /\ body[n] \in Txid /\ Inputs[body[n]] \in Seq(OutPoint)
             /\ Len(Inputs[body[n]]) \in {0, 1}
             /\ Inputs[body[n]] # <<>> => Len(Inputs[body[n]]) = 1
  <2>1. body[n] \in Txid /\ Inputs[body[n]] \in Seq(OutPoint) /\ Len(Inputs[body[n]]) <= 1
    BY ConstantsAssumption DEF SpendsForAName
  <2> QED BY <2>1, OneAtMost
<1>2. ASSUME ValidateBody(st, body), NEW n \in DOMAIN body, n < Len(body), Inputs[body[n]] # <<>>
      PROVE  FALSE
  <2> DEFINE m == Len(body)
  <2>1. m \in DOMAIN body /\ n < m
    BY <1>1, <1>2
  <2>2. IndexOf(body, m) \in Nat /\ IndexOf(body, m) >= 1
    <3>1. Len(Inputs[body[n]]) = 1
      BY <1>2, <1>4
    <3> HIDE DEF m
    <3> QED BY <2>1, <3>1, IndexType
  <2>3. /\ IndexOf(body, m) <= SliceEnd(body, m)
        /\ ValidateTransactionPure(st, SpentSlice(body, m), Height(st), body[m])
    BY <1>2, <2>1 DEF ValidateBody
  <2>4. SliceEnd(body, m) = 1 /\ Inputs[body[m]] # <<>>
    <3>1. SliceEnd(body, m) \in {0, 1} /\ (Inputs[body[m]] = <<>> => SliceEnd(body, m) = 0)
      <4>1. Len(Inputs[body[m]]) \in {0, 1}
        BY <1>4, <2>1
      <4>2. Inputs[body[m]] = <<>> => Len(Inputs[body[m]]) = 0
        OBVIOUS
      <4> HIDE DEF m
      <4> QED BY <4>1, <4>2 DEF SliceEnd
    <3> HIDE DEF m
    <3> QED BY <2>2, <2>3, <3>1
  <2>5. SpentSlice(body, m) = {}
    <3> HIDE DEF m
    <3>1. SubSeq(AllInputs(body), IndexOf(body, m) + 1, SliceEnd(body, m)) = <<>>
      <4>1. /\ IndexOf(body, m) + 1 \in Int /\ SliceEnd(body, m) \in Int
            /\ SliceEnd(body, m) < IndexOf(body, m) + 1
        BY <2>2, <2>4
      <4> QED BY <4>1, SubSeqEmpty
    <3>2. ToSet(<<>>) = {}
      BY DEF ToSet
    <3> QED BY <3>1, <3>2 DEF SpentSlice
  <2>6. PICK o \in OutputSet(body[m]) : Output[o].type \in {"Reveal", "KeyValue"}
    BY <2>1, <2>4 DEF SpendsForAName
  <2> QED BY <1>4, <2>1, <2>3, <2>5, <2>6, NamesNeedInputs
<1>3. ASSUME \A n \in DOMAIN body : n < Len(body) => Inputs[body[n]] = <<>>
      PROVE  ValidateBody(st, body)
  <2>1. /\ AllInputs(body) \in Seq(OutPoint)
        /\ body # <<>> => AllInputs(body) = Inputs[body[Len(body)]]
        /\ body = <<>> => AllInputs(body) = <<>>
    BY <1>3, BodyInputs
  <2>2. ToSet(AllInputs(body)) \subseteq st.utxos
    <3>1. CASE body = <<>>
      BY <2>1, <3>1 DEF ToSet
    <3>2. CASE body # <<>>
      <4>1. Len(body) \in DOMAIN body
        BY <1>1, <3>2
      <4> QED BY <2>1, <3>2, <4>1 DEF ValidateTransaction, UtxosExist, InputSet
    <3> QED BY <3>1, <3>2
  <2>3. ASSUME NEW n \in DOMAIN body
        PROVE  /\ IndexOf(body, n) <= SliceEnd(body, n)
               /\ SpentSlice(body, n) = InputSet(body[n])
    <3>1. IndexOf(body, n) = 0
      <4>1. \A m \in DOMAIN body : m < n => Inputs[body[m]] = <<>>
        BY <1>1, <1>3
      <4> QED BY <4>1, IndexType
    <3>2. Inputs[body[n]] \in Seq(OutPoint) /\ SliceEnd(body, n) = Len(Inputs[body[n]])
      <4>1. Inputs[body[n]] \in Seq(OutPoint)
        BY <1>4
      <4> QED BY <4>1 DEF SliceEnd
    <3>3. SubSeq(AllInputs(body), 1, SliceEnd(body, n)) = Inputs[body[n]]
      <4>1. CASE n = Len(body)
        <5>1. AllInputs(body) = Inputs[body[n]]
          BY <2>1, <4>1
        <5>2. \A q \in Seq(OutPoint) : SubSeq(q, 1, Len(q)) = q
          OBVIOUS
        <5> QED BY <3>2, <5>1, <5>2
      <4>2. CASE n # Len(body)
        <5>1. Inputs[body[n]] = <<>>
          BY <1>1, <1>3, <4>2
        <5>2. SliceEnd(body, n) = 0
          BY <3>2, <5>1
        <5> QED BY <5>1, <5>2, SubSeqEmpty
      <4> QED BY <4>1, <4>2
    <3>4. SpentSlice(body, n) = ToSet(SubSeq(AllInputs(body), 1, SliceEnd(body, n)))
      BY <3>1 DEF SpentSlice
    <3>5. Len(Inputs[body[n]]) \in Nat
      BY <3>2
    <3>6. IndexOf(body, n) <= SliceEnd(body, n)
      BY <3>1, <3>2, <3>5
    <3> QED BY <3>3, <3>4, <3>6 DEF InputSet
  <2>4. \A n \in DOMAIN body : ValidateTransactionPure(st, SpentSlice(body, n), Height(st), body[n])
    BY <1>4, <2>3, ValidAtTip
  <2> QED BY <2>2, <2>3, <2>4 DEF ValidateBody
<1> QED BY <1>2, <1>3

(***************************************************************************)
(* Of the blocks that the node is about to connect validate_block accepts  *)
(* those in whose order the only transaction that spends is the last.      *)
(***************************************************************************)
THEOREM LastSpends == Spec => []OnlyTheLastSpends
<1>1. ChainInv /\ FiniteInv => OnlyTheLastSpends
  <2> SUFFICES ASSUME ChainInv, FiniteInv, block # None,
                      \A t \in block.txs : ValidateTransaction(db, t) /\ SpendsForAName(t),
                      NEW body \in SetToSeqs(block.txs)
               PROVE  ValidateBlock(db, block, body) <=>
                        \A n \in DOMAIN body : n < Len(body) => Inputs[body[n]] = <<>>
    BY DEF OnlyTheLastSpends
  <2>1. /\ db \in State /\ Height(db) \in Nat /\ block.txs \in SUBSET Txid
        /\ block.prevSide = Hash(Tip(db))
    BY TipType DEF ChainInv, TypeOK, NodeTypeOK, ExtendsTip, Header
  <2>2. body \in Seq(block.txs) /\ ToSet(body) = block.txs
    BY BodyOrder DEF FiniteInv
  <2>3. body \in Seq(Txid) /\ \A n \in DOMAIN body : body[n] \in block.txs
    BY <2>1, <2>2
  <2>4. ValidateBody(db, body) <=>
          \A n \in DOMAIN body : n < Len(body) => Inputs[body[n]] = <<>>
    BY <2>1, <2>3, BodyAccepted
  <2> QED BY <2>1, <2>2, <2>4 DEF ValidateBlock
<1> QED BY <1>1, ChainInvInit, ChainInvStep, FiniteInvInit, FiniteInvStep, PTL DEF Spec
=============================================================================
