------------------------------ MODULE PegProofs ------------------------------
(***************************************************************************)
(* Every deposit is credited once, for every value of the constants.       *)
(***************************************************************************)
EXTENDS NodeProofs

(***************************************************************************)
(* A state has the deposits of the mainchain up to a block, less those     *)
(* that are spent, and its last deposit block is where the next range may  *)
(* begin: no block after it, up to that one, has a deposit.                *)
(***************************************************************************)
CreditedUpTo(st, end, spent) ==
  /\ st.utxos \cap Deposit = MainDeposits(main, 1, end) \ spent
  /\ spent \cap Deposit \subseteq MainDeposits(main, 1, end)
  /\ st.lastDeposit <= end
  /\ \A i \in (st.lastDeposit + 1)..end : main[i].deposits = {}
  /\ \A c \in Commitment : st.commitmentToOutpoint[c] \notin Deposit

\* What the connected transactions and those of cur so far have spent.
SpentSoFar == Spent \cup UNION {InputSet(t) : t \in cur.txs \ todo}

DepositedOnce ==
  \A i, j \in 1..Len(main) : i # j => main[i].deposits \cap main[j].deposits = {}

CreditInv ==
  /\ DepositedOnce
  /\ CreditedUpTo(db, Tip(db).prevMain, Spent)
  /\ Connecting =>
       /\ todo \subseteq cur.txs
       /\ CreditedUpTo(wtxn, cur.prevMain, SpentSoFar)
  /\ pc \in {"broadcast", "commit"} => todo = {}

-----------------------------------------------------------------------------
(* The operations of connect_block.                                        *)

\* Two ranges that meet make one.
LEMMA DepositRanges ==
  ASSUME NEW first \in Nat, NEW middle \in Nat, NEW last \in Nat,
         first <= middle + 1, middle <= last
  PROVE  MainDeposits(main, first, last)
           = MainDeposits(main, first, middle) \cup MainDeposits(main, middle + 1, last)
<1>1. first..last = (first..middle) \cup ((middle + 1)..last)
  OBVIOUS
<1> QED BY <1>1 DEF MainDeposits

\* A withdrawal is not a deposit, so no bundle touches deposits.
LEMMA BundleHasNoDeposit ==
  ASSUME NEW b \in Bundle
  PROVE  ToSet(b) \cap Deposit = {}
BY BundleMembers, DepositAssumption DEF Withdrawals

\* The last deposit block after a range: none of the range comes after it.
LEMMA LastDepositBlock ==
  ASSUME MainTypeOK, NEW st \in State, NEW end \in Nat, st.lastDeposit <= end
  PROVE  LET last == IF DepositBlock(st, end) = None THEN st.lastDeposit
                                                     ELSE DepositBlock(st, end)
         IN  last <= end /\ \A i \in (last + 1)..end : main[i].deposits = {}
<1> DEFINE found == {i \in (st.lastDeposit + 1)..end : main[i].deposits # {}}
<1>0. st.lastDeposit \in Nat
  BY DEF State
<1>1. CASE found = {}
  BY <1>0, <1>1 DEF DepositBlock
<1>2. CASE found # {}
  <2>1. found \in SUBSET Nat /\ found \subseteq 0..end
    BY <1>0
  <2>2. IsFiniteSet(found)
    <3>1. IsFiniteSet(0..end)
      BY FS_Interval
    <3> HIDE DEF found
    <3> QED BY <2>1, <3>1, FS_Subset
  <2>3. Max(found) \in found /\ \A i \in found : i <= Max(found)
    <3> HIDE DEF found
    <3> QED BY <1>2, <2>1, <2>2, MaxOfFinite
  <2>4. Max(found) \in (st.lastDeposit + 1)..end /\ Max(found) # None
    BY <1>0, <2>3, NoneAssumption
  <2>5. ASSUME NEW i \in (Max(found) + 1)..end PROVE main[i].deposits = {}
    <3>1. i \in (st.lastDeposit + 1)..end /\ i > Max(found)
      BY <1>0, <2>4
    <3> QED BY <1>0, <2>3, <2>4, <3>1
  <2>6. DepositBlock(st, end) = Max(found)
    BY <1>2 DEF DepositBlock
  <2> HIDE DEF found
  <2> QED BY <1>0, <2>4, <2>5, <2>6
<1> QED BY <1>1, <1>2

\* The header and the deposits: the range after the last deposit block.
LEMMA HeaderCredits ==
  ASSUME MainTypeOK, DepositedOnce, NEW st \in State, NEW start \in Nat,
         NEW header \in Header, start <= header.prevMain, header.prevMain <= Len(main),
         NEW spent, CreditedUpTo(st, start, spent)
  PROVE  CreditedUpTo(HeaderConnected(st, header), header.prevMain, spent)
<1> DEFINE end == header.prevMain
           new == HeaderConnected(st, header)
<1>0. /\ end \in Nat /\ Len(main) \in Nat /\ st.lastDeposit \in Nat
      /\ st.lastDeposit <= start /\ start <= end /\ end <= Len(main)
  BY DEF Header, MainTypeOK, State, CreditedUpTo
<1>1. /\ new.utxos = st.utxos \cup NewDeposits(st, end)
      /\ new.commitmentToOutpoint = st.commitmentToOutpoint
      /\ new.lastDeposit = IF DepositBlock(st, end) = None THEN st.lastDeposit
                                                           ELSE DepositBlock(st, end)
  BY DEF HeaderConnected, ConnectHeader, State
<1> HIDE DEF new, end
<1>2. MainDeposits(main, st.lastDeposit + 1, start) = {}
  BY DEF CreditedUpTo, MainDeposits
<1>3. NewDeposits(st, end) = MainDeposits(main, start + 1, end)
  <2>1. st.lastDeposit + 1 \in Nat /\ st.lastDeposit + 1 <= start + 1
    BY <1>0
  <2>2. MainDeposits(main, st.lastDeposit + 1, end)
          = MainDeposits(main, st.lastDeposit + 1, start) \cup MainDeposits(main, start + 1, end)
    BY <1>0, <2>1, DepositRanges
  <2> QED BY <1>2, <2>2 DEF NewDeposits
<1>4. MainDeposits(main, 1, end)
        = MainDeposits(main, 1, start) \cup MainDeposits(main, start + 1, end)
  BY <1>0, DepositRanges
<1>5. MainDeposits(main, start + 1, end) \subseteq Deposit
  <2>1. \A i \in (start + 1)..end : main[i] \in MainBlock
    BY <1>0 DEF MainTypeOK
  <2> QED BY <2>1 DEF MainDeposits, MainBlock
<1>6. MainDeposits(main, 1, start) \cap MainDeposits(main, start + 1, end) = {}
  <2> SUFFICES ASSUME NEW i \in 1..start, NEW j \in (start + 1)..end
               PROVE  main[i].deposits \cap main[j].deposits = {}
    BY DEF MainDeposits
  <2>1. i \in 1..Len(main) /\ j \in 1..Len(main) /\ i # j
    BY <1>0
  <2> QED BY <2>1 DEF DepositedOnce
<1>7. new.utxos \cap Deposit = MainDeposits(main, 1, end) \ spent
  BY <1>1, <1>3, <1>4, <1>5, <1>6 DEF CreditedUpTo
<1>8. new.lastDeposit <= end /\ \A i \in (new.lastDeposit + 1)..end : main[i].deposits = {}
  BY <1>0, <1>1, LastDepositBlock
<1> QED BY <1>1, <1>4, <1>7, <1>8 DEF CreditedUpTo, end, new

\* The withdrawal bundle.
LEMMA WithdrawalsCredit ==
  ASSUME MainTypeOK, NEW st \in State, NEW b \in Bundle \cup {None},
         NEW end, NEW spent, CreditedUpTo(st, end, spent)
  PROVE  CreditedUpTo(WithdrawalsHandled(st, b), end, spent)
<1> DEFINE locked == IF b = None THEN st ELSE LockBundle(st, b)
<1>1. locked \in State
  BY LockBundleType
<1>2. /\ locked.utxos \cap Deposit = st.utxos \cap Deposit
      /\ locked.lastDeposit = st.lastDeposit
      /\ locked.commitmentToOutpoint = st.commitmentToOutpoint
  BY BundleHasNoDeposit DEF LockBundle, State
<1> DEFINE handled == HandleBundleStatus(locked, failed, confirmed, Height(st))
<1> HIDE DEF locked
<1>3. /\ handled.utxos \cap Deposit = locked.utxos \cap Deposit
      /\ handled.lastDeposit = locked.lastDeposit
      /\ handled.commitmentToOutpoint = locked.commitmentToOutpoint
  <2>1. CASE locked.bundle \in failed
    <3>1. ToSet(locked.bundle) \cap Deposit = {}
      BY <2>1, BundleHasNoDeposit DEF MainTypeOK
    <3>2. handled = [locked EXCEPT !.failureHeight = Height(st),
                                   !.utxos = @ \cup ToSet(locked.bundle)]
      BY <2>1 DEF HandleBundleStatus
    <3> QED BY <1>1, <3>1, <3>2 DEF State
  <2>2. CASE locked.bundle \notin failed
    BY <1>1, <2>2 DEF HandleBundleStatus, State
  <2> QED BY <2>1, <2>2
<1>4. WithdrawalsHandled(st, b) = handled
  BY DEF WithdrawalsHandled, locked
<1> HIDE DEF handled
<1> QED BY <1>2, <1>3, <1>4 DEF CreditedUpTo

\* A transaction spends deposits that are there and makes none.
LEMMA TransactionCredits ==
  ASSUME NEW st \in State, NEW t \in Txid, UtxosExist(st, t), NEW height \in Nat,
         NEW end, NEW spent, CreditedUpTo(st, end, spent)
  PROVE  CreditedUpTo(ApplyTransaction(st, t, height), end, spent \cup InputSet(t))
<1> DEFINE new == ApplyTransaction(st, t, height)
<1>1. /\ new.utxos = (st.utxos \ InputSet(t)) \cup OutputSet(t)
      /\ new.lastDeposit = st.lastDeposit
      /\ new.commitmentToOutpoint = CommitmentToOutpointAfter(st, t)
  BY DEF ApplyTransaction, State
<1>2. OutputSet(t) \cap Deposit = {} /\ InputSet(t) \subseteq st.utxos
  BY InputsAndOutputs DEF UtxosExist
<1>3. ASSUME NEW c \in Commitment PROVE CommitmentToOutpointAfter(st, t)[c] \notin Deposit
  <2>1. CASE CommitVouts(t, c) = {}
    BY <2>1 DEF CommitmentToOutpointAfter, CreditedUpTo
  <2>2. CASE CommitVouts(t, c) # {}
    <3>1. PICK i \in CommitVouts(t, c) : LastOutput(t, CommitVouts(t, c)) = Outputs[t][i]
      BY <2>2, LastOutputIsOne DEF CommitVouts
    <3>2. Outputs[t][i] \in OutputSet(t)
      BY InputsAndOutputs DEF CommitVouts
    <3> QED BY <1>2, <2>2, <3>1, <3>2 DEF CommitmentToOutpointAfter
  <2> QED BY <2>1, <2>2
<1> HIDE DEF new
<1>4. new.utxos \cap Deposit = MainDeposits(main, 1, end) \ (spent \cup InputSet(t))
  BY <1>1, <1>2 DEF CreditedUpTo
<1>5. (spent \cup InputSet(t)) \cap Deposit \subseteq MainDeposits(main, 1, end)
  BY <1>2 DEF CreditedUpTo
<1> QED BY <1>1, <1>3, <1>4, <1>5 DEF CreditedUpTo, new

\* The sweep deletes outputs of transactions only.
LEMMA SweepCredits ==
  ASSUME NEW st \in State, NEW height \in Nat, NEW end, NEW spent,
         CreditedUpTo(st, end, spent)
  PROVE  CreditedUpTo(ExpireCommitments(st, height), end, spent)
<1> DEFINE new == ExpireCommitments(st, height)
           expired == ExpiredCommitments(st, height)
<1>1. /\ new.utxos = st.utxos \ {st.commitmentToOutpoint[c] : c \in expired}
      /\ new.lastDeposit = st.lastDeposit
      /\ \A c \in Commitment : new.commitmentToOutpoint[c] \in {st.commitmentToOutpoint[c], None}
  BY DEF ExpireCommitments, State
<1>2. {st.commitmentToOutpoint[c] : c \in expired} \cap Deposit = {}
  BY DEF ExpiredCommitments, CreditedUpTo
<1>3. None \notin Deposit
  BY NoneAssumption, ConstantsAssumption
<1> HIDE DEF new, expired
<1> QED BY <1>1, <1>2, <1>3 DEF CreditedUpTo, new

-----------------------------------------------------------------------------
(* The invariant.                                                          *)

\* What was mined stays mined, deposits included.
LEMMA DepositsKept ==
  ASSUME MainTypeOK, MainKept, NEW end \in Nat, end <= Len(main)
  PROVE  /\ MainDeposits(main', 1, end) = MainDeposits(main, 1, end)
         /\ \A i \in 1..end : main'[i].deposits = main[i].deposits
<1>1. \A i \in 1..end : main'[i] = main[i]
  BY DEF MainKept, MainTypeOK
<1> QED BY <1>1 DEF MainDeposits

\* A deposit is mined once.
LEMMA DepositedOnceStep ==
  ASSUME MainTypeOK, DepositedOnce, MainNext
  PROVE  DepositedOnce'
<1>1. CASE MineBlock
  <2>1. PICK bmm \in requests \cup {None}, deposits \in SUBSET Deposit :
          /\ deposits \cap MainDeposits(main, 1, Len(main)) = {}
          /\ main' = Append(main, [bmm |-> bmm, deposits |-> deposits])
    BY <1>1 DEF MineBlock
  <2>2. main \in Seq(MainBlock) /\ Len(main) \in Nat
    BY DEF MainTypeOK
  <2>3. /\ Len(main') = Len(main) + 1
        /\ main'[Len(main) + 1] = [bmm |-> bmm, deposits |-> deposits]
        /\ \A i \in 1..Len(main) : main'[i] = main[i]
    BY <2>1, <2>2
  <2>4. main'[Len(main) + 1].deposits = deposits
    BY <2>3
  <2>5. \A i \in 1..Len(main) : deposits \cap main'[i].deposits = {}
    BY <2>1, <2>3 DEF MainDeposits
  <2>6. \A i \in 1..Len(main') : i = Len(main) + 1 \/ i \in 1..Len(main)
    BY <2>2, <2>3
  <2> SUFFICES ASSUME NEW i \in 1..Len(main'), NEW j \in 1..Len(main'), i # j
               PROVE  main'[i].deposits \cap main'[j].deposits = {}
    BY DEF DepositedOnce
  <2>7. CASE i \in 1..Len(main) /\ j \in 1..Len(main)
    BY <2>3, <2>7 DEF DepositedOnce
  <2>8. CASE i = Len(main) + 1 \/ j = Len(main) + 1
    BY <2>4, <2>5, <2>6, <2>8
  <2> QED BY <2>6, <2>7, <2>8
<1>2. CASE FailBundle \/ ConfirmBundle
  BY <1>2 DEF FailBundle, ConfirmBundle, DepositedOnce
<1> QED BY <1>1, <1>2 DEF MainNext

\* A step of the mainchain changes nothing of what was credited.
LEMMA CreditedKept ==
  ASSUME MainTypeOK, MainKept, NEW st \in State, NEW end \in Nat, end <= Len(main),
         NEW spent, CreditedUpTo(st, end, spent)
  PROVE  /\ st.utxos \cap Deposit = MainDeposits(main', 1, end) \ spent
         /\ spent \cap Deposit \subseteq MainDeposits(main', 1, end)
         /\ st.lastDeposit <= end
         /\ \A i \in (st.lastDeposit + 1)..end : main'[i].deposits = {}
         /\ \A c \in Commitment : st.commitmentToOutpoint[c] \notin Deposit
<1>1. (st.lastDeposit + 1)..end \subseteq 1..end
  BY DEF State
<1> QED BY <1>1, DepositsKept DEF CreditedUpTo

\* On an empty environment nothing is credited and nothing spent.
LEMMA CreditInvInit == Init => CreditInv
<1> SUFFICES ASSUME Init PROVE CreditInv
  OBVIOUS
<1>1. Len(main) = 1
  BY DEF Init, MainInit
<1>2. db = NewState /\ db.headers = <<Genesis>> /\ Tip(db).prevMain = 0
  BY NewStateType DEF Init, Tip, Genesis
<1>3. Spent = {}
  BY <1>2 DEF Spent, Connected, Genesis
<1>4. MainDeposits(main, 1, 0) = {}
  BY DEF MainDeposits
<1>5. CreditedUpTo(db, 0, {})
  BY <1>2, <1>4, NoneAssumption, ConstantsAssumption DEF CreditedUpTo, NewState
<1>6. DepositedOnce
  BY <1>1 DEF DepositedOnce
<1> QED BY <1>2, <1>3, <1>5, <1>6 DEF CreditInv, Init, Connecting

\* Every step preserves the invariant: one step of the proof per action that
\* writes a state or a block, the others leave the committed state alone.
LEMMA CreditInvStep == ChainInv /\ CreditInv /\ [Next]_vars => CreditInv'
<1> SUFFICES ASSUME ChainInv, CreditInv, [Next]_vars PROVE CreditInv'
  OBVIOUS
<1>0. /\ MainTypeOK /\ NodeTypeOK
      /\ db \in State /\ Tip(db) \in Header /\ Tip(db).prevMain \in Nat
      /\ Tip(db).prevMain <= Len(main)
      /\ Len(main) \in Nat
      /\ Connecting => /\ cur \in Header /\ cur.prevMain \in Nat /\ cur.prevMain <= Len(main)
                       /\ wtxn \in State /\ Height(wtxn) \in Nat
  <2>1. Connecting => wtxn \in State /\ wtxn.headers # <<>>
    BY DEF ChainInv, TypeOK, NodeTypeOK, State
  <2> QED BY <2>1, TipType DEF ChainInv, TypeOK, NodeTypeOK, MainTypeOK, ExtendsTip, Header
<1>1. CASE UNCHANGED <<db, wtxn, cur, todo, main, pc>>
  BY <1>1 DEF CreditInv, DepositedOnce, CreditedUpTo, SpentSoFar, Spent, Connected, Connecting
<1>2. CASE UNCHANGED <<db, main>> /\ pc' \in {"idle", "bmm", "poisoned"}
  BY <1>2 DEF CreditInv, DepositedOnce, CreditedUpTo, Spent, Connected, Connecting
<1>3. CASE ConfirmBmm
  <2>1. /\ block \in Header /\ block.prevMain \in Nat
        /\ Tip(db).prevMain <= block.prevMain /\ block.prevMain <= Len(main)
    BY <1>0, <1>3 DEF ConfirmBmm, ChainInv, ExtendsTip, Header
  <2> DEFINE st == HeaderConnected(db, block)
  <2>2. PICK b \in Collected(st) : wtxn' = WithdrawalsHandled(st, b)
    BY <1>3 DEF ConfirmBmm
  <2>3. st \in State /\ b \in Bundle \cup {None}
    BY <1>0, <2>1, HeaderConnectedType
  <2>4. CreditedUpTo(st, block.prevMain, Spent)
    BY <1>0, <2>1, HeaderCredits DEF CreditInv
  <2> HIDE DEF st
  <2>5. CreditedUpTo(wtxn', block.prevMain, Spent)
    BY <1>0, <2>2, <2>3, <2>4, WithdrawalsCredit
  <2>6. main' = main /\ db' = db /\ cur' = block /\ todo' = cur'.txs /\ pc' = "body"
    BY <1>3 DEF ConfirmBmm, mainVars
  <2>7. SpentSoFar' = Spent /\ Spent' = Spent
    BY <2>6 DEF SpentSoFar, Spent, Connected
  <2> QED BY <2>5, <2>6, <2>7 DEF CreditInv, DepositedOnce, CreditedUpTo
<1>4. ASSUME NEW t \in Txid, ConnectTransaction(t) PROVE CreditInv'
  <2>1. Connecting /\ t \in todo /\ UtxosExist(wtxn, t)
    BY <1>4 DEF ConnectTransaction, Connecting
  <2>2. /\ main' = main /\ db' = db /\ cur' = cur /\ pc' = "body"
        /\ todo' = todo \ {t} /\ wtxn' = ApplyTransaction(wtxn, t, Height(wtxn))
    BY <1>4 DEF ConnectTransaction, mainVars
  <2>3. CreditedUpTo(wtxn', cur.prevMain, SpentSoFar \cup InputSet(t))
    BY <1>0, <2>1, <2>2, TransactionCredits DEF CreditInv
  <2>4. SpentSoFar' = SpentSoFar \cup InputSet(t) /\ Spent' = Spent
    <3>1. cur'.txs \ todo' = (cur.txs \ todo) \cup {t}
      BY <2>1, <2>2 DEF CreditInv
    <3> QED BY <2>2, <3>1 DEF SpentSoFar, Spent, Connected
  <2> QED BY <2>1, <2>2, <2>3, <2>4 DEF CreditInv, DepositedOnce, CreditedUpTo
<1>5. CASE SweepExpired
  <2>1. Connecting /\ todo = {}
    BY <1>5 DEF SweepExpired, Connecting
  <2>2. /\ main' = main /\ db' = db /\ cur' = cur /\ todo' = todo
        /\ wtxn' = ExpireCommitments(wtxn, Height(wtxn))
    BY <1>5 DEF SweepExpired, mainVars
  <2>3. CreditedUpTo(wtxn', cur.prevMain, SpentSoFar)
    BY <1>0, <2>1, <2>2, SweepCredits DEF CreditInv
  <2>4. SpentSoFar' = SpentSoFar /\ Spent' = Spent
    BY <2>2 DEF SpentSoFar, Spent, Connected
  <2> QED BY <2>1, <2>2, <2>3, <2>4 DEF CreditInv, DepositedOnce, CreditedUpTo
<1>6. CASE BroadcastBundle
  <2>1. Connecting /\ todo = {}
    BY <1>6 DEF BroadcastBundle, Connecting, CreditInv
  <2>2. main' = main /\ UNCHANGED <<db, wtxn, cur, todo>>
    BY <1>6 DEF BroadcastBundle, ReceiveBundle, mainVars
  <2> QED BY <2>1, <2>2
        DEF CreditInv, DepositedOnce, CreditedUpTo, SpentSoFar, Spent, Connected
<1>7. CASE Commit
  <2>1. Connecting /\ todo = {}
    BY <1>7 DEF Commit, Connecting, CreditInv
  <2>2. main' = main /\ db' = wtxn /\ pc' = "idle"
    BY <1>7 DEF Commit, mainVars
  <2>3. db.headers \in Seq(Header) /\ db'.headers = Append(db.headers, cur) /\ cur \in Header
    BY <1>0, <2>1, <2>2 DEF ChainInv, State
  <2>4. Tip(db') = cur
    BY <2>3 DEF Tip
  <2>5. Spent' = SpentSoFar
    <3>1. Connected' = Connected \cup cur.txs
      BY <2>3 DEF Connected
    <3> QED BY <2>1, <3>1 DEF Spent, SpentSoFar
  <2> QED BY <2>1, <2>2, <2>4, <2>5 DEF CreditInv, DepositedOnce, CreditedUpTo, Connecting
<1>8. CASE MainNext /\ UNCHANGED nodeVars
  <2>1. MainKept
    BY <1>0, <1>8, MainStepType DEF MainKept
  <2>2. DepositedOnce'
    BY <1>0, <1>8, DepositedOnceStep DEF CreditInv
  <2>3. UNCHANGED <<db, wtxn, cur, todo, pc, Spent, SpentSoFar>>
    BY <1>8 DEF nodeVars, SpentSoFar, Spent, Connected
  <2>4. CreditedUpTo(db, Tip(db).prevMain, Spent)'
    <3>1. CreditedUpTo(db, Tip(db).prevMain, Spent)
      BY DEF CreditInv
    <3>2. /\ db.utxos \cap Deposit = MainDeposits(main', 1, Tip(db).prevMain) \ Spent
          /\ Spent \cap Deposit \subseteq MainDeposits(main', 1, Tip(db).prevMain)
          /\ db.lastDeposit <= Tip(db).prevMain
          /\ \A i \in (db.lastDeposit + 1)..Tip(db).prevMain : main'[i].deposits = {}
          /\ \A c \in Commitment : db.commitmentToOutpoint[c] \notin Deposit
      BY <1>0, <2>1, <3>1, CreditedKept
    <3> QED BY <2>3, <3>2 DEF CreditedUpTo
  <2>5. ASSUME Connecting PROVE CreditedUpTo(wtxn, cur.prevMain, SpentSoFar)'
    <3>1. /\ wtxn \in State /\ cur.prevMain \in Nat /\ cur.prevMain <= Len(main)
          /\ CreditedUpTo(wtxn, cur.prevMain, SpentSoFar)
      BY <1>0, <2>5 DEF CreditInv
    <3>2. /\ wtxn.utxos \cap Deposit = MainDeposits(main', 1, cur.prevMain) \ SpentSoFar
          /\ SpentSoFar \cap Deposit \subseteq MainDeposits(main', 1, cur.prevMain)
          /\ wtxn.lastDeposit <= cur.prevMain
          /\ \A i \in (wtxn.lastDeposit + 1)..cur.prevMain : main'[i].deposits = {}
          /\ \A c \in Commitment : wtxn.commitmentToOutpoint[c] \notin Deposit
      BY <1>0, <2>1, <3>1, CreditedKept
    <3> QED BY <2>3, <3>2 DEF CreditedUpTo
  <2> QED BY <2>2, <2>3, <2>4, <2>5 DEF CreditInv, Connecting
<1>9. CASE \/ \E t \in Txid : SubmitTransaction(t)
           \/ ConfirmFails \/ HeaderFails \/ CollectFails \/ ConnectFails \/ CallFails \/ AnswerLost
           \/ AttemptBmm \/ CreateBmm \/ Restart
  <2>1. UNCHANGED <<db, main>>
    BY <1>9 DEF SubmitTransaction, ConfirmFails, HeaderFails, CollectFails, ConnectFails,
                CallFails, AnswerLost, AttemptBmm, CreateBmm, Restart, Poison, mainVars, CreateBmmRequest, ReceiveBundle
  <2>2. pc' \in {"idle", "bmm", "poisoned"}
    BY <1>9 DEF SubmitTransaction, ConfirmFails, HeaderFails, CollectFails, ConnectFails,
                CallFails, AnswerLost, AttemptBmm, CreateBmm, Restart, Poison
  <2> QED BY <1>2, <2>1, <2>2
<1>10. CASE UNCHANGED vars
  BY <1>1, <1>10 DEF vars, nodeVars, mainVars
<1> QED BY <1>3, <1>4, <1>5, <1>6, <1>7, <1>8, <1>9, <1>10 DEF Next, NodeNext, HandlerStep

(***************************************************************************)
(* The ranges of mainchain blocks that successive blocks take deposits     *)
(* from meet, in the committed state and in the open write transaction.    *)
(***************************************************************************)
THEOREM CreditInvariant == Spec => []CreditInv
BY CreditInvInit, CreditInvStep, ChainInvariant, PTL DEF Spec

(***************************************************************************)
(* The deposits in the utxo set are those of the mainchain up to the block *)
(* the tip names, less the spent ones, whatever was attempted or lost.     *)
(***************************************************************************)
THEOREM DepositsCredited == Spec => []DepositsCreditedOnce
<1>1. CreditInv => DepositsCreditedOnce
  BY DEF CreditInv, CreditedUpTo, DepositsCreditedOnce
<1> QED BY <1>1, CreditInvariant, PTL
=============================================================================
