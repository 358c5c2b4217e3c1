---------------------------- MODULE BundleProofs ----------------------------
(***************************************************************************)
(* The height of the chain and the withdrawal bundles, for every value of  *)
(* the constants.                                                          *)
(***************************************************************************)
EXTENDS PegProofs, NameProofs, BundleHistory

\* What the open write transaction is when it begins.
LEMMA BundleOpens ==
  ASSUME ChainInv, ConfirmBmm
  PROVE  \E b \in Collected(HeaderConnected(db, block)) :
           LET st == HeaderConnected(db, block)
           IN  /\ block \in Header /\ block.prevMain <= Len(main)
               /\ db \in State /\ st \in State /\ Height(db) \in Nat
               /\ Height(st) = Height(db) + 1
               /\ st.bundle = db.bundle /\ st.failureHeight = db.failureHeight
               /\ b \in Bundle \cup {None}
               /\ wtxn' = WithdrawalsHandled(st, b)
               /\ wtxn' \in State /\ Height(wtxn') = Height(st)
               /\ failed \subseteq Bundle /\ confirmed \subseteq Bundle
<1> DEFINE st == HeaderConnected(db, block)
<1>1. /\ block \in Header /\ block.prevMain <= Len(main) /\ block.prevMain \in Nat
      /\ db \in State /\ db.headers # <<>>
      /\ MainTypeOK /\ failed \subseteq Bundle /\ confirmed \subseteq Bundle
  BY DEF ConfirmBmm, ChainInv, ExtendsTip, Header, TypeOK, NodeTypeOK, MainTypeOK
<1>2. /\ st \in State /\ st.headers = Append(db.headers, block)
      /\ Collected(st) \subseteq Bundle \cup {None}
  BY <1>1, HeaderConnectedType
<1>3. st.bundle = db.bundle /\ st.failureHeight = db.failureHeight
  BY <1>1 DEF HeaderConnected, ConnectHeader, State
<1>4. PICK b \in Collected(st) : wtxn' = WithdrawalsHandled(st, b)
  BY DEF ConfirmBmm
<1> HIDE DEF st
<1>5. wtxn' \in State /\ wtxn'.headers = st.headers
  BY <1>1, <1>2, <1>4, ConfirmType DEF st
<1>6. Height(db) \in Nat /\ Height(st) = Height(db) + 1 /\ Height(wtxn') = Height(st)
  <2>1. db.headers \in Seq(Header)
    BY <1>1 DEF State
  <2> QED BY <1>1, <1>2, <1>5, <2>1, TipType DEF Height
<1> QED BY <1>1, <1>2, <1>3, <1>4, <1>5, <1>6 DEF st

\* The steps that bundles and outputs take no notice of.
Elsewhere ==
  /\ UNCHANGED <<db, main, failed, confirmed>>
  /\ received' = received \/ (CallsMayFail /\ received \subseteq received')
  /\ \/ UNCHANGED <<wtxn, cur, todo, pc>>
     \/ pc' \in {"idle", "bmm", "poisoned"} /\ (pc = "commit" => CallsMayFail)

InBody == \E t \in Txid : ConnectTransaction(t)

LEMMA StepKinds ==
  ASSUME [Next]_vars
  PROVE  \/ ConfirmBmm \/ InBody \/ SweepExpired \/ BroadcastBundle \/ Commit
         \/ MainNext /\ UNCHANGED nodeVars
         \/ Elsewhere
<1>1. CASE \/ \E t \in Txid : SubmitTransaction(t)
           \/ AttemptBmm \/ CreateBmm \/ ConnectFails \/ ConfirmFails \/ HeaderFails \/ CollectFails
           \/ CallFails \/ UNCHANGED vars
  BY <1>1 DEF SubmitTransaction, AttemptBmm, CreateBmm, CreateBmmRequest, ConnectFails, ConfirmFails,
     HeaderFails, CollectFails, CallFails, Poison, vars, nodeVars, mainVars, Elsewhere
<1>2. CASE AnswerLost
  BY <1>2 DEF AnswerLost, CreateBmmRequest, ReceiveBundle, Poison, Elsewhere
<1>3. CASE Restart
  BY <1>3 DEF Restart, mainVars, Elsewhere
<1> QED BY <1>1, <1>2, <1>3 DEF Next, NodeNext, HandlerStep, InBody

\* The transactions and the sweep add no header.
LEMMA BodyHeaders ==
  ASSUME ChainInv, InBody \/ SweepExpired
  PROVE  /\ Connecting /\ Connecting' /\ wtxn' \in State /\ wtxn'.headers = wtxn.headers
         /\ wtxn'.bundle = wtxn.bundle /\ wtxn'.failureHeight = wtxn.failureHeight
         /\ UNCHANGED <<db, cur, mainVars>>
<1>1. Connecting /\ Connecting' /\ UNCHANGED <<db, cur, mainVars>>
  BY DEF InBody, ConnectTransaction, SweepExpired, Connecting
<1>2. wtxn \in State /\ Height(wtxn) \in Nat
  BY <1>1, OpenTransaction
<1>3. CASE InBody
  <2>1. PICK t \in Txid : wtxn' = ApplyTransaction(wtxn, t, Height(wtxn))
    BY <1>3 DEF InBody, ConnectTransaction
  <2>2. wtxn' \in State /\ wtxn'.headers = wtxn.headers
    BY <1>2, <2>1, ApplyTransactionType
  <2>3. wtxn'.bundle = wtxn.bundle /\ wtxn'.failureHeight = wtxn.failureHeight
    BY <1>2, <2>1 DEF ApplyTransaction, State
  <2> QED BY <1>1, <2>2, <2>3
<1>4. CASE SweepExpired
  <2>1. wtxn' = ExpireCommitments(wtxn, Height(wtxn))
    BY <1>4 DEF SweepExpired
  <2>2. wtxn' \in State /\ wtxn'.headers = wtxn.headers
    BY <1>2, <2>1, ExpireCommitmentsType
  <2>3. wtxn'.bundle = wtxn.bundle /\ wtxn'.failureHeight = wtxn.failureHeight
    BY <1>2, <2>1 DEF ExpireCommitments, State
  <2> QED BY <1>1, <2>2, <2>3
<1> QED BY <1>3, <1>4

-----------------------------------------------------------------------------
(* The height of the chain.                                                *)

\* The first number of two bytes does not come after the last of one.
LEMMA SecondByteComesFirst == ~KeyPrecedes(KeyRadix - 1, KeyRadix)
<1>1. \A r \in Nat \ {0, 1} : r % r = 0 /\ (r - 1) % r = r - 1
  BY Z3
<1>2. /\ KeyBytes(KeyRadix - 1)[1] = (KeyRadix - 1) % KeyRadix
      /\ KeyBytes(KeyRadix)[1] = KeyRadix % KeyRadix
  BY DEF KeyBytes
<1> QED BY <1>1, <1>2, KeyRadixAssumption DEF KeyPrecedes

HeightInv ==
  /\ Height(db) < KeyRadix
  /\ Connecting => Height(wtxn) < KeyRadix

LEMMA HeightInvInit == Init => HeightInv
<1> SUFFICES ASSUME Init PROVE HeightInv
  OBVIOUS
<1>1. Height(db) = 0 /\ ~Connecting
  BY NewStateType DEF Init, Height, Connecting
<1> QED BY <1>1, KeyRadixAssumption DEF HeightInv

\* Only a confirmation adds a header, and not the first of two bytes.
LEMMA HeightInvStep == ChainInv /\ HeightInv /\ [Next]_vars => HeightInv'
<1> SUFFICES ASSUME ChainInv, HeightInv, [Next]_vars PROVE HeightInv'
  OBVIOUS
<1>1. CASE ConfirmBmm
  <2>1. /\ Height(db) \in Nat /\ Height(wtxn') = Height(db) + 1
    BY <1>1, BundleOpens
  <2>2. Height(db) # KeyRadix - 1
    BY <1>1, KeyRadixAssumption, SecondByteComesFirst DEF ConfirmBmm, HeaderAppends
  <2>3. db' = db
    BY <1>1 DEF ConfirmBmm
  <2> QED BY <2>1, <2>2, <2>3, KeyRadixAssumption DEF HeightInv
<1>2. CASE InBody \/ SweepExpired
  <2>1. Connecting /\ db' = db /\ wtxn'.headers = wtxn.headers
    BY <1>2, BodyHeaders
  <2> QED BY <2>1 DEF HeightInv, Height
<1>3. CASE BroadcastBundle
  BY <1>3 DEF BroadcastBundle, HeightInv, Connecting
<1>4. CASE Commit
  BY <1>4 DEF Commit, HeightInv, Connecting
<1>5. CASE MainNext /\ UNCHANGED nodeVars
  BY <1>5 DEF nodeVars, HeightInv, Connecting
<1>6. CASE Elsewhere
  BY <1>6 DEF Elsewhere, HeightInv, Connecting
<1> QED BY <1>1, <1>2, <1>3, <1>4, <1>5, <1>6, StepKinds

(***************************************************************************)
(* No chain of this node passes the last height of one byte.               *)
(***************************************************************************)
THEOREM ChainEnds == Spec => []ChainStops
<1>1. HeightInv => ChainStops
  BY DEF HeightInv, ChainStops
<1> QED BY <1>1, HeightInvInit, HeightInvStep, ChainInvariant, PTL DEF Spec

-----------------------------------------------------------------------------
(* A bundle that failed.                                                   *)

LEMMA NoneIsNoBundle == None \notin Bundle
<1>1. Bundle \subseteq Seq(OutPoint)
  BY DEF Bundle, Withdrawals
<1> QED BY <1>1, NoneAssumption

\* The withdrawals of a block: the bundle that is pending after the collection
\* has failed and is put back, or it has not.
LEMMA HandledFields ==
  ASSUME NEW st \in State, NEW b \in Bundle \cup {None}
  PROVE  LET pending == IF b = None THEN st.bundle ELSE b
             left    == IF b = None THEN st.utxos ELSE st.utxos \ ToSet(b)
             new     == WithdrawalsHandled(st, b)
         IN  \/ /\ pending \in failed
                /\ new.failureHeight = Height(st)
                /\ new.bundle = pending
                /\ new.utxos = left \cup ToSet(pending)
             \/ /\ pending \notin failed
                /\ new.failureHeight = st.failureHeight
                /\ new.bundle = pending \/ (new.bundle = None /\ pending \in confirmed)
                /\ new.utxos = left
<1> DEFINE held == IF b = None THEN st ELSE LockBundle(st, b)
<1>1. held \in State
  BY LockBundleType
<1>2. /\ held.bundle = IF b = None THEN st.bundle ELSE b
      /\ held.utxos = IF b = None THEN st.utxos ELSE st.utxos \ ToSet(b)
      /\ held.failureHeight = st.failureHeight
  BY DEF LockBundle, State
<1> DEFINE new == HandleBundleStatus(held, failed, confirmed, Height(st))
<1> HIDE DEF held
<1>3. CASE held.bundle \in failed
  <2>1. new = [held EXCEPT !.failureHeight = Height(st), !.utxos = @ \cup ToSet(held.bundle)]
    BY <1>3 DEF HandleBundleStatus
  <2>2. /\ new.failureHeight = Height(st) /\ new.bundle = held.bundle
        /\ new.utxos = held.utxos \cup ToSet(held.bundle)
    BY <1>1, <2>1 DEF State
  <2> QED BY <1>2, <1>3, <2>2 DEF WithdrawalsHandled, held
<1>4. CASE held.bundle \notin failed
  <2>1. /\ new.failureHeight = held.failureHeight /\ new.utxos = held.utxos
        /\ new.bundle = held.bundle \/ (new.bundle = None /\ held.bundle \in confirmed)
    BY <1>1, <1>4 DEF HandleBundleStatus, State
  <2> QED BY <1>2, <1>4, <2>1 DEF WithdrawalsHandled, held
<1> QED BY <1>3, <1>4

\* The failure height is that of the state itself, once there was a failure.
FailSeen(st) ==
  /\ st.failureHeight \in {0, Height(st)}
  /\ st.failureHeight # 0 => st.bundle \in failed

FailInv ==
  /\ FailSeen(db)
  /\ Height(db) = 0 => db.bundle = None
  /\ Connecting =>
       /\ FailSeen(wtxn)
       /\ db.failureHeight # 0 => wtxn.bundle = db.bundle /\ wtxn.failureHeight # 0

\* The committed state has heard of a failure if it has seen one.
LEMMA ReturnedMeans ==
  ASSUME ChainInv, FailInv
  PROVE  Returned <=> db.failureHeight # 0
<1>1. db.failureHeight # 0 => Returned
  BY DEF FailInv, FailSeen, Returned
<1>2. ASSUME Returned, db.failureHeight = 0 PROVE FALSE
  <2>1. db.bundle = None
    BY <1>2 DEF FailInv, Returned
  <2>2. failed \subseteq Bundle
    BY DEF ChainInv, TypeOK, MainTypeOK
  <2> QED BY <1>2, <2>1, <2>2, NoneIsNoBundle DEF Returned
<1> QED BY <1>1, <1>2

\* Nothing is collected once there was a failure.
LEMMA NothingCollected ==
  ASSUME WITHDRAWAL_BUNDLE_FAILURE_GAP > 0, FailInv, db.failureHeight # 0, Height(db) \in Nat,
         NEW st \in State, Height(st) = Height(db) + 1, st.failureHeight = db.failureHeight
  PROVE  Collected(st) = {None}
<1>1. Height(st) - st.failureHeight = 1
  BY DEF FailInv, FailSeen
<1> QED BY <1>1, ConstantsAssumption DEF Collected, BundleDue

LEMMA FailInvInit == Init => FailInv
<1> SUFFICES ASSUME Init PROVE FailInv
  OBVIOUS
<1>1. Height(db) = 0 /\ ~Connecting /\ db.failureHeight = 0 /\ db.bundle = None
  BY NewStateType DEF Init, Height, Connecting, NewState
<1> QED BY <1>1 DEF FailInv, FailSeen

LEMMA FailInvStep ==
  ASSUME WITHDRAWAL_BUNDLE_FAILURE_GAP > 0
  PROVE  ChainInv /\ FailInv /\ [Next]_vars => FailInv'
<1> SUFFICES ASSUME ChainInv, FailInv, [Next]_vars PROVE FailInv'
  OBVIOUS
<1>1. CASE ConfirmBmm
  <2> DEFINE st == HeaderConnected(db, block)
  <2>1. PICK b \in Collected(st) :
          /\ db \in State /\ st \in State /\ Height(db) \in Nat
          /\ Height(st) = Height(db) + 1
          /\ st.bundle = db.bundle /\ st.failureHeight = db.failureHeight
          /\ b \in Bundle \cup {None}
          /\ wtxn' = WithdrawalsHandled(st, b) /\ Height(wtxn') = Height(st)
    BY <1>1, BundleOpens
  <2>2. db' = db /\ failed' = failed
    BY <1>1 DEF ConfirmBmm, mainVars
  <2> HIDE DEF st
  <2>3. CASE db.failureHeight = 0
    <3>1. FailSeen(wtxn')
      BY <2>1, <2>3, HandledFields DEF FailSeen
    <3> QED BY <2>2, <2>3, <3>1 DEF FailInv, FailSeen
  <2>4. CASE db.failureHeight # 0
    <3>1. b = None
      BY <2>1, <2>4, NothingCollected
    <3>2. st.bundle \in failed
      BY <2>1, <2>4 DEF FailInv, FailSeen
    <3>3. wtxn'.bundle = st.bundle /\ wtxn'.failureHeight = Height(st)
      <4>1. wtxn' = WithdrawalsHandled(st, None)
        BY <2>1, <3>1
      <4> DEFINE new == WithdrawalsHandled(st, None)
      <4>2. st \in State /\ None \in Bundle \cup {None}
        BY <2>1
      <4> HIDE DEF new
      <4>3. st.bundle \in failed => new.failureHeight = Height(st) /\ new.bundle = st.bundle
        BY <4>2, HandledFields DEF new
      <4> QED BY <3>2, <4>1, <4>3 DEF new
    <3>4. Height(st) # 0
      BY <2>1
    <3> QED BY <2>1, <2>2, <3>2, <3>3, <3>4 DEF FailInv, FailSeen
  <2> QED BY <2>3, <2>4
<1>2. CASE InBody \/ SweepExpired
  <2>1. /\ Connecting /\ db' = db /\ wtxn'.headers = wtxn.headers /\ failed' = failed
        /\ wtxn'.bundle = wtxn.bundle /\ wtxn'.failureHeight = wtxn.failureHeight
    BY <1>2, BodyHeaders DEF mainVars
  <2> QED BY <2>1 DEF FailInv, FailSeen, Height
<1>3. CASE BroadcastBundle
  <2>1. UNCHANGED <<db, wtxn, failed>> /\ Connecting
    BY <1>3 DEF BroadcastBundle, ReceiveBundle, mainVars, Connecting
  <2> QED BY <2>1 DEF FailInv, FailSeen
<1>4. CASE Commit
  <2>1. Connecting /\ db' = wtxn /\ failed' = failed /\ ~Connecting'
    BY <1>4 DEF Commit, mainVars, Connecting
  <2>2. Height(wtxn) # 0
    BY <2>1, OpenTransaction
  <2> QED BY <2>1, <2>2 DEF FailInv, FailSeen
<1>5. CASE MainNext /\ UNCHANGED nodeVars
  <2>1. failed \subseteq failed'
    BY <1>5 DEF MainNext, MineBlock, FailBundle, ConfirmBundle
  <2>2. UNCHANGED <<db, wtxn, pc>>
    BY <1>5 DEF nodeVars
  <2> QED BY <2>1, <2>2 DEF FailInv, FailSeen, Connecting
<1>6. CASE Elsewhere
  BY <1>6 DEF Elsewhere, FailInv, FailSeen, Connecting
<1> QED BY <1>1, <1>2, <1>3, <1>4, <1>5, <1>6, StepKinds

(***************************************************************************)
(* A bundle that failed stays the pending one of every later block: with   *)
(* any gap at all, nothing is collected again.                             *)
(***************************************************************************)
THEOREM FailureFinal ==
  ASSUME WITHDRAWAL_BUNDLE_FAILURE_GAP > 0
  PROVE  Spec => FailureIsFinal
<1>1. ChainInv /\ FailInv /\ ChainInv' /\ FailInv' /\ [Next]_vars
        => [Returned => Returned' /\ db'.bundle = db.bundle]_vars
  <2> SUFFICES ASSUME ChainInv, FailInv, ChainInv', FailInv', [Next]_vars, Returned
               PROVE  Returned' /\ db'.bundle = db.bundle
    OBVIOUS
  <2>1. db.failureHeight # 0
    BY ReturnedMeans
  <2>2. CASE Commit
    <3>1. Connecting /\ db' = wtxn
      BY <2>2 DEF Commit, Connecting
    <3>2. db'.failureHeight # 0 /\ db'.bundle = db.bundle
      BY <2>1, <3>1 DEF FailInv
    <3> QED BY <3>2 DEF FailInv, FailSeen, Returned
  <2>3. CASE ~Commit
    <3>1. db' = db
      BY <2>3, StepKinds DEF ConfirmBmm, InBody, ConnectTransaction, SweepExpired, BroadcastBundle,
         Elsewhere, nodeVars
    <3> QED BY <2>1, <3>1 DEF FailInv, FailSeen, Returned
  <2> QED BY <2>2, <2>3
<1> QED BY <1>1, FailInvInit, FailInvStep, ChainInvariant, PTL DEF Spec, FailureIsFinal

-----------------------------------------------------------------------------
(* Outputs.                                                                *)

\* What one turn of the loop and the sweep do to the utxo set.
LEMMA TransactionUtxos ==
  ASSUME ChainInv, CreditInv, NEW t \in Txid, ConnectTransaction(t)
  PROVE  /\ Connecting /\ Connecting' /\ pc' = "body" /\ wtxn \in State
         /\ InputSet(t) \subseteq wtxn.utxos
         /\ wtxn'.utxos = (wtxn.utxos \ InputSet(t)) \cup OutputSet(t)
         /\ cur'.txs \ todo' = (cur.txs \ todo) \cup {t}
         /\ SpentSoFar' = SpentSoFar \cup InputSet(t)
         /\ UNCHANGED <<db, cur, mainVars, Connected, Spent>>
<1>1. /\ Connecting /\ Connecting' /\ pc' = "body" /\ t \in todo
      /\ InputSet(t) \subseteq wtxn.utxos
      /\ wtxn' = ApplyTransaction(wtxn, t, Height(wtxn))
      /\ todo' = todo \ {t} /\ UNCHANGED <<db, cur, mainVars>>
  BY DEF ConnectTransaction, UtxosExist, Connecting
<1>2. wtxn \in State
  BY <1>1, OpenTransaction
<1>3. wtxn'.utxos = (wtxn.utxos \ InputSet(t)) \cup OutputSet(t)
  BY <1>1, <1>2 DEF ApplyTransaction, State
<1>4. Connected' = Connected /\ Spent' = Spent
  BY <1>1 DEF Connected, Spent
<1>5. cur'.txs \ todo' = (cur.txs \ todo) \cup {t}
  BY <1>1 DEF CreditInv
<1>6. SpentSoFar' = SpentSoFar \cup InputSet(t)
  BY <1>4, <1>5 DEF SpentSoFar
<1> QED BY <1>1, <1>2, <1>3, <1>4, <1>5, <1>6

LEMMA SweepUtxos ==
  ASSUME ChainInv, WaitInv, SweepExpired
  PROVE  /\ Connecting /\ Connecting' /\ pc' = "broadcast" /\ wtxn \in State
         /\ wtxn'.utxos \subseteq wtxn.utxos
         /\ \A o \in wtxn.utxos \ wtxn'.utxos : Output[o].type = "Commitment"
         /\ UNCHANGED <<db, cur, todo, mainVars, Connected, Spent, SpentSoFar>>
<1>1. /\ Connecting /\ Connecting' /\ pc' = "broadcast"
      /\ wtxn' = ExpireCommitments(wtxn, Height(wtxn))
      /\ UNCHANGED <<db, cur, todo, mainVars>>
  BY DEF SweepExpired, Connecting
<1>2. wtxn \in State
  BY <1>1, OpenTransaction
<1>3. wtxn'.utxos = wtxn.utxos \ {wtxn.commitmentToOutpoint[c] :
                                    c \in ExpiredCommitments(wtxn, Height(wtxn))}
  BY <1>1, <1>2 DEF ExpireCommitments, State
<1>4. \A c \in ExpiredCommitments(wtxn, Height(wtxn)) :
         Output[wtxn.commitmentToOutpoint[c]].type = "Commitment"
  BY <1>1 DEF ExpiredCommitments, WaitInv, Recorded, MadeThere, CommitsTo
<1> QED BY <1>1, <1>2, <1>3, <1>4 DEF Connected, Spent, SpentSoFar

\* The connected transactions are those of the instance.
LEMMA ConnectedType ==
  ASSUME ChainInv
  PROVE  Connected \subseteq Txid
<1>1. db.headers \in Seq(Header)
  BY DEF ChainInv, TypeOK, NodeTypeOK, State
<1>2. ASSUME NEW i \in DOMAIN db.headers PROVE db.headers[i].txs \subseteq Txid
  <2>1. db.headers[i] \in Header
    BY <1>1
  <2> QED BY <2>1 DEF Header
<1> QED BY <1>2 DEF Connected

\* What the commit makes of the committed chain.
LEMMA CommitConnects ==
  ASSUME ChainInv, CreditInv, Commit
  PROVE  /\ Connecting /\ ~Connecting' /\ pc' = "idle" /\ db' = wtxn /\ UNCHANGED mainVars
         /\ todo = {}
         /\ Connected' = Connected \cup cur.txs
         /\ Spent' = SpentSoFar
<1>1. /\ Connecting /\ ~Connecting' /\ pc' = "idle" /\ db' = wtxn /\ UNCHANGED mainVars
      /\ todo = {}
  BY DEF Commit, Connecting, CreditInv
<1>2. /\ db.headers \in Seq(Header) /\ cur \in Header
      /\ db'.headers = Append(db.headers, cur)
  BY <1>1, OpenTransaction DEF State
<1>3. Connected' = Connected \cup cur.txs
  BY <1>2 DEF Connected
<1> QED BY <1>1, <1>3 DEF Spent, SpentSoFar

\* An output of these transactions that is not spent is there, unless it is a
\* commitment or in one of these bundles.
Kept(st, txs, spent, bundles) ==
  \A t \in txs : \A o \in OutputSet(t) \ spent :
    \/ o \in st.utxos
    \/ Output[o].type = "Commitment"
    \/ \E b \in bundles : o \in ToSet(b)

KeptInv ==
  /\ confirmed \subseteq received
  /\ Kept(db, Connected, Spent, received)
  /\ Connecting => Kept(wtxn, Connected \cup (cur.txs \ todo), SpentSoFar, received \cup Pending(wtxn))
  /\ pc = "commit" => Pending(wtxn) \subseteq received

LEMMA KeptInvInit == Init => KeptInv
<1> SUFFICES ASSUME Init PROVE KeptInv
  OBVIOUS
<1>1. db.headers = <<Genesis>> /\ pc = "idle" /\ confirmed = {}
  BY NewStateType DEF Init, MainInit
<1>2. Connected = {}
  BY <1>1 DEF Connected, Genesis
<1> QED BY <1>1, <1>2 DEF KeptInv, Kept, Connecting

LEMMA KeptInvStep == ChainInv /\ CreditInv /\ WaitInv /\ KeptInv /\ [Next]_vars => KeptInv'
<1> SUFFICES ASSUME ChainInv, CreditInv, WaitInv, KeptInv, [Next]_vars PROVE KeptInv'
  OBVIOUS
<1>1. CASE ConfirmBmm
  <2> DEFINE st == HeaderConnected(db, block)
  <2>1. PICK b \in Collected(st) :
          /\ db \in State /\ st \in State /\ block \in Header /\ block.prevMain <= Len(main)
          /\ b \in Bundle \cup {None}
          /\ wtxn' = WithdrawalsHandled(st, b)
    BY <1>1, BundleOpens
  <2>2. /\ UNCHANGED <<db, mainVars>> /\ pc' = "body" /\ cur' = block /\ todo' = block.txs
    BY <1>1 DEF ConfirmBmm
  <2>3. UNCHANGED <<Connected, Spent>> /\ SpentSoFar' = Spent /\ cur'.txs \ todo' = {}
    BY <2>2 DEF Connected, Spent, SpentSoFar
  <2>4. db.utxos \subseteq st.utxos
    BY <2>1 DEF HeaderConnected, ConnectHeader, State
  <2> HIDE DEF st
  <2>5. \A o \in st.utxos : o \in wtxn'.utxos \/ \E c \in received \cup Pending(wtxn') : o \in ToSet(c)
    <3> DEFINE pending == IF b = None THEN st.bundle ELSE b
               left    == IF b = None THEN st.utxos ELSE st.utxos \ ToSet(b)
    <3>1. left \subseteq wtxn'.utxos
      BY <2>1, HandledFields
    <3>2. wtxn'.bundle = pending \/ (wtxn'.bundle = None /\ pending \in received)
      BY <2>1, HandledFields DEF KeptInv
    <3>3. b # None => b \in received \cup Pending(wtxn')
      BY <3>2 DEF Pending
    <3> QED BY <3>1, <3>3
  <2>6. Kept(wtxn', Connected, Spent, received \cup Pending(wtxn'))
    BY <2>4, <2>5 DEF KeptInv, Kept
  <2> QED BY <2>2, <2>3, <2>6 DEF KeptInv, Kept, mainVars, Pending
<1>2. CASE InBody
  <2>1. PICK t \in Txid : ConnectTransaction(t)
    BY <1>2 DEF InBody
  <2>2. Kept(wtxn', Connected \cup (cur'.txs \ todo'), SpentSoFar', received \cup Pending(wtxn))
    BY <2>1, TransactionUtxos DEF KeptInv, Kept
  <2>3. wtxn'.bundle = wtxn.bundle
    BY <1>2, BodyHeaders
  <2> QED BY <2>1, <2>2, <2>3, TransactionUtxos DEF KeptInv, Kept, Pending, mainVars
<1>3. CASE SweepExpired
  <2>1. Kept(wtxn', Connected \cup (cur.txs \ todo), SpentSoFar, received \cup Pending(wtxn))
    BY <1>3, SweepUtxos DEF KeptInv, Kept
  <2>2. wtxn'.bundle = wtxn.bundle
    BY <1>3, BodyHeaders
  <2> QED BY <1>3, <2>1, <2>2, SweepUtxos DEF KeptInv, Kept, Pending, mainVars
<1>4. CASE BroadcastBundle
  <2>1. /\ Connecting /\ UNCHANGED <<db, wtxn, cur, todo, confirmed>>
        /\ received' = received \cup Pending(wtxn)
    BY <1>4 DEF BroadcastBundle, ReceiveBundle, Pending, mainVars, Connecting
  <2>2. UNCHANGED <<Connected, Spent, SpentSoFar>>
    BY <2>1 DEF Connected, Spent, SpentSoFar
  <2> QED BY <2>1, <2>2 DEF KeptInv, Kept, Pending
<1>5. CASE Commit
  <2>1. Kept(wtxn, Connected \cup cur.txs, SpentSoFar, received)
    BY <1>5, CommitConnects DEF KeptInv, Kept, Commit
  <2> QED BY <1>5, <2>1, CommitConnects DEF KeptInv, mainVars, Kept, Connecting
<1>6. CASE MainNext /\ UNCHANGED nodeVars
  <2>1. received' = received /\ (confirmed' \subseteq confirmed \cup received)
    BY <1>6 DEF MainNext, MineBlock, FailBundle, ConfirmBundle
  <2>2. UNCHANGED <<db, wtxn, cur, todo, pc, Connected, Spent, SpentSoFar>>
    BY <1>6 DEF nodeVars, Connected, Spent, SpentSoFar
  <2> QED BY <2>1, <2>2 DEF KeptInv, Kept, Pending, Connecting
<1>7. CASE Elsewhere
  <2>1. UNCHANGED <<db, confirmed, Connected, Spent>> /\ received \subseteq received'
    BY <1>7 DEF Elsewhere, Connected, Spent
  <2>2. Kept(db, Connected, Spent, received')
    BY <2>1 DEF KeptInv, Kept
  <2>3. CASE UNCHANGED <<wtxn, cur, todo, pc>>
    <3>1. UNCHANGED SpentSoFar
      BY <2>1, <2>3 DEF SpentSoFar
    <3> QED BY <2>1, <2>2, <2>3, <3>1 DEF KeptInv, Kept, Pending, Connecting
  <2>4. CASE pc' \in {"idle", "bmm", "poisoned"}
    BY <2>1, <2>2, <2>4 DEF KeptInv, Kept, Connecting
  <2> QED BY <1>7, <2>3, <2>4 DEF Elsewhere
<1> QED BY <1>1, <1>2, <1>3, <1>4, <1>5, <1>6, <1>7, StepKinds

(***************************************************************************)
(* An output that is not spent is in the utxo set, unless it is a          *)
(* commitment, or a withdrawal of a bundle the mainchain was handed.       *)
(***************************************************************************)
THEOREM OutputsKept == Spec => []NoOutputLost
<1>1. KeptInv => NoOutputLost
  BY DEF KeptInv, Kept, NoOutputLost
<1> QED BY <1>1, KeptInvInit, KeptInvStep, ChainInvariant, CreditInvariant, WaitInvariant, PTL
        DEF Spec

-----------------------------------------------------------------------------
(* What names are made of.                                                 *)

NamePoint == {o \in OutPoint : Output[o].type \in {"Commitment", "Reveal", "KeyValue"}}

Outs(txs) == UNION {OutputSet(t) : t \in txs}

\* The transactions that are connected, when the write transaction is counted.
SoFar == Connected \cup (cur.txs \ todo)

\* The outputs of names that can be spent are those of these transactions, and
\* a commitment on record can be spent, unless it was.
MadeAndOpen(st, txs, spent) ==
  /\ st.utxos \cap NamePoint \subseteq Outs(txs)
  /\ \A o \in OutPoint, c \in Unrepeated :
       CommitsTo(o, c) /\ st.commitmentToHeight[c] # None => o \in st.utxos \cup spent

MadeInv ==
  /\ MadeAndOpen(db, Connected, Spent)
  /\ Connecting => MadeAndOpen(wtxn, SoFar, SpentSoFar)

LEMMA MadeInvInit == Init => MadeInv
<1> SUFFICES ASSUME Init PROVE MadeInv
  OBVIOUS
<1>1. db.utxos = {} /\ pc = "idle" /\ \A c \in Commitment : db.commitmentToHeight[c] = None
  BY DEF Init, NewState
<1> QED BY <1>1 DEF MadeInv, MadeAndOpen, Connecting, Unrepeated

\* What is credited are deposits.
LEMMA NewDepositsAreDeposits ==
  ASSUME MainTypeOK, NEW st \in State, NEW end \in Nat, end <= Len(main)
  PROVE  NewDeposits(st, end) \subseteq Deposit
<1>1. st.lastDeposit \in Nat /\ Len(main) \in Nat
  BY DEF State, MainTypeOK
<1>2. \A i \in (st.lastDeposit + 1)..end : main[i] \in MainBlock
  BY <1>1 DEF MainTypeOK
<1> QED BY <1>2 DEF NewDeposits, MainDeposits, MainBlock

\* Deposits and withdrawals have nothing to do with names.
LEMMA ConfirmMakesNoName ==
  ASSUME ChainInv, NameInv, ConfirmBmm
  PROVE  /\ wtxn'.utxos \cap NamePoint = db.utxos \cap NamePoint
         /\ wtxn'.commitmentToHeight = db.commitmentToHeight
<1> DEFINE st == HeaderConnected(db, block)
<1>1. PICK b \in Collected(st) :
        /\ block \in Header /\ block.prevMain <= Len(main)
        /\ db \in State /\ st \in State
        /\ b \in Bundle \cup {None}
        /\ wtxn' = WithdrawalsHandled(st, b)
        /\ failed \subseteq Bundle
  BY BundleOpens
<1>2. MainTypeOK /\ block.prevMain \in Nat /\ db.headers # <<>>
  BY <1>1 DEF ChainInv, TypeOK, Header
<1>3. wtxn'.commitmentToHeight = db.commitmentToHeight
  BY <1>1, <1>2, ConfirmNames DEF NameInv
<1>4. st.utxos \cap NamePoint = db.utxos \cap NamePoint
  <2>1. st.utxos = db.utxos \cup NewDeposits(db, block.prevMain)
    BY <1>1 DEF HeaderConnected, ConnectHeader, State
  <2>2. Deposit \cap NamePoint = {}
    BY DepositAssumption DEF NamePoint
  <2> QED BY <1>1, <1>2, <2>1, <2>2, NewDepositsAreDeposits
<1>5. \A c \in Bundle : ToSet(c) \cap NamePoint = {}
  BY BundleMembers DEF Withdrawals, NamePoint
<1> HIDE DEF st
<1> DEFINE pending == IF b = None THEN st.bundle ELSE b
           left    == IF b = None THEN st.utxos ELSE st.utxos \ ToSet(b)
<1>6. wtxn'.utxos = left \/ (pending \in failed /\ wtxn'.utxos = left \cup ToSet(pending))
  BY <1>1, HandledFields
<1>7. left \cap NamePoint = st.utxos \cap NamePoint
  BY <1>1, <1>5
<1> HIDE DEF left, pending
<1>8. wtxn'.utxos \cap NamePoint = left \cap NamePoint
  BY <1>1, <1>5, <1>6
<1> QED BY <1>3, <1>4, <1>7, <1>8

LEMMA MadeInvStep ==
  ChainInv /\ CreditInv /\ NameInv /\ WaitInv /\ MadeInv /\ [Next]_vars => MadeInv'
<1> SUFFICES ASSUME ChainInv, CreditInv, NameInv, WaitInv, MadeInv, [Next]_vars PROVE MadeInv'
  OBVIOUS
<1>0. \A o, c : CommitsTo(o, c) /\ o \in OutPoint => o \in NamePoint
  BY DEF CommitsTo, NamePoint
<1>1. CASE ConfirmBmm
  <2>1. /\ wtxn'.utxos \cap NamePoint = db.utxos \cap NamePoint
        /\ wtxn'.commitmentToHeight = db.commitmentToHeight
    BY <1>1, ConfirmMakesNoName
  <2>2. db' = db /\ cur' = block /\ todo' = block.txs
    BY <1>1 DEF ConfirmBmm
  <2>3. /\ UNCHANGED <<Connected, Spent>>
        /\ SoFar' = Connected /\ SpentSoFar' = Spent
    BY <2>2 DEF Connected, Spent, SpentSoFar, SoFar
  <2>4. MadeAndOpen(wtxn', Connected, Spent)
    BY <1>0, <2>1 DEF MadeInv, MadeAndOpen
  <2> QED BY <2>2, <2>3, <2>4 DEF MadeInv, MadeAndOpen
<1>2. CASE InBody
  <2>1. PICK t \in Txid : ConnectTransaction(t)
    BY <1>2 DEF InBody
  <2>2. /\ Connecting /\ wtxn \in State
        /\ wtxn'.utxos = (wtxn.utxos \ InputSet(t)) \cup OutputSet(t)
        /\ SpentSoFar' = SpentSoFar \cup InputSet(t)
        /\ UNCHANGED <<db, Connected, Spent>>
    BY <2>1, TransactionUtxos
  <2>3. SoFar' = SoFar \cup {t}
    BY <2>1, TransactionUtxos DEF SoFar
  <2>4. wtxn' = ApplyTransaction(wtxn, t, Height(wtxn)) /\ Height(wtxn) \in Nat
    BY <2>1, <2>2, OpenTransaction DEF ConnectTransaction
  <2>5. wtxn'.utxos \cap NamePoint \subseteq Outs(SoFar')
    <3>1. Outs(SoFar') = Outs(SoFar) \cup OutputSet(t)
      BY <2>3 DEF Outs
    <3> QED BY <2>2, <3>1 DEF MadeInv, MadeAndOpen
  <2>6. ASSUME NEW o \in OutPoint, NEW c \in Unrepeated, CommitsTo(o, c),
               wtxn'.commitmentToHeight[c] # None
        PROVE  o \in wtxn'.utxos \cup SpentSoFar'
    <3>1. CASE wtxn'.commitmentToHeight[c] = wtxn.commitmentToHeight[c]
      BY <2>2, <2>6, <3>1 DEF MadeInv, MadeAndOpen
    <3>2. CASE wtxn'.commitmentToHeight[c] # wtxn.commitmentToHeight[c]
      <4>1. c \in Commitment
        BY DEF Unrepeated
      <4>2. PICK p \in OutputSet(t) : CommitsTo(p, c)
        BY <2>2, <2>4, <3>2, <4>1, CommitmentEntries
      <4>3. p = o
        <5>1. p \in OutPoint
          BY <4>2, InputsAndOutputs
        <5> QED BY <2>6, <4>2, <5>1 DEF Unrepeated
      <4> QED BY <2>2, <4>2, <4>3
    <3> QED BY <3>1, <3>2
  <2> QED BY <2>2, <2>5, <2>6 DEF MadeInv, MadeAndOpen
<1>3. CASE SweepExpired
  <2>1. /\ Connecting /\ wtxn \in State /\ wtxn'.utxos \subseteq wtxn.utxos
        /\ UNCHANGED <<db, cur, todo, Connected, Spent, SpentSoFar>>
    BY <1>3, SweepUtxos
  <2> DEFINE expired == ExpiredCommitments(wtxn, Height(wtxn))
  <2>2. /\ wtxn'.utxos = wtxn.utxos \ {wtxn.commitmentToOutpoint[c] : c \in expired}
        /\ \A c \in Commitment : wtxn'.commitmentToHeight[c] =
             IF c \in expired THEN None ELSE wtxn.commitmentToHeight[c]
    BY <1>3, <2>1 DEF SweepExpired, ExpireCommitments, State
  <2>3. \A c \in expired : c \in Commitment /\ CommitsTo(wtxn.commitmentToOutpoint[c], c)
    BY <2>1 DEF ExpiredCommitments, WaitInv, Recorded, MadeThere
  <2> HIDE DEF expired
  <2>4. ASSUME NEW o \in OutPoint, NEW c \in Unrepeated, CommitsTo(o, c),
               wtxn'.commitmentToHeight[c] # None
        PROVE  o \in wtxn'.utxos \cup SpentSoFar
    <3>1. c \in Commitment
      BY DEF Unrepeated
    <3>2. c \notin expired /\ wtxn.commitmentToHeight[c] # None
      BY <2>2, <2>4, <3>1
    <3>3. \A d \in expired : wtxn.commitmentToOutpoint[d] # o
      BY <2>3, <2>4, <3>2 DEF CommitsTo
    <3> QED BY <2>1, <2>2, <2>4, <3>2, <3>3 DEF MadeInv, MadeAndOpen
  <2>5. SoFar' = SoFar
    BY <2>1 DEF SoFar
  <2> QED BY <2>1, <2>4, <2>5 DEF MadeInv, MadeAndOpen
<1>4. CASE Commit
  <2>1. /\ Connecting /\ ~Connecting' /\ db' = wtxn
        /\ Connected' = SoFar /\ Spent' = SpentSoFar
    BY <1>4, CommitConnects DEF SoFar
  <2> QED BY <2>1 DEF MadeInv
<1>5. CASE BroadcastBundle
  <2>1. Connecting /\ UNCHANGED <<db, wtxn, cur, todo>>
    BY <1>5 DEF BroadcastBundle, Connecting
  <2>2. UNCHANGED <<Connected, Spent, SpentSoFar, SoFar>>
    BY <2>1 DEF Connected, Spent, SpentSoFar, SoFar
  <2> QED BY <2>1, <2>2 DEF MadeInv, MadeAndOpen
<1>6. CASE MainNext /\ UNCHANGED nodeVars
  <2>1. UNCHANGED <<db, wtxn, pc, Connected, Spent, SpentSoFar, SoFar>>
    BY <1>6 DEF nodeVars, Connected, Spent, SpentSoFar, SoFar
  <2> QED BY <2>1 DEF MadeInv, MadeAndOpen, Connecting
<1>7. CASE Elsewhere
  <2>1. UNCHANGED <<db, Connected, Spent>>
    BY <1>7 DEF Elsewhere, Connected, Spent
  <2>2. CASE UNCHANGED <<wtxn, cur, todo, pc>>
    <3>1. UNCHANGED <<SpentSoFar, SoFar>>
      BY <2>1, <2>2 DEF SpentSoFar, SoFar
    <3> QED BY <2>1, <2>2, <3>1 DEF MadeInv, MadeAndOpen, Connecting
  <2>3. CASE pc' \in {"idle", "bmm", "poisoned"}
    BY <2>1, <2>3 DEF MadeInv, MadeAndOpen, Connecting
  <2> QED BY <1>7, <2>2, <2>3 DEF Elsewhere
<1> QED BY <1>1, <1>2, <1>3, <1>4, <1>5, <1>6, <1>7, StepKinds

-----------------------------------------------------------------------------
(* Withdrawals are paid once.                                              *)

Pays(o) == Output[o].type \in {"Value", "Withdrawal"}

(***************************************************************************)
(* validate_transaction of sdk_types lets no more value out than comes in: *)
(* a transaction that makes an output with a value spends one.  The theorem*)
(* needs it because a transaction without inputs could be connected twice. *)
(***************************************************************************)
PaymentsArePaid ==
  \A t \in Txid : (\E o \in OutputSet(t) : Pays(o)) => \E o \in InputSet(t) : Pays(o)

Ins(txs)  == UNION {InputSet(t) : t \in txs}

(***************************************************************************)
(* Of these transactions the early ones were connected before the first    *)
(* failure of a bundle, if any.  What they spend is gone, what these       *)
(* bundles hold is theirs and was not spent, and no two bundles share it.  *)
(***************************************************************************)
Safe(st, txs, early, bundles) ==
  /\ early \subseteq txs
  /\ st.failureHeight = 0 => early = txs
  /\ st.failureHeight = 0 => \A o \in st.utxos : Pays(o) => o \in Deposit \/ o \in Outs(early)
  /\ \A o \in Ins(early) : Pays(o) => o \notin st.utxos /\ (o \in Deposit \/ o \in Outs(early))
  /\ \A b \in bundles : \A o \in ToSet(b) : o \in Outs(early) /\ o \notin Ins(early)
  /\ \A b \in bundles : (st.failureHeight # 0 /\ b = st.bundle) \/ ToSet(b) \cap st.utxos = {}
  /\ \A b, c \in bundles : b # c => ToSet(b) \cap ToSet(c) = {}

\* An outpoint has one maker.
LEMMA OneMaker ==
  ASSUME NEW t \in Txid, NEW u \in Txid, NEW o \in OutputSet(t), o \in OutputSet(u)
  PROVE  t = u
BY OutputsAssumption DEF OutputSet, ToSet

\* A transaction that spends what is there, and makes payments, is a new one.
LEMMA PaymentIsNew ==
  ASSUME PaymentsArePaid, NEW st, NEW txs \in SUBSET Txid, NEW early, NEW bundles,
         Safe(st, txs, early, bundles), NEW t \in Txid, InputSet(t) \subseteq st.utxos
  PROVE  \A o \in OutputSet(t) : Pays(o) => o \notin Outs(early)
<1> SUFFICES ASSUME NEW o \in OutputSet(t), Pays(o), o \in Outs(early)
             PROVE  FALSE
  OBVIOUS
<1>1. t \in early
  BY OneMaker DEF Outs, Safe
<1>2. PICK p \in InputSet(t) : Pays(p)
  BY DEF PaymentsArePaid
<1> QED BY <1>1, <1>2 DEF Safe, Ins

\* The withdrawals of a bundle are payments, and not deposits.
LEMMA BundlePays ==
  ASSUME NEW b \in Bundle
  PROVE  \A o \in ToSet(b) : Pays(o) /\ o \notin Deposit
BY BundleMembers, DepositAssumption DEF Withdrawals, Pays

LEMMA FewerBundles ==
  ASSUME NEW st, NEW txs, NEW early, NEW bundles, NEW fewer \in SUBSET bundles,
         Safe(st, txs, early, bundles)
  PROVE  Safe(st, txs, early, fewer)
BY DEF Safe

LEMMA TransactionSafe ==
  ASSUME PaymentsArePaid, NEW st, NEW new, NEW txs \in SUBSET Txid, NEW early,
         NEW bundles \in SUBSET Bundle, Safe(st, txs, early, bundles),
         NEW t \in Txid, InputSet(t) \subseteq st.utxos,
         new.utxos = (st.utxos \ InputSet(t)) \cup OutputSet(t),
         new.bundle = st.bundle, new.failureHeight = st.failureHeight
  PROVE  Safe(new, txs \cup {t}, IF st.failureHeight = 0 THEN early \cup {t} ELSE early, bundles)
<1>1. \A o \in OutputSet(t) : Pays(o) => o \notin Outs(early) /\ o \notin Deposit
  <2>1. OutputSet(t) \cap Deposit = {}
    BY InputsAndOutputs
  <2> QED BY <2>1, PaymentIsNew
<1>2. \A b \in bundles : \A o \in ToSet(b) : Pays(o) /\ o \notin Deposit
  BY BundlePays
<1>3. CASE st.failureHeight # 0
  BY <1>1, <1>2, <1>3 DEF Safe
<1>4. CASE st.failureHeight = 0
  <2> DEFINE now == early \cup {t}
  <2>1. Ins(now) = Ins(early) \cup InputSet(t) /\ Outs(now) = Outs(early) \cup OutputSet(t)
    BY DEF Ins, Outs
  <2> HIDE DEF now
  <2>2. now = txs \cup {t}
    BY <1>4 DEF now, Safe
  <2>3. \A o \in new.utxos : Pays(o) => o \in Deposit \/ o \in Outs(now)
    BY <1>4, <2>1 DEF Safe
  <2>4. \A o \in Ins(now) : Pays(o) => o \notin new.utxos /\ (o \in Deposit \/ o \in Outs(now))
    BY <1>1, <1>4, <2>1 DEF Safe
  <2>5. \A b \in bundles : ToSet(b) \cap st.utxos = {}
    BY <1>4 DEF Safe
  <2>6. \A b \in bundles : \A o \in ToSet(b) : o \in Outs(now) /\ o \notin Ins(now)
    BY <2>1, <2>5 DEF Safe
  <2>7. \A b \in bundles : ToSet(b) \cap new.utxos = {}
    BY <1>1, <1>2, <2>5 DEF Safe
  <2> QED BY <1>4, <2>2, <2>3, <2>4, <2>6, <2>7 DEF Safe, now
<1> QED BY <1>3, <1>4

\* The bundle that is collected, and the one that is put back.
LEMMA WithdrawalsSafe ==
  ASSUME NEW st \in State, Height(st) # 0,
         NEW txs, NEW early, NEW bundles \in SUBSET Bundle, Safe(st, txs, early, bundles),
         Pending(st) \subseteq bundles,
         NEW b \in Bundle \cup {None}, b # None => ToSet(b) \subseteq st.utxos,
         st.failureHeight # 0 => b = None /\ st.bundle \in failed,
         failed \subseteq Bundle
  PROVE  LET new == WithdrawalsHandled(st, b)
         IN  Safe(new, txs, early, bundles \cup Pending(new))
<1> DEFINE new     == WithdrawalsHandled(st, b)
           pending == IF b = None THEN st.bundle ELSE b
           left    == IF b = None THEN st.utxos ELSE st.utxos \ ToSet(b)
           all     == IF b = None THEN bundles ELSE bundles \cup {b}
<1>1. \/ /\ pending \in failed /\ new.failureHeight = Height(st) /\ new.bundle = pending
         /\ new.utxos = left \cup ToSet(pending)
      \/ /\ pending \notin failed /\ new.failureHeight = st.failureHeight
         /\ (new.bundle = pending \/ new.bundle = None)
         /\ new.utxos = left
  BY HandledFields
<1>2. all \subseteq Bundle /\ (pending # None => pending \in all) /\ left \subseteq st.utxos
  BY DEF Pending
<1>3. \A c \in all : \A o \in ToSet(c) : Pays(o) /\ o \notin Deposit
  BY <1>2, BundlePays
<1> HIDE DEF new
<1>4. \A c \in all : \A o \in ToSet(c) : o \in Outs(early) /\ o \notin Ins(early)
  <2>1. CASE b = None
    BY <2>1 DEF Safe
  <2>2. CASE b # None
    BY <1>3, <2>2 DEF Safe
  <2> QED BY <2>1, <2>2
<1>5. \A c \in all : (st.failureHeight # 0 /\ c = pending) \/ ToSet(c) \cap left = {}
  <2>1. CASE b = None
    BY <2>1 DEF Safe
  <2>2. CASE b # None
    BY <2>2 DEF Safe
  <2> QED BY <2>1, <2>2
<1>6. \A c, d \in all : c # d => ToSet(c) \cap ToSet(d) = {}
  <2>1. CASE b = None
    BY <2>1 DEF Safe
  <2>2. CASE b # None
    BY <2>2 DEF Safe
  <2> QED BY <2>1, <2>2
<1> HIDE DEF all, left, pending
<1>7. bundles \cup Pending(new) \subseteq all
  BY <1>1, <1>2 DEF Pending, all
<1>8. Safe(new, txs, early, all)
  <2>1. CASE pending \in failed
    <3>1. pending \in all /\ new.failureHeight # 0
      BY <1>1, <1>2, <2>1, NoneIsNoBundle
    <3>2. \A o \in ToSet(pending) : o \notin Ins(early)
      BY <1>4, <3>1
    <3>3. \A o \in Ins(early) : Pays(o) => o \notin new.utxos /\ (o \in Deposit \/ o \in Outs(early))
      BY <1>1, <1>2, <2>1, <3>2 DEF Safe
    <3>4. \A c \in all : c = pending \/ ToSet(c) \cap new.utxos = {}
      BY <1>1, <1>5, <1>6, <2>1, <3>1
    <3> QED BY <1>1, <1>4, <1>6, <2>1, <3>1, <3>3, <3>4 DEF Safe
  <2>2. CASE pending \notin failed
    <3>1. st.failureHeight = 0
      BY <2>2 DEF pending
    <3> QED BY <1>1, <1>2, <1>4, <1>5, <1>6, <2>2, <3>1 DEF Safe
  <2> QED BY <2>1, <2>2
<1> QED BY <1>7, <1>8, FewerBundles DEF new

\* The first part of connect_block: the deposits are new, too.
LEMMA ConfirmSafe ==
  ASSUME WITHDRAWAL_BUNDLE_FAILURE_GAP > 0, ChainInv, CreditInv, FailInv, ConfirmBmm,
         NEW early, NEW bundles \in SUBSET Bundle, Safe(db, Connected, early, bundles),
         Pending(db) \subseteq bundles
  PROVE  Safe(wtxn', Connected, early, bundles \cup Pending(wtxn'))
<1> DEFINE st == HeaderConnected(db, block)
<1>1. PICK b \in Collected(st) :
        /\ block \in Header /\ block.prevMain <= Len(main)
        /\ db \in State /\ st \in State /\ Height(db) \in Nat /\ Height(st) = Height(db) + 1
        /\ st.bundle = db.bundle /\ st.failureHeight = db.failureHeight
        /\ b \in Bundle \cup {None}
        /\ wtxn' = WithdrawalsHandled(st, b)
        /\ failed \subseteq Bundle
  BY BundleOpens
<1>2. st.utxos = db.utxos \cup NewDeposits(db, block.prevMain)
  BY <1>1 DEF HeaderConnected, ConnectHeader, State
<1>3. NewDeposits(db, block.prevMain) \subseteq Deposit /\ st.utxos \cap Deposit \cap Spent = {}
  <2>1. /\ MainTypeOK /\ block.prevMain \in Nat /\ Tip(db).prevMain \in Nat
        /\ Tip(db).prevMain <= block.prevMain
    BY <1>1, TipType DEF ConfirmBmm, ChainInv, ExtendsTip, TypeOK, Header
  <2>2. CreditedUpTo(st, block.prevMain, Spent)
    BY <1>1, <2>1, HeaderCredits DEF CreditInv
  <2>3. NewDeposits(db, block.prevMain) \subseteq Deposit
    BY <1>1, <2>1, NewDepositsAreDeposits
  <2> QED BY <2>2, <2>3 DEF CreditedUpTo
<1> HIDE DEF st
<1>4. Safe(st, Connected, early, bundles)
  <2>1. Ins(early) \subseteq Spent
    BY DEF Safe, Ins, Spent
  <2>2. \A c \in bundles : \A o \in ToSet(c) : o \notin Deposit
    BY BundlePays
  <2> QED BY <1>1, <1>2, <1>3, <2>1, <2>2 DEF Safe
<1>5. b # None => ToSet(b) \subseteq st.utxos
  BY <1>1, CollectType DEF Collected, Withdrawals, State
<1>6. db.failureHeight # 0 => b = None /\ st.bundle \in failed
  <2>1. db.failureHeight # 0 => b = None
    BY <1>1, NothingCollected
  <2> QED BY <1>1, <2>1 DEF FailInv, FailSeen
<1>7. Height(st) # 0 /\ Pending(st) = Pending(db)
  BY <1>1 DEF Pending
<1> QED BY <1>1, <1>4, <1>5, <1>6, <1>7, WithdrawalsSafe

\* The loop over the body and the sweep.
LEMMA BodySafe ==
  ASSUME PaymentsArePaid, ChainInv, CreditInv, WaitInv, InBody \/ SweepExpired,
         NEW early, NEW bundles \in SUBSET Bundle, Safe(wtxn, SoFar, early, bundles)
  PROVE  \E now : Safe(wtxn', SoFar', now, bundles)
<1>1. wtxn'.bundle = wtxn.bundle /\ wtxn'.failureHeight = wtxn.failureHeight
  BY BodyHeaders
<1>2. CASE InBody
  <2>1. PICK t \in Txid : ConnectTransaction(t)
    BY <1>2 DEF InBody
  <2>2. SoFar \in SUBSET Txid
    <3>1. Connected \subseteq Txid
      BY ConnectedType
    <3>2. cur.txs \subseteq Txid
      BY <2>1, TransactionUtxos, OpenTransaction
    <3> QED BY <3>1, <3>2 DEF SoFar
  <2>3. SoFar' = SoFar \cup {t}
    BY <2>1, TransactionUtxos DEF SoFar
  <2>4. /\ InputSet(t) \subseteq wtxn.utxos
        /\ wtxn'.utxos = (wtxn.utxos \ InputSet(t)) \cup OutputSet(t)
    BY <2>1, TransactionUtxos
  <2> QED BY <1>1, <2>2, <2>3, <2>4, TransactionSafe
<1>3. CASE SweepExpired
  <2>1. SoFar' = SoFar
    BY <1>3, SweepUtxos DEF SoFar
  <2>2. wtxn'.utxos \subseteq wtxn.utxos
    BY <1>3, SweepUtxos
  <2>3. Safe(wtxn', SoFar, early, bundles)
    BY <1>1, <2>2 DEF Safe
  <2> QED BY <2>1, <2>3
<1> QED BY <1>2, <1>3

\* Nothing is connected when the chain begins.
LEMMA SafeInit ==
  ASSUME Init
  PROVE  Safe(db, Connected, {}, {}) /\ Pending(db) = {} /\ ~Connecting /\ pc = "idle"
<1>1. /\ db.headers = <<Genesis>> /\ db.utxos = {} /\ db.bundle = None
      /\ ~Connecting /\ pc = "idle"
  BY NewStateType DEF Init, NewState, Connecting
<1>2. Connected = {}
  BY <1>1 DEF Connected, Genesis
<1> QED BY <1>1, <1>2 DEF Safe, Pending, Ins

\* For the pending bundle alone, whatever fails.
LockInv ==
  /\ \E early : Safe(db, Connected, early, Pending(db))
  /\ Connecting => \E early : Safe(wtxn, SoFar, early, Pending(wtxn))

LEMMA PendingIsBundle ==
  ASSUME NEW st \in State
  PROVE  Pending(st) \in SUBSET Bundle
BY DEF Pending, State

LEMMA LockInvStep ==
  ASSUME PaymentsArePaid, WITHDRAWAL_BUNDLE_FAILURE_GAP > 0
  PROVE  ChainInv /\ CreditInv /\ WaitInv /\ FailInv /\ LockInv /\ [Next]_vars => LockInv'
<1> SUFFICES ASSUME ChainInv, CreditInv, WaitInv, FailInv, LockInv, [Next]_vars PROVE LockInv'
  OBVIOUS
<1>0. db \in State
  BY DEF ChainInv, TypeOK, NodeTypeOK
<1>1. CASE ConfirmBmm
  <2>1. PICK early : Safe(db, Connected, early, Pending(db))
    BY DEF LockInv
  <2>2. Safe(wtxn', Connected, early, Pending(db) \cup Pending(wtxn'))
    BY <1>0, <1>1, <2>1, ConfirmSafe, PendingIsBundle
  <2>3. Safe(wtxn', Connected, early, Pending(wtxn'))
    BY <2>2, FewerBundles
  <2>4. db' = db /\ cur' = block /\ todo' = block.txs
    BY <1>1 DEF ConfirmBmm
  <2>5. Connected' = Connected /\ SoFar' = Connected
    BY <2>4 DEF Connected, SoFar
  <2> QED BY <2>1, <2>3, <2>4, <2>5 DEF LockInv, Pending
<1>2. CASE InBody \/ SweepExpired
  <2>1. /\ Connecting /\ db' = db /\ wtxn'.bundle = wtxn.bundle
    BY <1>2, BodyHeaders
  <2>2. wtxn \in State
    BY <2>1, OpenTransaction
  <2>3. PICK early : Safe(wtxn, SoFar, early, Pending(wtxn))
    BY <2>1 DEF LockInv
  <2>4. \E now : Safe(wtxn', SoFar', now, Pending(wtxn))
    BY <1>2, <2>2, <2>3, BodySafe, PendingIsBundle
  <2>5. Connected' = Connected
    BY <2>1 DEF Connected
  <2> QED BY <2>1, <2>4, <2>5 DEF LockInv, Pending
<1>3. CASE BroadcastBundle
  <2>1. UNCHANGED <<db, wtxn, cur, todo>> /\ Connecting
    BY <1>3 DEF BroadcastBundle, Connecting
  <2>2. UNCHANGED <<Connected, SoFar>>
    BY <2>1 DEF Connected, SoFar
  <2> QED BY <2>1, <2>2 DEF LockInv, Pending
<1>4. CASE Commit
  <2>1. Connecting /\ ~Connecting' /\ db' = wtxn /\ Connected' = SoFar
    BY <1>4, CommitConnects DEF SoFar
  <2> QED BY <2>1 DEF LockInv, Pending
<1>5. CASE MainNext /\ UNCHANGED nodeVars
  <2>1. UNCHANGED <<db, wtxn, cur, todo, pc, Connected, SoFar>>
    BY <1>5 DEF nodeVars, Connected, SoFar
  <2> QED BY <2>1 DEF LockInv, Pending, Connecting
<1>6. CASE Elsewhere
  <2>1. UNCHANGED <<db, Connected>>
    BY <1>6 DEF Elsewhere, Connected
  <2>2. CASE UNCHANGED <<wtxn, cur, todo, pc>>
    <3>1. UNCHANGED SoFar
      BY <2>1, <2>2 DEF SoFar
    <3> QED BY <2>1, <2>2, <3>1 DEF LockInv, Pending, Connecting
  <2>3. CASE pc' \in {"idle", "bmm", "poisoned"}
    BY <2>1, <2>3 DEF LockInv, Pending, Connecting
  <2> QED BY <1>6, <2>2, <2>3 DEF Elsewhere
<1> QED BY <1>1, <1>2, <1>3, <1>4, <1>5, <1>6, StepKinds

(***************************************************************************)
(* No withdrawal of the pending bundle is in the utxo set before the       *)
(* bundle fails.                                                           *)
(***************************************************************************)
THEOREM PendingLocked ==
  ASSUME PaymentsArePaid, WITHDRAWAL_BUNDLE_FAILURE_GAP > 0
  PROVE  Spec => []PendingIsLocked
<1>1. FailInv /\ LockInv => PendingIsLocked
  BY DEF FailInv, FailSeen, LockInv, Safe, Pending, PendingIsLocked
<1>2. Init => LockInv
  BY SafeInit DEF LockInv
<1> QED BY <1>1, <1>2, LockInvStep, FailInvInit, FailInvStep, ChainInvariant, CreditInvariant,
           WaitInvariant, PTL DEF Spec

\* For every bundle that a committed block collected, whatever fails.
CollectedInv ==
  /\ locked \subseteq Bundle /\ Pending(db) \subseteq locked
  /\ \E early : Safe(db, Connected, early, locked)
  /\ Connecting => \E early : Safe(wtxn, SoFar, early, locked \cup Pending(wtxn))

LEMMA CollectedInvStep ==
  ASSUME PaymentsArePaid, WITHDRAWAL_BUNDLE_FAILURE_GAP > 0
  PROVE  /\ ChainInv /\ CreditInv /\ WaitInv /\ FailInv /\ CollectedInv
         /\ [LockedNext]_<<vars, locked>>
         => CollectedInv'
<1> SUFFICES ASSUME ChainInv, CreditInv, WaitInv, FailInv, CollectedInv,
                    [LockedNext]_<<vars, locked>>
             PROVE  CollectedInv'
  OBVIOUS
<1>0. db \in State /\ locked \in SUBSET Bundle
  BY DEF ChainInv, TypeOK, NodeTypeOK, CollectedInv
<1>00. [Next]_vars /\ (locked' = locked \/ locked' = locked \cup Pending(db'))
  BY DEF LockedNext
<1>000. db' = db => locked' = locked /\ Connected' = Connected /\ Pending(db') = Pending(db)
  BY <1>00 DEF CollectedInv, Connected, Pending
<1>1. CASE ConfirmBmm
  <2>1. db' = db /\ cur' = block /\ todo' = block.txs
    BY <1>1 DEF ConfirmBmm
  <2>2. PICK early : Safe(db, Connected, early, locked)
    BY DEF CollectedInv
  <2>3. Safe(wtxn', Connected, early, locked \cup Pending(wtxn'))
    BY <1>0, <1>1, <2>2, ConfirmSafe DEF CollectedInv
  <2>4. Pending(wtxn') = Pending(wtxn)' /\ SoFar' = Connected
    BY <1>000, <2>1 DEF SoFar, Pending
  <2> QED BY <1>000, <2>1, <2>2, <2>3, <2>4 DEF CollectedInv
<1>2. CASE InBody \/ SweepExpired
  <2>1. Connecting /\ db' = db /\ wtxn'.bundle = wtxn.bundle
    BY <1>2, BodyHeaders
  <2>2. locked \cup Pending(wtxn) \in SUBSET Bundle
    BY <1>0, <2>1, OpenTransaction, PendingIsBundle
  <2>3. PICK early : Safe(wtxn, SoFar, early, locked \cup Pending(wtxn))
    BY <2>1 DEF CollectedInv
  <2>4. \E now : Safe(wtxn', SoFar', now, locked \cup Pending(wtxn))
    BY <1>2, <2>2, <2>3, BodySafe
  <2>5. Pending(wtxn)' = Pending(wtxn)
    BY <2>1 DEF Pending
  <2> QED BY <1>000, <2>1, <2>4, <2>5 DEF CollectedInv
<1>3. CASE BroadcastBundle
  <2>1. UNCHANGED <<db, wtxn, cur, todo>> /\ Connecting
    BY <1>3 DEF BroadcastBundle, Connecting
  <2>2. UNCHANGED <<SoFar, Pending(wtxn)>>
    BY <1>000, <2>1 DEF SoFar, Pending
  <2> QED BY <1>000, <2>1, <2>2 DEF CollectedInv
<1>4. CASE Commit
  <2>1. Connecting /\ ~Connecting' /\ db' = wtxn /\ Connected' = SoFar
    BY <1>4, CommitConnects DEF SoFar
  <2>2. locked' = locked \cup Pending(wtxn)
    <3>1. LockedNext
      BY <1>4, <2>1 DEF vars, nodeVars, Commit, Connecting
    <3> QED BY <2>1, <3>1 DEF LockedNext
  <2>3. wtxn \in State /\ Pending(db)' = Pending(wtxn)
    BY <2>1, OpenTransaction DEF Pending
  <2>4. Pending(wtxn) \subseteq Bundle
    BY <2>3, PendingIsBundle
  <2> QED BY <1>0, <2>1, <2>2, <2>3, <2>4 DEF CollectedInv
<1>5. CASE MainNext /\ UNCHANGED nodeVars
  <2>1. UNCHANGED <<db, wtxn, cur, todo, pc>>
    BY <1>5 DEF nodeVars
  <2>2. UNCHANGED <<SoFar, Pending(wtxn), Connecting>>
    BY <1>000, <2>1 DEF SoFar, Pending, Connecting
  <2> QED BY <1>000, <2>1, <2>2 DEF CollectedInv
<1>6. CASE Elsewhere
  <2>1. db' = db
    BY <1>6 DEF Elsewhere
  <2>2. CASE UNCHANGED <<wtxn, cur, todo, pc>>
    <3>1. UNCHANGED <<SoFar, Pending(wtxn), Connecting>>
      BY <1>000, <2>1, <2>2 DEF SoFar, Pending, Connecting
    <3> QED BY <1>000, <2>1, <2>2, <3>1 DEF CollectedInv
  <2>3. CASE pc' \in {"idle", "bmm", "poisoned"}
    <3>1. ~Connecting'
      BY <2>3 DEF Connecting
    <3> QED BY <1>000, <2>1, <3>1 DEF CollectedInv
  <2> QED BY <1>6, <2>2, <2>3 DEF Elsewhere
<1> QED BY <1>00, <1>1, <1>2, <1>3, <1>4, <1>5, <1>6, StepKinds

(***************************************************************************)
(* With any gap, whatever calls fail and wherever the process ends: two    *)
(* bundles of a chain share no withdrawal, and none of one that was paid,  *)
(* or may still be, is ever in the utxo set again.                         *)
(***************************************************************************)
THEOREM WithdrawalsCollectedOnce ==
  ASSUME PaymentsArePaid, WITHDRAWAL_BUNDLE_FAILURE_GAP > 0
  PROVE  LockedSpec => []CollectedOnce
<1>1. LockedInit => Init /\ CollectedInv
  <2> SUFFICES ASSUME LockedInit PROVE Init /\ CollectedInv
    OBVIOUS
  <2>1. Init /\ locked = {}
    BY DEF LockedInit
  <2> QED BY <2>1, SafeInit DEF CollectedInv
<1>2. [LockedNext]_<<vars, locked>> => [Next]_vars
  BY DEF LockedNext, vars
<1>3. ChainInv /\ CreditInv /\ WaitInv /\ FailInv /\ CollectedInv /\ [LockedNext]_<<vars, locked>>
      => CollectedInv'
  BY CollectedInvStep
<1>4. FailInv /\ CollectedInv => CollectedOnce
  BY DEF FailInv, FailSeen, CollectedInv, Safe, CollectedOnce
<1>5. LockedSpec => Spec
  BY <1>1, <1>2, PTL DEF LockedSpec, Spec
<1>6. Spec => [](ChainInv /\ CreditInv /\ WaitInv /\ FailInv)
  BY FailInvInit, FailInvStep, ChainInvariant, CreditInvariant, WaitInvariant, PTL DEF Spec
<1> QED BY <1>1, <1>3, <1>4, <1>5, <1>6, PTL DEF LockedSpec
=============================================================================
