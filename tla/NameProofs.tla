------------------------------ MODULE NameProofs ------------------------------
(***************************************************************************)
(* The name indexes stay consistent, and names are revealed in their       *)
(* window, for every value of the constants.                               *)
(***************************************************************************)
EXTENDS NodeProofs

(***************************************************************************)
(* The indexes of a state, committed or not, agree.  No commitment that is *)
(* carried by one output only is live and open, or open and without its    *)
(* height.                                                                 *)
(***************************************************************************)
NamesIndexed(st) ==
  /\ \A c \in Commitment :
       /\ st.commitmentToHeight[c] = None <=> st.commitmentToOutpoint[c] = None
       /\ st.commitmentToHeight[c] # None => st.commitmentToHeight[c] <= Height(st)
  /\ \A o \in st.utxos, c \in Unrepeated :
       CommitsTo(o, c) => st.commitmentToOutpoint[c] = o /\ st.commitmentToKey[c] = None
  /\ \A c \in Unrepeated : st.commitmentToKey[c] # None => st.commitmentToHeight[c] # None
  /\ \A k \in Key : st.keyToCommitment[k] \in Unrepeated =>
       st.commitmentToKey[st.keyToCommitment[k]] = k

\* The sweep has passed.
Recent(st) ==
  \A c \in Commitment : st.commitmentToHeight[c] # None =>
    Height(st) - st.commitmentToHeight[c] <= COMMITMENT_MAX_AGE

\* The commitments these transactions make are not on record.
Fresh(st, txs) ==
  \A t \in txs : \A o \in OutputSet(t), c \in Unrepeated :
    CommitsTo(o, c) => st.commitmentToOutpoint[c] = None

\* The transactions that reveal what they spend the commitment of.
Revealing ==
  {t \in Txid : \A o \in OutputSet(t) :
     Output[o].type = "Reveal" => RevealedBy(o) \in SpentCommitments(InputSet(t))}

NameInv ==
  /\ NamesIndexed(db) /\ Recent(db)
  /\ mempool \subseteq Revealing /\ Fresh(db, mempool)
  /\ block # None => block.txs \subseteq Revealing /\ Fresh(db, block.txs)
  /\ pc = "bmm" => cur.txs \subseteq Revealing /\ Fresh(db, cur.txs)
  /\ Connecting =>
       /\ NamesIndexed(wtxn)
       /\ todo \subseteq cur.txs /\ todo \subseteq Revealing
       /\ Fresh(wtxn, todo) /\ Fresh(wtxn, mempool \ cur.txs)
  /\ pc \in {"broadcast", "commit"} => Recent(wtxn)

-----------------------------------------------------------------------------
(* The operations of connect_block.                                        *)

\* Outputs that carry no commitment, and a higher height, disturb no index.
LEMMA OtherOutputs ==
  ASSUME NEW st \in State, NEW new \in State, NamesIndexed(st), NEW others,
         new.utxos \subseteq st.utxos \cup others,
         \A o \in others : Output[o].type # "Commitment",
         Height(st) \in Nat, Height(new) \in Nat, Height(st) <= Height(new),
         new.commitmentToHeight = st.commitmentToHeight,
         new.commitmentToOutpoint = st.commitmentToOutpoint,
         new.commitmentToKey = st.commitmentToKey,
         new.keyToCommitment = st.keyToCommitment
  PROVE  NamesIndexed(new)
<1>1. \A c \in Commitment : st.commitmentToHeight[c] \in Nat \cup {None}
  BY DEF State
<1>2. \A c \in Commitment : st.commitmentToHeight[c] # None => st.commitmentToHeight[c] <= Height(new)
  BY <1>1, NoneAssumption DEF NamesIndexed
<1>3. \A o \in new.utxos, c \in Unrepeated : CommitsTo(o, c) => o \in st.utxos
  BY DEF CommitsTo
<1> HIDE DEF Height
<1> QED BY <1>2, <1>3 DEF NamesIndexed

\* The header, the deposits and the withdrawal bundle touch no index.
LEMMA ConfirmNames ==
  ASSUME MainTypeOK, NEW st \in State, st.headers # <<>>, NamesIndexed(st),
         NEW header \in Header, header.prevMain <= Len(main),
         NEW b \in Collected(HeaderConnected(st, header))
  PROVE  LET new == WithdrawalsHandled(HeaderConnected(st, header), b)
         IN  /\ NamesIndexed(new)
             /\ new.commitmentToHeight = st.commitmentToHeight
             /\ new.commitmentToOutpoint = st.commitmentToOutpoint
             /\ new.commitmentToKey = st.commitmentToKey
             /\ new.keyToCommitment = st.keyToCommitment
<1> DEFINE mid == HeaderConnected(st, header)
           new == WithdrawalsHandled(mid, b)
           locked == IF b = None THEN mid ELSE LockBundle(mid, b)
<1>1. /\ mid \in State /\ new \in State
      /\ mid.headers = Append(st.headers, header) /\ new.headers = Append(st.headers, header)
      /\ b \in Bundle \cup {None}
  BY ConfirmType, HeaderConnectedType
<1>2. /\ Height(st) \in Nat /\ Height(mid) \in Nat /\ Height(new) \in Nat
      /\ Height(st) <= Height(mid) /\ Height(mid) <= Height(new)
  BY <1>1 DEF Height, State
<1>3. /\ mid.utxos = st.utxos \cup NewDeposits(st, header.prevMain)
      /\ mid.commitmentToHeight = st.commitmentToHeight
      /\ mid.commitmentToOutpoint = st.commitmentToOutpoint
      /\ mid.commitmentToKey = st.commitmentToKey
      /\ mid.keyToCommitment = st.keyToCommitment
  BY DEF HeaderConnected, ConnectHeader, State
<1>4. \A o \in NewDeposits(st, header.prevMain) : Output[o].type # "Commitment"
  <2>1. header.prevMain \in Nat /\ st.lastDeposit \in Nat
    BY DEF Header, State
  <2>2. \A i \in (st.lastDeposit + 1)..header.prevMain : main[i] \in MainBlock
    BY <2>1 DEF MainTypeOK
  <2> QED BY <2>2, DepositAssumption DEF NewDeposits, MainDeposits, MainBlock
<1> HIDE DEF mid
<1>5. NamesIndexed(mid)
  BY <1>1, <1>2, <1>3, <1>4, OtherOutputs
<1>6. locked \in State
  BY <1>1, LockBundleType
<1>7. /\ locked.utxos \subseteq mid.utxos
      /\ locked.commitmentToHeight = mid.commitmentToHeight
      /\ locked.commitmentToOutpoint = mid.commitmentToOutpoint
      /\ locked.commitmentToKey = mid.commitmentToKey
      /\ locked.keyToCommitment = mid.keyToCommitment
  BY <1>1 DEF LockBundle, State
<1>8. new = HandleBundleStatus(locked, failed, confirmed, Height(mid))
  BY DEF WithdrawalsHandled
<1> DEFINE others == {o \in OutPoint : Output[o].type = "Withdrawal"}
<1> HIDE DEF locked, new
<1>9. /\ new.utxos \subseteq locked.utxos \cup others
      /\ new.commitmentToHeight = locked.commitmentToHeight
      /\ new.commitmentToOutpoint = locked.commitmentToOutpoint
      /\ new.commitmentToKey = locked.commitmentToKey
      /\ new.keyToCommitment = locked.keyToCommitment
  <2>1. CASE locked.bundle \in failed
    <3>1. ToSet(locked.bundle) \subseteq others
      BY <2>1, BundleMembers DEF MainTypeOK, Withdrawals
    <3>2. new = [locked EXCEPT !.failureHeight = Height(mid),
                               !.utxos = @ \cup ToSet(locked.bundle)]
      BY <1>8, <2>1 DEF HandleBundleStatus
    <3> HIDE DEF others
    <3> QED BY <1>6, <3>1, <3>2 DEF State
  <2>2. CASE locked.bundle \notin failed
    BY <1>6, <1>8, <2>2 DEF HandleBundleStatus, State
  <2> QED BY <2>1, <2>2
<1>10. NamesIndexed(new)
  <2>1. new.utxos \subseteq mid.utxos \cup others
    BY <1>7, <1>9
  <2>2. \A o \in others : Output[o].type # "Commitment"
    OBVIOUS
  <2> HIDE DEF others
  <2>3. /\ new.commitmentToHeight = mid.commitmentToHeight
        /\ new.commitmentToOutpoint = mid.commitmentToOutpoint
        /\ new.commitmentToKey = mid.commitmentToKey
        /\ new.keyToCommitment = mid.keyToCommitment
    BY <1>7, <1>9
  <2>4. new \in State
    BY <1>1 DEF new
  <2>5. Height(new) \in Nat /\ Height(mid) <= Height(new)
    BY <1>2 DEF new
  <2> QED BY <1>1, <1>2, <1>5, <2>1, <2>2, <2>3, <2>4, <2>5, OtherOutputs
<1> QED BY <1>3, <1>7, <1>9, <1>10 DEF mid, new

\* What a transaction does to the entries of one commitment.
LEMMA CommitmentEntries ==
  ASSUME NEW st \in State, NEW t \in Txid, NEW height \in Nat, NEW c \in Commitment
  PROVE  LET new == ApplyTransaction(st, t, height)
         IN  \/ /\ \A o \in OutputSet(t) : ~CommitsTo(o, c)
                /\ new.commitmentToHeight[c] = st.commitmentToHeight[c]
                /\ new.commitmentToOutpoint[c] = st.commitmentToOutpoint[c]
             \/ /\ new.commitmentToHeight[c] = height
                /\ new.commitmentToOutpoint[c] \in OutputSet(t)
                /\ CommitsTo(new.commitmentToOutpoint[c], c)
<1> DEFINE new == ApplyTransaction(st, t, height)
<1>1. /\ new.commitmentToHeight = CommitmentToHeightAfter(st, t, height)
      /\ new.commitmentToOutpoint = CommitmentToOutpointAfter(st, t)
  BY DEF ApplyTransaction, State
<1> HIDE DEF new
<1>2. CASE CommitVouts(t, c) = {}
  <2>1. \A o \in OutputSet(t) : ~CommitsTo(o, c)
    BY <1>2 DEF CommitVouts, OutputSet, ToSet
  <2> QED BY <1>1, <1>2, <2>1 DEF CommitmentToHeightAfter, CommitmentToOutpointAfter, new
<1>3. CASE CommitVouts(t, c) # {}
  <2>1. PICK i \in CommitVouts(t, c) : LastOutput(t, CommitVouts(t, c)) = Outputs[t][i]
    BY <1>3, LastOutputIsOne DEF CommitVouts
  <2>2. Outputs[t][i] \in OutputSet(t) /\ CommitsTo(Outputs[t][i], c)
    BY InputsAndOutputs DEF CommitVouts
  <2> QED BY <1>1, <1>3, <2>1, <2>2 DEF CommitmentToHeightAfter, CommitmentToOutpointAfter, new
<1> QED BY <1>2, <1>3

\* A transaction that reveals what it spends keeps the indexes consistent.
LEMMA TransactionNames ==
  ASSUME NEW st \in State, Height(st) \in Nat, NamesIndexed(st),
         NEW t \in Revealing, UtxosExist(st, t), Fresh(st, {t})
  PROVE  NamesIndexed(ApplyTransaction(st, t, Height(st)))
<1> DEFINE height == Height(st)
           new == ApplyTransaction(st, t, height)
           spent == SpentCommitments(InputSet(t))
<1>0. t \in Txid
  BY DEF Revealing
<1>1. /\ new.utxos = (st.utxos \ InputSet(t)) \cup OutputSet(t)
      /\ new.commitmentToKey = CommitmentToKeyAfter(st, t)
      /\ new.keyToCommitment = KeyToCommitmentAfter(st, t)
      /\ Height(new) = height
  BY DEF ApplyTransaction, State, Height
<1>2. \A c \in Commitment :
        \/ /\ \A o \in OutputSet(t) : ~CommitsTo(o, c)
           /\ new.commitmentToHeight[c] = st.commitmentToHeight[c]
           /\ new.commitmentToOutpoint[c] = st.commitmentToOutpoint[c]
        \/ /\ new.commitmentToHeight[c] = height
           /\ new.commitmentToOutpoint[c] \in OutputSet(t)
           /\ CommitsTo(new.commitmentToOutpoint[c], c)
  BY <1>0, CommitmentEntries
<1>3. /\ InputSet(t) \subseteq OutPoint /\ OutputSet(t) \subseteq OutPoint
      /\ InputSet(t) \subseteq st.utxos /\ st.utxos \subseteq OutPoint
      /\ Unrepeated \subseteq Commitment
  BY <1>0, InputsAndOutputs DEF UtxosExist, State, Unrepeated
<1>4. height \in Nat /\ height # None /\ \A o \in OutPoint : o # None
  BY NoneAssumption
<1> HIDE DEF new, height
<1>5. ASSUME NEW c \in Commitment
      PROVE  /\ new.commitmentToHeight[c] = None <=> new.commitmentToOutpoint[c] = None
             /\ new.commitmentToHeight[c] # None => new.commitmentToHeight[c] <= height
             /\ st.commitmentToHeight[c] # None => new.commitmentToHeight[c] # None
  BY <1>2, <1>3, <1>4 DEF NamesIndexed, height
<1>6. ASSUME NEW c \in Unrepeated, c \in spent
      PROVE  /\ st.commitmentToHeight[c] # None /\ st.commitmentToKey[c] = None
             /\ \A o \in OutputSet(t) : ~CommitsTo(o, c)
             /\ \A o \in st.utxos : CommitsTo(o, c) => o \in InputSet(t)
  <2>1. PICK p \in InputSet(t) : CommitsTo(p, c)
    BY <1>6 DEF SpentCommitments
  <2>2. st.commitmentToOutpoint[c] = p /\ st.commitmentToKey[c] = None
    BY <1>3, <2>1 DEF NamesIndexed
  <2>3. st.commitmentToHeight[c] # None
    BY <1>3, <1>4, <2>1, <2>2 DEF NamesIndexed
  <2>4. \A o \in OutputSet(t) : ~CommitsTo(o, c)
    BY <1>3, <1>4, <2>1, <2>2 DEF Fresh
  <2> QED BY <1>3, <2>1, <2>2, <2>3, <2>4 DEF Unrepeated
<1>7. ASSUME NEW c \in Commitment, OpenVouts(t, c) # {}
      PROVE  c \in spent
  BY <1>0, <1>7, InputsAndOutputs DEF OpenVouts, Revealing
<1>8. ASSUME NEW c \in Commitment, c \notin spent
      PROVE  new.commitmentToKey[c] = st.commitmentToKey[c]
  BY <1>1, <1>7, <1>8 DEF CommitmentToKeyAfter
<1>9. ASSUME NEW o \in new.utxos, NEW c \in Unrepeated, CommitsTo(o, c)
      PROVE  new.commitmentToOutpoint[c] = o /\ new.commitmentToKey[c] = None
  <2>1. c \in Commitment
    BY <1>3
  <2>2. CASE o \in OutputSet(t)
    <3>1. c \notin spent
      BY <1>6, <1>9, <2>2
    <3>2. new.commitmentToOutpoint[c] = o
      BY <1>2, <1>3, <1>9, <2>1, <2>2 DEF Unrepeated
    <3>3. st.commitmentToOutpoint[c] = None
      BY <1>9, <2>2 DEF Fresh
    <3>4. st.commitmentToKey[c] = None
      BY <2>1, <3>3 DEF NamesIndexed
    <3> QED BY <1>8, <2>1, <3>1, <3>2, <3>4
  <2>3. CASE o \notin OutputSet(t)
    <3>1. o \in st.utxos /\ o \notin InputSet(t)
      BY <1>1, <1>9, <2>3
    <3>2. st.commitmentToOutpoint[c] = o /\ st.commitmentToKey[c] = None
      BY <1>9, <3>1 DEF NamesIndexed
    <3>3. c \notin spent
      BY <1>6, <1>9, <3>1
    <3>4. \A p \in OutputSet(t) : ~CommitsTo(p, c)
      BY <1>3, <1>9, <2>3, <3>1 DEF Unrepeated
    <3>5. new.commitmentToOutpoint[c] = st.commitmentToOutpoint[c]
      BY <1>2, <2>1, <3>4
    <3> QED BY <1>8, <2>1, <3>2, <3>3, <3>5
  <2> QED BY <2>2, <2>3
<1>10. ASSUME NEW c \in Unrepeated, new.commitmentToKey[c] # None
       PROVE  new.commitmentToHeight[c] # None
  <2>1. c \in Commitment
    BY <1>3
  <2>2. CASE c \in spent
    BY <1>5, <1>6, <2>1, <2>2
  <2>3. CASE c \notin spent
    BY <1>5, <1>8, <1>10, <2>1, <2>3 DEF NamesIndexed
  <2> QED BY <2>2, <2>3
<1>11. ASSUME NEW k \in Key, new.keyToCommitment[k] \in Unrepeated
       PROVE  new.commitmentToKey[new.keyToCommitment[k]] = k
  <2> DEFINE c == new.keyToCommitment[k]
  <2>1. c \in Commitment
    BY <1>3, <1>11
  <2>2. CASE RevealVouts(t, k) # {}
    <3>1. PICK i \in RevealVouts(t, k) : LastOutput(t, RevealVouts(t, k)) = Outputs[t][i]
      BY <1>0, <2>2, LastOutputIsOne DEF RevealVouts
    <3>2. c = RevealedBy(Outputs[t][i])
      BY <1>1, <2>2, <3>1 DEF KeyToCommitmentAfter
    <3>3. i \in OpenVouts(t, c)
      BY <3>1, <3>2 DEF OpenVouts, RevealVouts, RevealsKey
    <3> HIDE DEF c
    <3>4. PICK j \in OpenVouts(t, c) : LastOutput(t, OpenVouts(t, c)) = Outputs[t][j]
      BY <1>0, <3>3, LastOutputIsOne DEF OpenVouts
    <3>5. new.commitmentToKey[c] = Output[Outputs[t][j]].key
      BY <1>1, <2>1, <3>3, <3>4 DEF CommitmentToKeyAfter
    <3>6. /\ RevealedBy(Outputs[t][i]) = RevealedBy(Outputs[t][j])
          /\ Output[Outputs[t][i]].type = "Reveal" /\ Output[Outputs[t][j]].type = "Reveal"
          /\ Outputs[t][i] \in OutPoint /\ Outputs[t][j] \in OutPoint
          /\ Output[Outputs[t][i]].key = k
      BY <1>0, <1>3, <3>1, <3>2, <3>4, InputsAndOutputs DEF OpenVouts, RevealVouts, RevealsKey
    <3>7. Output[Outputs[t][j]].key = k
      <4> DEFINE x == Output[Outputs[t][i]]
                 y == Output[Outputs[t][j]]
      <4>1. x.key \in Key /\ x.salt \in Salt /\ y.key \in Key /\ y.salt \in Salt
        BY <3>6, OutputType
      <4>2. hmac[<<x.key, x.salt>>] = hmac[<<y.key, y.salt>>]
        BY <3>6 DEF RevealedBy
      <4>3. x.key = k
        BY <3>6
      <4> HIDE DEF x, y
      <4>4. <<x.key, x.salt>> = <<y.key, y.salt>>
        BY <4>1, <4>2, HmacAssumption
      <4>5. y.key = k
        BY <4>3, <4>4
      <4> QED BY <4>5 DEF y
    <3> QED BY <3>5, <3>7 DEF c
  <2>3. CASE RevealVouts(t, k) = {}
    <3>1. c = st.keyToCommitment[k]
      BY <1>1, <2>3 DEF KeyToCommitmentAfter
    <3>2. st.commitmentToKey[c] = k /\ k # None
      BY <1>11, <3>1, NoneAssumption DEF NamesIndexed
    <3>3. c \notin spent
      BY <1>6, <1>11, <3>2
    <3> QED BY <1>8, <2>1, <3>2, <3>3
  <2> QED BY <2>2, <2>3
<1> QED BY <1>1, <1>5, <1>9, <1>10, <1>11 DEF NamesIndexed, new, height

\* The sweep forgets a commitment in every index at once.
LEMMA SweepNames ==
  ASSUME NEW st \in State, Height(st) \in Nat, NamesIndexed(st)
  PROVE  LET new == ExpireCommitments(st, Height(st))
         IN  /\ NamesIndexed(new) /\ Recent(new)
             /\ \A c \in Commitment : new.commitmentToOutpoint[c] \in {st.commitmentToOutpoint[c], None}
<1> DEFINE new == ExpireCommitments(st, Height(st))
           expired == ExpiredCommitments(st, Height(st))
           keys == {st.commitmentToKey[c] : c \in expired}
<1>1. /\ Height(new) = Height(st)
      /\ new.utxos = st.utxos \ {st.commitmentToOutpoint[c] : c \in expired}
      /\ \A k \in Key : new.keyToCommitment[k] = IF k \in keys THEN None ELSE st.keyToCommitment[k]
      /\ \A c \in Commitment : c \in expired =>
           /\ new.commitmentToHeight[c] = None
           /\ new.commitmentToOutpoint[c] = None
           /\ new.commitmentToKey[c] = None
      /\ \A c \in Commitment : c \notin expired =>
           /\ new.commitmentToHeight[c] = st.commitmentToHeight[c]
           /\ new.commitmentToOutpoint[c] = st.commitmentToOutpoint[c]
           /\ new.commitmentToKey[c] = st.commitmentToKey[c]
  BY DEF ExpireCommitments, State, Height
<1>2. \A c \in Commitment : c \notin expired /\ st.commitmentToHeight[c] # None =>
        Height(st) - st.commitmentToHeight[c] <= COMMITMENT_MAX_AGE
  <2>1. \A c \in Commitment : st.commitmentToHeight[c] \in Nat \cup {None}
    BY DEF State
  <2> QED BY <2>1, ConstantsAssumption DEF ExpiredCommitments
<1>3. Unrepeated \subseteq Commitment /\ None \notin Unrepeated /\ None \notin Key
  BY NoneAssumption DEF Unrepeated
<1> HIDE DEF new, expired
<1>4. Recent(new)
  BY <1>1, <1>2 DEF Recent
<1>5. ASSUME NEW o \in new.utxos, NEW c \in Unrepeated, CommitsTo(o, c)
      PROVE  new.commitmentToOutpoint[c] = o /\ new.commitmentToKey[c] = None
  <2>1. st.commitmentToOutpoint[c] = o /\ st.commitmentToKey[c] = None
    BY <1>1, <1>5 DEF NamesIndexed
  <2>2. c \notin expired
    BY <1>1, <2>1
  <2> QED BY <1>1, <1>3, <2>1, <2>2
<1>6. ASSUME NEW k \in Key, new.keyToCommitment[k] \in Unrepeated
      PROVE  new.commitmentToKey[new.keyToCommitment[k]] = k
  <2>1. k \notin keys /\ new.keyToCommitment[k] = st.keyToCommitment[k]
    BY <1>1, <1>3, <1>6
  <2>2. st.commitmentToKey[st.keyToCommitment[k]] = k
    BY <1>6, <2>1 DEF NamesIndexed
  <2>3. st.keyToCommitment[k] \notin expired
    BY <2>1, <2>2
  <2> QED BY <1>1, <1>3, <1>6, <2>1, <2>2, <2>3
<1>7. \A c \in Commitment :
        /\ new.commitmentToHeight[c] = None <=> new.commitmentToOutpoint[c] = None
        /\ new.commitmentToHeight[c] # None => new.commitmentToHeight[c] <= Height(st)
  BY <1>1 DEF NamesIndexed
<1>8. \A c \in Unrepeated : new.commitmentToKey[c] # None => new.commitmentToHeight[c] # None
  BY <1>1, <1>3 DEF NamesIndexed
<1>9. NamesIndexed(new)
  BY <1>1, <1>5, <1>6, <1>7, <1>8 DEF NamesIndexed
<1> QED BY <1>1, <1>4, <1>9 DEF new

-----------------------------------------------------------------------------
(* The invariant.                                                          *)

\* A transaction that is accepted reveals what it spends and commits anew.
LEMMA AcceptedIsRevealing ==
  ASSUME NEW t \in Txid, ValidateTransaction(db, t)
  PROVE  t \in Revealing /\ Fresh(db, {t})
<1>1. \A o \in OutputSet(t) : OutputValid(db, InputSet(t), o)
  BY DEF ValidateTransaction, ValidateTransactionPure
<1>2. ASSUME NEW o \in OutputSet(t), Output[o].type = "Reveal"
      PROVE  RevealedBy(o) \in SpentCommitments(InputSet(t))
  <2>1. o \in OutPoint
    BY InputsAndOutputs
  <2>2. Output[o].key \in Key
    BY <1>2, <2>1, OutputType
  <2> QED BY <1>1, <1>2, <2>2 DEF OutputValid, RevealsKey
<1>3. Fresh(db, {t})
  BY <1>1 DEF OutputValid, Fresh, Unrepeated
<1> QED BY <1>2, <1>3 DEF Revealing

\* Once t has made its commitments, the other transactions' are still new.
LEMMA OthersStayFresh ==
  ASSUME NEW st \in State, NEW t \in Txid, NEW height \in Nat,
         NEW txs \in SUBSET Txid, t \notin txs, Fresh(st, txs)
  PROVE  Fresh(ApplyTransaction(st, t, height), txs)
<1> SUFFICES ASSUME NEW u \in txs, NEW o \in OutputSet(u), NEW c \in Unrepeated, CommitsTo(o, c)
             PROVE  ApplyTransaction(st, t, height).commitmentToOutpoint[c] = None
  BY DEF Fresh
<1>1. o \notin OutputSet(t)
  BY OutputsAssumption DEF OutputSet, ToSet
<1>2. \A p \in OutputSet(t) : ~CommitsTo(p, c)
  BY <1>1, InputsAndOutputs DEF Unrepeated
<1>3. st.commitmentToOutpoint[c] = None /\ c \in Commitment
  BY DEF Fresh, Unrepeated
<1> QED BY <1>2, <1>3, CommitmentEntries

\* The empty environment has no names.
LEMMA NameInvInit == Init => NameInv
<1> SUFFICES ASSUME Init PROVE NameInv
  OBVIOUS
<1>1. db = NewState
  BY DEF Init
<1>2. None \notin Unrepeated
  BY NoneAssumption DEF Unrepeated
<1>3. NamesIndexed(db) /\ Recent(db)
  BY <1>1, <1>2 DEF NewState, NamesIndexed, Recent, Unrepeated
<1> QED BY <1>3 DEF Init, NameInv, Fresh, Connecting

\* Every step preserves the invariant: one step of the proof per action that
\* writes a state, the mempool or a block.
LEMMA NameInvStep == ChainInv /\ NameInv /\ [Next]_vars => NameInv'
<1> SUFFICES ASSUME ChainInv, NameInv, [Next]_vars PROVE NameInv'
  OBVIOUS
<1>0. /\ MainTypeOK /\ db \in State /\ db.headers # <<>> /\ mempool \subseteq Txid
      /\ Connecting => /\ cur \in Header /\ cur.txs \subseteq Txid /\ block = None
                       /\ wtxn \in State /\ Height(wtxn) \in Nat
  <2>1. Connecting => wtxn \in State /\ wtxn.headers # <<>>
    BY DEF ChainInv, TypeOK, NodeTypeOK, State
  <2> QED BY <2>1, TipType DEF ChainInv, TypeOK, NodeTypeOK, MainTypeOK, ExtendsTip, Header
<1>1. ASSUME NEW t \in Txid, SubmitTransaction(t) PROVE NameInv'
  <2>1. t \in Revealing /\ Fresh(db, {t})
    BY <1>1, AcceptedIsRevealing DEF SubmitTransaction
  <2> QED BY <1>1, <2>1 DEF SubmitTransaction, NameInv, Fresh, Connecting
<1>2. CASE AttemptBmm
  BY <1>2 DEF AttemptBmm, GenerateBlock, NameInv, Connecting
<1>3. CASE CreateBmm
  BY <1>3 DEF CreateBmm, NameInv, Connecting
<1>4. CASE ConfirmBmm
  <2>1. block \in Header /\ block.prevMain <= Len(main)
    BY <1>4 DEF ConfirmBmm, ChainInv, ExtendsTip
  <2>2. PICK b \in Collected(HeaderConnected(db, block)) :
          wtxn' = WithdrawalsHandled(HeaderConnected(db, block), b)
    BY <1>4 DEF ConfirmBmm
  <2>3. NamesIndexed(wtxn') /\ wtxn'.commitmentToOutpoint = db.commitmentToOutpoint
    BY <1>0, <2>1, <2>2, ConfirmNames DEF NameInv
  <2>4. /\ UNCHANGED <<db, mempool>> /\ block' = None /\ block # None
        /\ cur' = block /\ todo' = block.txs /\ pc' = "body"
    BY <1>4 DEF ConfirmBmm, TakeBlock
  <2> QED BY <2>3, <2>4 DEF NameInv, Fresh
<1>5. ASSUME NEW t \in Txid, ConnectTransaction(t) PROVE NameInv'
  <2>1. Connecting /\ t \in todo /\ UtxosExist(wtxn, t)
    BY <1>5 DEF ConnectTransaction, Connecting
  <2>2. /\ UNCHANGED <<db, mempool, block, cur, pc>> /\ pc = "body"
        /\ todo' = todo \ {t} /\ wtxn' = ApplyTransaction(wtxn, t, Height(wtxn))
    BY <1>5 DEF ConnectTransaction
  <2>3. t \in Revealing /\ Fresh(wtxn, {t}) /\ NamesIndexed(wtxn)
    BY <2>1 DEF NameInv, Fresh
  <2>4. NamesIndexed(wtxn')
    BY <1>0, <2>1, <2>2, <2>3, TransactionNames
  <2>5. Fresh(wtxn', todo') /\ Fresh(wtxn', mempool \ cur.txs)
    <3>1. Fresh(wtxn, todo \ {t})
      BY <2>1 DEF NameInv, Fresh
    <3>2. Fresh(wtxn, mempool \ cur.txs) /\ t \in cur.txs
      BY <2>1 DEF NameInv
    <3>3. todo \ {t} \subseteq Txid /\ mempool \ cur.txs \subseteq Txid
      BY <1>0, <2>1 DEF NameInv
    <3> QED BY <1>0, <2>1, <2>2, <3>1, <3>2, <3>3, OthersStayFresh
  <2> QED BY <1>0, <2>1, <2>2, <2>4, <2>5 DEF NameInv, Connecting
<1>6. CASE SweepExpired
  <2>1. Connecting /\ todo = {}
    BY <1>6 DEF SweepExpired, Connecting
  <2>2. /\ UNCHANGED <<db, mempool, block, cur, todo>> /\ pc' = "broadcast"
        /\ wtxn' = ExpireCommitments(wtxn, Height(wtxn))
    BY <1>6 DEF SweepExpired
  <2>3. /\ NamesIndexed(wtxn') /\ Recent(wtxn')
        /\ \A c \in Commitment :
             wtxn'.commitmentToOutpoint[c] \in {wtxn.commitmentToOutpoint[c], None}
    BY <1>0, <2>1, <2>2, SweepNames DEF NameInv
  <2>4. Fresh(wtxn', mempool \ cur.txs)
    <3>1. Unrepeated \subseteq Commitment
      BY DEF Unrepeated
    <3> QED BY <2>1, <2>3, <3>1 DEF NameInv, Fresh
  <2> QED BY <1>0, <2>1, <2>2, <2>3, <2>4 DEF NameInv, Fresh, Connecting
<1>7. CASE BroadcastBundle
  BY <1>7 DEF BroadcastBundle, NameInv, Connecting
<1>8. CASE Commit
  <2>1. /\ UNCHANGED <<block>> /\ db' = wtxn /\ pc' = "idle" /\ mempool' = mempool \ cur.txs
        /\ Connecting /\ Recent(wtxn)
    BY <1>8 DEF Commit, Connecting, NameInv
  <2> QED BY <1>0, <2>1 DEF NameInv, Connecting
<1>9. CASE ConfirmFails \/ ConnectFails \/ CallFails \/ AnswerLost
  BY <1>9 DEF ConfirmFails, ConnectFails, CallFails, AnswerLost, Poison, NameInv, Connecting
<1>10. CASE HeaderFails \/ CollectFails
  BY <1>10 DEF HeaderFails, CollectFails, TakeBlock, Poison, NameInv, Connecting
<1>11. CASE Restart
  BY <1>11 DEF Restart, NameInv, Fresh, Connecting
<1>12. CASE (MainNext /\ UNCHANGED nodeVars) \/ UNCHANGED vars
  BY <1>12 DEF vars, nodeVars, NameInv, Connecting
<1> QED BY <1>1, <1>2, <1>3, <1>4, <1>5, <1>6, <1>7, <1>8, <1>9, <1>10, <1>11, <1>12
        DEF Next, NodeNext, HandlerStep

(***************************************************************************)
(* The invariant holds, whatever is submitted, attempted, lost or          *)
(* restarted: connect_block validates no name, but nothing that reaches it *)
(* from the mempool can bring the indexes apart.                           *)
(***************************************************************************)
THEOREM NamesInvariant == Spec => []NameInv
BY NameInvInit, NameInvStep, ChainInvariant, PTL DEF Spec

(***************************************************************************)
(* The sweep finds every commitment that can still be revealed, and every  *)
(* entry that is too old is gone: the indexes of commitments agree with    *)
(* each other and with the utxo set.                                       *)
(***************************************************************************)
THEOREM CommitmentsConsistent == Spec => []CommitmentsIndexed
<1>1. ChainInv /\ NameInv => CommitmentsIndexed
  <2> SUFFICES ASSUME ChainInv, NameInv PROVE CommitmentsIndexed
    OBVIOUS
  <2>1. /\ Height(db) \in Nat
        /\ \A c \in Commitment : db.commitmentToHeight[c] \in Nat \cup {None}
    BY TipType DEF ChainInv, TypeOK, NodeTypeOK, State
  <2>2. NamesIndexed(db) /\ Recent(db)
    BY DEF NameInv
  <2>3. ASSUME NEW c \in Commitment, db.commitmentToHeight[c] # None
        PROVE  Height(db) - db.commitmentToHeight[c] \in 0..COMMITMENT_MAX_AGE
    BY <2>1, <2>2, <2>3, ConstantsAssumption DEF NamesIndexed, Recent
  <2> QED BY <2>2, <2>3 DEF CommitmentsIndexed, NamesIndexed
<1> QED BY <1>1, ChainInvariant, NamesInvariant, PTL

(***************************************************************************)
(* The two directions of the index of owners agree, and a commitment that  *)
(* can still be revealed opens no key.                                     *)
(***************************************************************************)
THEOREM OwnersConsistent == Spec => []OwnersIndexed
<1>1. NameInv => OwnersIndexed
  BY NoneAssumption DEF NameInv, NamesIndexed, OwnersIndexed
<1> QED BY <1>1, NamesInvariant, PTL

-----------------------------------------------------------------------------
(* The window.                                                             *)

(***************************************************************************)
(* The entry of a commitment names the block that made it and the output   *)
(* of a transaction of that block.                                         *)
(***************************************************************************)
MadeThere(st, c) ==
  /\ st.commitmentToHeight[c] + 1 \in DOMAIN st.headers
  /\ \E u \in st.headers[st.commitmentToHeight[c] + 1].txs :
       st.commitmentToOutpoint[c] \in OutputSet(u)
  /\ CommitsTo(st.commitmentToOutpoint[c], c)

Recorded(st) ==
  \A c \in Commitment : st.commitmentToHeight[c] # None => MadeThere(st, c)

\* What t reveals is on record, and still is when one more block is connected.
OnRecord(t) ==
  \A c \in SpentCommitments(InputSet(t)) : db.commitmentToHeight[c] # None

InTime(t) ==
  \A c \in SpentCommitments(InputSet(t)) :
    /\ db.commitmentToHeight[c] # None
    /\ (Height(db) + 1) - db.commitmentToHeight[c] <= COMMITMENT_MAX_AGE

\* A block takes all of the mempool: what is not in it has been accepted since.
RestInTime(header) ==
  /\ header.txs \subseteq mempool
  /\ \A t \in mempool \ header.txs : InTime(t)

\* The write transaction drops an entry only where the sweep does.
KeptOrSwept ==
  \A c \in Commitment : db.commitmentToHeight[c] # None =>
    \/ /\ wtxn.commitmentToHeight[c] # None
       /\ wtxn.commitmentToHeight[c] >= db.commitmentToHeight[c]
    \/ pc # "body" /\ Height(wtxn) - db.commitmentToHeight[c] > COMMITMENT_MAX_AGE

WaitInv ==
  /\ Recorded(db)
  /\ \A t \in mempool : OnRecord(t)
  /\ block # None => RestInTime(block)
  /\ pc = "bmm" => cur.txs = mempool
  /\ Connecting => RestInTime(cur) /\ Recorded(wtxn) /\ KeptOrSwept

-----------------------------------------------------------------------------

\* What holds of the write transaction, whichever step it is at.
LEMMA OpenTransaction ==
  ASSUME ChainInv, Connecting
  PROVE  /\ db \in State /\ wtxn \in State /\ cur \in Header /\ cur.txs \subseteq Txid
         /\ block = None
         /\ wtxn.headers = Append(db.headers, cur)
         /\ Height(db) \in Nat /\ Height(wtxn) = Height(db) + 1
         /\ DOMAIN wtxn.headers = 1..(Height(wtxn) + 1)
         /\ wtxn.headers[Height(wtxn) + 1] = cur
<1>1. /\ db \in State /\ wtxn \in State /\ cur \in Header /\ cur.txs \subseteq Txid
      /\ block = None
      /\ wtxn.headers = Append(db.headers, cur) /\ db.headers # <<>>
  BY DEF ChainInv, TypeOK, NodeTypeOK, ExtendsTip, Header
<1>2. db.headers \in Seq(Header) /\ Len(db.headers) \in Nat /\ Height(db) \in Nat
  <2>1. db.headers \in Seq(Header)
    BY <1>1 DEF State
  <2> QED BY <1>1, <2>1, TipType
<1>3. /\ Len(wtxn.headers) = Len(db.headers) + 1
      /\ wtxn.headers[Len(db.headers) + 1] = cur
      /\ DOMAIN wtxn.headers = 1..(Len(db.headers) + 1)
  BY <1>1, <1>2
<1> QED BY <1>1, <1>2, <1>3 DEF Height

\* More headers leave the record as it is.
LEMMA RecordKept ==
  ASSUME NEW st \in State, NEW new \in State, NEW header \in Header, Recorded(st),
         new.headers = Append(st.headers, header),
         new.commitmentToHeight = st.commitmentToHeight,
         new.commitmentToOutpoint = st.commitmentToOutpoint
  PROVE  Recorded(new)
<1> SUFFICES ASSUME NEW c \in Commitment, new.commitmentToHeight[c] # None
             PROVE  MadeThere(new, c)
  BY DEF Recorded
<1>1. MadeThere(st, c)
  BY DEF Recorded
<1>2. st.headers \in Seq(Header)
  BY DEF State
<1>3. \A i \in DOMAIN st.headers : i \in DOMAIN new.headers /\ new.headers[i] = st.headers[i]
  BY <1>2
<1> QED BY <1>1, <1>3 DEF MadeThere

\* A transaction of the last block records what it commits to there.
LEMMA TransactionRecords ==
  ASSUME NEW st \in State, Recorded(st), Height(st) \in Nat,
         Height(st) + 1 \in DOMAIN st.headers,
         NEW t \in Txid, t \in st.headers[Height(st) + 1].txs
  PROVE  Recorded(ApplyTransaction(st, t, Height(st)))
<1> DEFINE new == ApplyTransaction(st, t, Height(st))
<1>1. new.headers = st.headers
  BY ApplyTransactionType
<1> HIDE DEF new
<1> SUFFICES ASSUME NEW c \in Commitment, new.commitmentToHeight[c] # None
             PROVE  MadeThere(new, c)
  BY DEF Recorded, new
<1>2. \/ /\ new.commitmentToHeight[c] = st.commitmentToHeight[c]
         /\ new.commitmentToOutpoint[c] = st.commitmentToOutpoint[c]
      \/ /\ new.commitmentToHeight[c] = Height(st)
         /\ new.commitmentToOutpoint[c] \in OutputSet(t)
         /\ CommitsTo(new.commitmentToOutpoint[c], c)
  BY CommitmentEntries DEF new
<1> QED BY <1>1, <1>2 DEF Recorded, MadeThere

\* The sweep, entry by entry.
LEMMA SweepEntries ==
  ASSUME NEW st \in State
  PROVE  LET new == ExpireCommitments(st, Height(st))
         IN  /\ new.headers = st.headers
             /\ \A c \in Commitment :
                  \/ /\ c \in ExpiredCommitments(st, Height(st))
                     /\ new.commitmentToHeight[c] = None
                  \/ /\ c \notin ExpiredCommitments(st, Height(st))
                     /\ new.commitmentToHeight[c] = st.commitmentToHeight[c]
                     /\ new.commitmentToOutpoint[c] = st.commitmentToOutpoint[c]
BY DEF ExpireCommitments, State

LEMMA WaitInvInit == Init => WaitInv
<1> SUFFICES ASSUME Init PROVE WaitInv
  OBVIOUS
<1>1. Recorded(db)
  BY DEF Init, NewState, Recorded
<1> QED BY <1>1 DEF Init, WaitInv, Connecting

\* Every step preserves it.
LEMMA WaitInvStep == ChainInv /\ NameInv /\ WaitInv /\ [Next]_vars => WaitInv'
<1> SUFFICES ASSUME ChainInv, NameInv, WaitInv, [Next]_vars PROVE WaitInv'
  OBVIOUS
<1>0. /\ MainTypeOK /\ db \in State /\ db.headers # <<>>
      /\ \A c \in Commitment : db.commitmentToHeight[c] \in Nat \cup {None}
  BY DEF ChainInv, TypeOK, NodeTypeOK, State
<1>1. ASSUME NEW t \in Txid, SubmitTransaction(t) PROVE WaitInv'
  <2>1. InTime(t) /\ OnRecord(t)
    <3>1. RevealInTime(db, InputSet(t), Height(db) + 1)
      BY <1>1 DEF SubmitTransaction, ValidateTransaction, ValidateTransactionPure
    <3> QED BY <3>1 DEF RevealInTime, InTime, OnRecord
  <2> QED BY <1>1, <2>1 DEF SubmitTransaction, WaitInv, Connecting, RestInTime, OnRecord, InTime
<1>2. CASE AttemptBmm
  BY <1>2 DEF AttemptBmm, GenerateBlock, WaitInv, Connecting, RestInTime, OnRecord, InTime
<1>3. CASE CreateBmm
  BY <1>3 DEF CreateBmm, WaitInv, Connecting, RestInTime, OnRecord, InTime
<1>4. CASE ConfirmBmm
  <2>1. block \in Header /\ block.prevMain <= Len(main)
    BY <1>4 DEF ConfirmBmm, ChainInv, ExtendsTip
  <2>2. PICK b \in Collected(HeaderConnected(db, block)) :
          wtxn' = WithdrawalsHandled(HeaderConnected(db, block), b)
    BY <1>4 DEF ConfirmBmm
  <2>3. /\ wtxn'.commitmentToHeight = db.commitmentToHeight
        /\ wtxn'.commitmentToOutpoint = db.commitmentToOutpoint
    BY <1>0, <2>1, <2>2, ConfirmNames DEF NameInv
  <2>4. wtxn' \in State /\ wtxn'.headers = Append(db.headers, block)
    BY <1>0, <2>1, <2>2, ConfirmType
  <2>5. Recorded(wtxn')
    BY <1>0, <2>1, <2>3, <2>4, RecordKept DEF WaitInv
  <2>6. /\ UNCHANGED <<db, mempool>> /\ block' = None /\ block # None
        /\ cur' = block /\ pc' = "body"
    BY <1>4 DEF ConfirmBmm, TakeBlock
  <2>7. KeptOrSwept'
    BY <1>0, <2>3, <2>6, NoneAssumption DEF KeptOrSwept
  <2> QED BY <2>5, <2>6, <2>7 DEF WaitInv, Connecting, RestInTime, OnRecord, InTime
<1>5. ASSUME NEW t \in Txid, ConnectTransaction(t) PROVE WaitInv'
  <2>1. /\ Connecting /\ t \in cur.txs /\ pc = "body"
        /\ UNCHANGED <<db, mempool, block, cur, pc>>
        /\ wtxn' = ApplyTransaction(wtxn, t, Height(wtxn))
    BY <1>5 DEF ConnectTransaction, Connecting, NameInv
  <2>2. /\ wtxn \in State /\ Height(wtxn) \in Nat /\ Height(wtxn) = Height(db) + 1
        /\ Height(db) \in Nat
        /\ Height(wtxn) + 1 \in DOMAIN wtxn.headers
        /\ wtxn.headers[Height(wtxn) + 1] = cur
    BY <2>1, OpenTransaction
  <2>3. Recorded(wtxn')
    BY <2>1, <2>2, TransactionRecords DEF WaitInv
  <2>4. KeptOrSwept'
    <3> SUFFICES ASSUME NEW c \in Commitment, db.commitmentToHeight[c] # None
                 PROVE  /\ wtxn'.commitmentToHeight[c] # None
                        /\ wtxn'.commitmentToHeight[c] >= db.commitmentToHeight[c]
      BY <2>1 DEF KeptOrSwept
    <3>1. /\ wtxn.commitmentToHeight[c] # None
          /\ wtxn.commitmentToHeight[c] >= db.commitmentToHeight[c]
      BY <2>1 DEF WaitInv, KeptOrSwept
    <3>2. wtxn'.commitmentToHeight[c] \in {wtxn.commitmentToHeight[c], Height(wtxn)}
      BY <2>1, <2>2, CommitmentEntries
    <3>3. db.commitmentToHeight[c] <= Height(db)
      BY DEF NameInv, NamesIndexed
    <3> QED BY <1>0, <2>2, <3>1, <3>2, <3>3, NoneAssumption
  <2> QED BY <2>1, <2>3, <2>4 DEF WaitInv, Connecting, RestInTime, OnRecord, InTime
<1>6. CASE SweepExpired
  <2>1. /\ Connecting /\ pc = "body" /\ pc' = "broadcast"
        /\ UNCHANGED <<db, mempool, block, cur>>
        /\ wtxn' = ExpireCommitments(wtxn, Height(wtxn))
    BY <1>6 DEF SweepExpired, Connecting
  <2>2. wtxn \in State /\ Height(wtxn) \in Nat
    BY <2>1, OpenTransaction
  <2>3. /\ wtxn'.headers = wtxn.headers
        /\ \A c \in Commitment :
             \/ /\ c \in ExpiredCommitments(wtxn, Height(wtxn))
                /\ wtxn'.commitmentToHeight[c] = None
             \/ /\ c \notin ExpiredCommitments(wtxn, Height(wtxn))
                /\ wtxn'.commitmentToHeight[c] = wtxn.commitmentToHeight[c]
                /\ wtxn'.commitmentToOutpoint[c] = wtxn.commitmentToOutpoint[c]
    BY <2>1, <2>2, SweepEntries
  <2>4. Recorded(wtxn')
    BY <2>1, <2>3 DEF WaitInv, Recorded, MadeThere
  <2>5. KeptOrSwept'
    <3> SUFFICES ASSUME NEW c \in Commitment, db.commitmentToHeight[c] # None
                 PROVE  \/ /\ wtxn'.commitmentToHeight[c] # None
                           /\ wtxn'.commitmentToHeight[c] >= db.commitmentToHeight[c]
                        \/ Height(wtxn') - db.commitmentToHeight[c] > COMMITMENT_MAX_AGE
      BY <2>1 DEF KeptOrSwept
    <3>1. /\ wtxn.commitmentToHeight[c] # None
          /\ wtxn.commitmentToHeight[c] >= db.commitmentToHeight[c]
          /\ wtxn.commitmentToHeight[c] \in Nat \cup {None}
      BY <2>1, <2>2 DEF WaitInv, KeptOrSwept, State
    <3>2. Height(wtxn') = Height(wtxn)
      BY <2>3 DEF Height
    <3>3. CASE c \in ExpiredCommitments(wtxn, Height(wtxn))
      <4>1. Height(wtxn) - wtxn.commitmentToHeight[c] > COMMITMENT_MAX_AGE
        BY <3>3 DEF ExpiredCommitments
      <4> QED BY <1>0, <2>2, <3>1, <3>2, <4>1, NoneAssumption, ConstantsAssumption
    <3>4. CASE c \notin ExpiredCommitments(wtxn, Height(wtxn))
      BY <2>3, <3>1, <3>4
    <3> QED BY <3>3, <3>4
  <2> QED BY <2>1, <2>4, <2>5 DEF WaitInv, Connecting, RestInTime, OnRecord, InTime
<1>7. CASE BroadcastBundle
  <2>1. UNCHANGED <<db, wtxn, mempool, block, cur>> /\ pc = "broadcast" /\ pc' = "commit"
    BY <1>7 DEF BroadcastBundle
  <2> QED BY <2>1 DEF WaitInv, Connecting, RestInTime, OnRecord, InTime, KeptOrSwept
<1>8. CASE Commit
  <2>1. /\ UNCHANGED block /\ db' = wtxn /\ pc' = "idle" /\ mempool' = mempool \ cur.txs
        /\ Connecting /\ pc = "commit"
    BY <1>8 DEF Commit, Connecting
  <2>2. block = None /\ Height(wtxn) = Height(db) + 1 /\ Height(db) \in Nat
    BY <2>1, OpenTransaction
  <2>3. ASSUME NEW t \in mempool \ cur.txs, NEW c \in SpentCommitments(InputSet(t))
        PROVE  wtxn.commitmentToHeight[c] # None
    <3>1. /\ c \in Commitment /\ db.commitmentToHeight[c] # None
          /\ (Height(db) + 1) - db.commitmentToHeight[c] <= COMMITMENT_MAX_AGE
      BY <2>1, <2>3 DEF WaitInv, RestInTime, InTime, SpentCommitments
    <3> QED BY <1>0, <2>1, <2>2, <3>1, ConstantsAssumption DEF WaitInv, KeptOrSwept
  <2> QED BY <2>1, <2>2, <2>3 DEF WaitInv, Connecting, OnRecord
<1>9. CASE ConfirmFails \/ ConnectFails \/ CallFails \/ AnswerLost
  BY <1>9 DEF ConfirmFails, ConnectFails, CallFails, AnswerLost, Poison, WaitInv, Connecting,
              RestInTime, OnRecord, InTime
<1>10. CASE HeaderFails \/ CollectFails
  BY <1>10 DEF HeaderFails, CollectFails, TakeBlock, Poison, WaitInv, Connecting, OnRecord
<1>11. CASE Restart
  BY <1>11 DEF Restart, WaitInv, Connecting
<1>12. CASE (MainNext /\ UNCHANGED nodeVars) \/ UNCHANGED vars
  <2>1. UNCHANGED <<db, wtxn, mempool, block, cur, pc>>
    BY <1>12 DEF vars, nodeVars
  <2> QED BY <2>1 DEF WaitInv, Connecting, RestInTime, OnRecord, InTime, KeptOrSwept
<1> QED BY <1>1, <1>2, <1>3, <1>4, <1>5, <1>6, <1>7, <1>8, <1>9, <1>10, <1>11, <1>12
        DEF Next, NodeNext, HandlerStep

(***************************************************************************)
(* No transaction waits for more than one block, so what it reveals is     *)
(* still on record when its block is connected, whatever was committed to, *)
(* expired and committed to again in between.                              *)
(***************************************************************************)
THEOREM WaitInvariant == Spec => []WaitInv
BY WaitInvInit, WaitInvStep, ChainInvariant, NamesInvariant, PTL DEF Spec

-----------------------------------------------------------------------------

\* What the window is for one transaction in one of these headers.
RevealedInWindow(headers, i, t) ==
  \A o \in OutputSet(t) : Output[o].type = "Reveal" /\ RevealedBy(o) \in Unrepeated =>
    \E j \in DOMAIN headers :
      /\ i - j \in 1..(COMMITMENT_MAX_AGE + 1)
      /\ \E u \in headers[j].txs :
           \E p \in OutputSet(u) \cap InputSet(t) : CommitsTo(p, RevealedBy(o))

\* The transactions of the block that is committed reveal in the window.
LEMMA BlockInWindow ==
  ASSUME ChainInv, NameInv, WaitInv, Commit, NEW t \in cur.txs
  PROVE  RevealedInWindow(db.headers, Len(db.headers) + 1, t)
<1>1. /\ Connecting /\ db \in State /\ cur.txs \subseteq Txid /\ Height(db) \in Nat
      /\ \A c \in Commitment : db.commitmentToHeight[c] \in Nat \cup {None}
  BY OpenTransaction DEF Commit, Connecting, State
<1> SUFFICES ASSUME NEW o \in OutputSet(t),
                    Output[o].type = "Reveal", RevealedBy(o) \in Unrepeated
             PROVE  \E j \in DOMAIN db.headers :
                      /\ (Len(db.headers) + 1) - j \in 1..(COMMITMENT_MAX_AGE + 1)
                      /\ \E u \in db.headers[j].txs :
                           \E p \in OutputSet(u) \cap InputSet(t) : CommitsTo(p, RevealedBy(o))
  BY DEF RevealedInWindow
<1> DEFINE c == RevealedBy(o)
           made == db.commitmentToHeight[c]
           p == db.commitmentToOutpoint[c]
<1>2. t \in mempool /\ OnRecord(t) /\ t \in Revealing
  BY <1>1 DEF WaitInv, RestInTime, NameInv
<1>3. c \in SpentCommitments(InputSet(t)) /\ c \in Commitment
  BY <1>2 DEF Revealing, Unrepeated
<1>4. made # None /\ made \in Nat
  BY <1>1, <1>2, <1>3 DEF OnRecord
<1>5. MadeThere(db, c)
  BY <1>3, <1>4 DEF WaitInv, Recorded
<1>6. PICK u \in db.headers[made + 1].txs : p \in OutputSet(u)
  BY <1>5 DEF MadeThere
<1>7. p \in InputSet(t) /\ CommitsTo(p, c)
  <2>1. PICK q \in InputSet(t) : CommitsTo(q, c)
    BY <1>3 DEF SpentCommitments
  <2>2. u \in Txid
    <3>1. made + 1 \in DOMAIN db.headers
      BY <1>5 DEF MadeThere
    <3>2. db.headers[made + 1] \in Header
      BY <1>1, <3>1 DEF State
    <3> QED BY <3>2 DEF Header
  <2>3. p \in OutPoint /\ q \in OutPoint
    BY <1>1, <1>6, <2>2, InputsAndOutputs
  <2>4. CommitsTo(p, c)
    BY <1>5 DEF MadeThere
  <2> HIDE DEF p
  <2>5. c \in Unrepeated
    OBVIOUS
  <2> QED BY <2>1, <2>3, <2>4, <2>5 DEF Unrepeated
<1>8. (Len(db.headers) + 1) - (made + 1) \in 1..(COMMITMENT_MAX_AGE + 1)
  <2>1. made <= Height(db) /\ Height(db) - made <= COMMITMENT_MAX_AGE
    BY <1>3, <1>4 DEF NameInv, NamesIndexed, Recent
  <2>2. Height(db) = Len(db.headers) - 1 /\ Len(db.headers) \in Nat
    BY <1>1 DEF Height, State
  <2> HIDE DEF made
  <2> QED BY <1>1, <1>4, <2>1, <2>2, ConstantsAssumption
<1>9. made + 1 \in DOMAIN db.headers
  BY <1>5 DEF MadeThere
<1> QED BY <1>6, <1>7, <1>8, <1>9

(***************************************************************************)
(* A name is revealed after the block that committed to it, and at most    *)
(* COMMITMENT_MAX_AGE + 1 blocks after it.                                 *)
(***************************************************************************)
THEOREM RevealsInWindow == Spec => []RevealWindow
<1> DEFINE Window == \A i \in DOMAIN db.headers : \A t \in db.headers[i].txs :
                       RevealedInWindow(db.headers, i, t)
<1>1. Init => Window
  <2> SUFFICES ASSUME Init PROVE Window
    OBVIOUS
  <2>1. db.headers = <<Genesis>>
    BY NewStateType DEF Init
  <2>2. \A i \in DOMAIN db.headers : db.headers[i].txs = {}
    BY <2>1 DEF Genesis
  <2> QED BY <2>2
<1>2. ChainInv /\ NameInv /\ WaitInv /\ Window /\ [Next]_vars => Window'
  <2> SUFFICES ASSUME ChainInv, NameInv, WaitInv, Window, [Next]_vars PROVE Window'
    OBVIOUS
  <2>1. CASE Commit
    <3>1. db' = wtxn /\ Connecting
      BY <2>1 DEF Commit, Connecting
    <3>2. /\ db'.headers = Append(db.headers, cur) /\ db.headers \in Seq(Header)
      BY <3>1, OpenTransaction DEF State
    <3>3. \A t \in cur.txs : RevealedInWindow(db.headers, Len(db.headers) + 1, t)
      BY <2>1, BlockInWindow
    <3>4. /\ DOMAIN db.headers = 1..Len(db.headers) /\ Len(db.headers) \in Nat
          /\ DOMAIN db'.headers = 1..(Len(db.headers) + 1)
          /\ db'.headers[Len(db.headers) + 1] = cur
          /\ \A i \in DOMAIN db.headers :
               i \in DOMAIN db'.headers /\ db'.headers[i] = db.headers[i]
      BY <3>2
    <3>5. \A i, t : RevealedInWindow(db.headers, i, t) => RevealedInWindow(db'.headers, i, t)
      BY <3>4 DEF RevealedInWindow
    <3> QED BY <3>3, <3>4, <3>5
  <2>2. CASE ~Commit
    <3>1. db' = db
      BY <2>2 DEF Next, NodeNext, HandlerStep, SubmitTransaction, AttemptBmm, CreateBmm, ConfirmBmm,
                  ConnectTransaction, SweepExpired, ConnectFails, BroadcastBundle, ConfirmFails,
                  HeaderFails, CollectFails, CallFails, AnswerLost, Restart, Poison, vars, nodeVars
    <3> QED BY <3>1
  <2> QED BY <2>1, <2>2
<1>3. Window <=> RevealWindow
  BY DEF RevealWindow, RevealedInWindow
<1> HIDE DEF Window
<1> QED BY <1>1, <1>2, <1>3, ChainInvariant, NamesInvariant, WaitInvariant, PTL DEF Spec
=============================================================================
