--------------------------- MODULE RegistryProofs ---------------------------
(***************************************************************************)
(* The committed name indexes implement the abstract registry, for every   *)
(* value of the constants, where no commitment is repeated.                *)
(***************************************************************************)
EXTENDS NameProofs

\* What transactions make and open, and who takes a key over through them.
MadeBy(txs) == {c \in Commitment : \E t \in txs : \E o \in OutputSet(t) : CommitsTo(o, c)}
OpenedBy(txs) == {c \in Commitment : \E t \in txs : OpenVouts(t, c) # {}}
TakersBy(txs, k) == {c \in OpenedBy(txs) : Registry!KeyOf(c) = k}

TooOldIn(old, c) ==
  /\ old.commitmentToHeight[c] # None
  /\ (Height(old) + 1) - old.commitmentToHeight[c] > COMMITMENT_MAX_AGE

OpensBy(old, txs, c) == IF c \in OpenedBy(txs) THEN Registry!KeyOf(c) ELSE old.commitmentToKey[c]
SettledBy(old, txs) == {OpensBy(old, txs, c) : c \in {c \in Commitment : TooOldIn(old, c)}}

\* What these transactions make is new, and what they open is made and closed.
Allowed(old, txs) ==
  /\ \A c \in MadeBy(txs) : old.commitmentToHeight[c] = None
  /\ \A c \in OpenedBy(txs) : old.commitmentToHeight[c] # None /\ old.commitmentToKey[c] = None

\* The state that became of an old one when these are connected ...
BodyDone(old, st, txs) ==
  /\ Allowed(old, txs)
  /\ \A c \in Commitment : st.commitmentToHeight[c] =
       IF c \in MadeBy(txs) THEN Height(st) ELSE old.commitmentToHeight[c]
  /\ \A c \in Commitment : st.commitmentToKey[c] = OpensBy(old, txs, c)
  /\ \A k \in Key :
       IF TakersBy(txs, k) # {} THEN st.keyToCommitment[k] \in TakersBy(txs, k)
       ELSE st.keyToCommitment[k] = old.keyToCommitment[k]

\* ... and when the sweep has passed.
BlockDone(old, st, txs) ==
  /\ Allowed(old, txs)
  /\ \A c \in Commitment : st.commitmentToHeight[c] =
       IF TooOldIn(old, c) THEN None
       ELSE IF c \in MadeBy(txs) THEN Height(st) ELSE old.commitmentToHeight[c]
  /\ \A c \in Commitment : st.commitmentToKey[c] =
       IF TooOldIn(old, c) THEN None ELSE OpensBy(old, txs, c)
  /\ \A k \in Key :
       IF k \in SettledBy(old, txs) THEN st.keyToCommitment[k] = None
       ELSE IF TakersBy(txs, k) # {} THEN st.keyToCommitment[k] \in TakersBy(txs, k)
       ELSE st.keyToCommitment[k] = old.keyToCommitment[k]

RegistryInv ==
  /\ pc = "body" => BodyDone(db, wtxn, cur.txs \ todo)
  /\ pc \in {"broadcast", "commit"} => BlockDone(db, wtxn, cur.txs)

-----------------------------------------------------------------------------

\* The key of a commitment is the one of the output that reveals it.
LEMMA KeyOfReveal ==
  ASSUME NEW o \in OutPoint, Output[o].type = "Reveal"
  PROVE  /\ RevealedBy(o) \in Commitment
         /\ Output[o].key \in Key
         /\ Registry!KeyOf(RevealedBy(o)) = Output[o].key
<1> DEFINE key == Output[o].key
           salt == Output[o].salt
           c == RevealedBy(o)
<1>1. key \in Key /\ salt \in Salt /\ c \in Commitment /\ hmac[<<key, salt>>] = c
  BY OutputType DEF RevealedBy
<1> HIDE DEF key, salt, c
<1>2. ASSUME NEW k \in Key, NEW s \in Salt, hmac[<<k, s>>] = c
      PROVE  k = key
  <2>1. <<k, s>> = <<key, salt>>
    BY <1>1, <1>2, HmacAssumption
  <2> QED BY <2>1
<1>3. Registry!KeyOf(c) = key
  BY <1>1, <1>2 DEF Registry!KeyOf
<1> QED BY <1>1, <1>3 DEF key, salt, c

\* What a transaction opens: a reveal among its outputs, of that key.
LEMMA OpenedKey ==
  ASSUME NEW t \in Txid, NEW c \in Commitment, OpenVouts(t, c) # {}
  PROVE  /\ Registry!KeyOf(c) \in Key
         /\ Output[LastOutput(t, OpenVouts(t, c))].key = Registry!KeyOf(c)
         /\ RevealVouts(t, Registry!KeyOf(c)) # {}
<1>1. PICK i \in OpenVouts(t, c) : LastOutput(t, OpenVouts(t, c)) = Outputs[t][i]
  BY LastOutputIsOne DEF OpenVouts
<1>2. /\ i \in DOMAIN Outputs[t] /\ Outputs[t][i] \in OutPoint
      /\ Output[Outputs[t][i]].type = "Reveal" /\ RevealedBy(Outputs[t][i]) = c
  BY <1>1, InputsAndOutputs DEF OpenVouts
<1>3. Output[Outputs[t][i]].key \in Key /\ Registry!KeyOf(c) = Output[Outputs[t][i]].key
  BY <1>2, KeyOfReveal
<1>4. i \in RevealVouts(t, Registry!KeyOf(c))
  BY <1>2, <1>3 DEF RevealVouts, RevealsKey
<1> QED BY <1>1, <1>3, <1>4

\* What one more transaction does to the entries of the index of owners.
LEMMA OwnerEntries ==
  ASSUME NEW st \in State, NEW t \in Txid, NEW height \in Nat, NEW k \in Key
  PROVE  LET new == ApplyTransaction(st, t, height)
         IN  IF TakersBy({t}, k) # {} THEN new.keyToCommitment[k] \in TakersBy({t}, k)
             ELSE new.keyToCommitment[k] = st.keyToCommitment[k]
<1> DEFINE new == ApplyTransaction(st, t, height)
<1>1. new.keyToCommitment = KeyToCommitmentAfter(st, t)
  BY DEF ApplyTransaction, State
<1> HIDE DEF new
<1>2. CASE RevealVouts(t, k) = {}
  <2>1. TakersBy({t}, k) = {}
    BY <1>2, OpenedKey DEF TakersBy, OpenedBy
  <2> QED BY <1>1, <1>2, <2>1 DEF KeyToCommitmentAfter, new
<1>3. CASE RevealVouts(t, k) # {}
  <2>1. PICK i \in RevealVouts(t, k) : LastOutput(t, RevealVouts(t, k)) = Outputs[t][i]
    BY <1>3, LastOutputIsOne DEF RevealVouts
  <2> DEFINE o == Outputs[t][i]
  <2>2. o \in OutPoint /\ Output[o].type = "Reveal" /\ Output[o].key = k /\ i \in DOMAIN Outputs[t]
    BY <2>1, InputsAndOutputs DEF RevealVouts, RevealsKey
  <2>3. RevealedBy(o) \in Commitment /\ Registry!KeyOf(RevealedBy(o)) = k
    BY <2>2, KeyOfReveal
  <2>4. i \in OpenVouts(t, RevealedBy(o))
    BY <2>2 DEF OpenVouts
  <2>5. RevealedBy(o) \in TakersBy({t}, k)
    BY <2>3, <2>4 DEF TakersBy, OpenedBy
  <2>6. new.keyToCommitment[k] = RevealedBy(o)
    BY <1>1, <1>3, <2>1 DEF KeyToCommitmentAfter
  <2> QED BY <2>5, <2>6 DEF new
<1> QED BY <1>2, <1>3

\* One more transaction of the body.
LEMMA BodyGoesOn ==
  ASSUME Unrepeated = Commitment, ChainInv, NameInv, WaitInv, RegistryInv,
         NEW t \in Txid, ConnectTransaction(t)
  PROVE  BodyDone(db, ApplyTransaction(wtxn, t, Height(wtxn)), (cur.txs \ todo) \cup {t})
<1> DEFINE txs == cur.txs \ todo
           new == ApplyTransaction(wtxn, t, Height(wtxn))
           height == Height(wtxn)
<1>1. /\ Connecting /\ pc = "body" /\ t \in todo /\ t \in cur.txs
      /\ UtxosExist(wtxn, t) /\ t \in Revealing /\ Fresh(wtxn, {t}) /\ OnRecord(t)
      /\ NamesIndexed(wtxn) /\ BodyDone(db, wtxn, txs)
  <2>1. Connecting /\ pc = "body" /\ t \in todo /\ UtxosExist(wtxn, t)
    BY DEF ConnectTransaction, Connecting
  <2>2. t \in cur.txs /\ t \in Revealing /\ Fresh(wtxn, {t}) /\ NamesIndexed(wtxn)
    BY <2>1 DEF NameInv, Fresh
  <2>3. OnRecord(t)
    BY <2>1, <2>2 DEF WaitInv, RestInTime
  <2> QED BY <2>1, <2>2, <2>3 DEF RegistryInv
<1>2. wtxn \in State /\ height \in Nat
  BY <1>1, OpenTransaction
<1>3. /\ new.commitmentToKey = CommitmentToKeyAfter(wtxn, t)
      /\ new.headers = wtxn.headers
  BY <1>2 DEF ApplyTransaction, State
<1>4. \A c \in Commitment :
        \/ c \notin MadeBy({t}) /\ new.commitmentToHeight[c] = wtxn.commitmentToHeight[c]
        \/ c \in MadeBy({t}) /\ new.commitmentToHeight[c] = height
  BY <1>2, CommitmentEntries DEF MadeBy
<1>5. \A k \in Key :
        IF TakersBy({t}, k) # {} THEN new.keyToCommitment[k] \in TakersBy({t}, k)
        ELSE new.keyToCommitment[k] = wtxn.keyToCommitment[k]
  BY <1>2, OwnerEntries
<1>6. Height(new) = height
  BY <1>3 DEF Height
<1> HIDE DEF new, height
<1>7. /\ MadeBy(txs \cup {t}) = MadeBy(txs) \cup MadeBy({t})
      /\ OpenedBy(txs \cup {t}) = OpenedBy(txs) \cup OpenedBy({t})
      /\ \A k \in Key : TakersBy(txs \cup {t}, k) = TakersBy(txs, k) \cup TakersBy({t}, k)
  BY DEF MadeBy, OpenedBy, TakersBy
<1>8. ASSUME NEW c \in MadeBy({t})
      PROVE  db.commitmentToHeight[c] = None
  <2>1. PICK o \in OutputSet(t) : CommitsTo(o, c)
    BY <1>8 DEF MadeBy
  <2>2. c \in Commitment /\ wtxn.commitmentToOutpoint[c] = None
    BY <1>1, <2>1 DEF Fresh, MadeBy
  <2>3. wtxn.commitmentToHeight[c] = None
    BY <1>1, <2>2 DEF NamesIndexed
  <2> QED BY <1>1, <1>2, <2>2, <2>3, NoneAssumption DEF BodyDone, height
<1>9. ASSUME NEW c \in SpentCommitments(InputSet(t))
      PROVE  wtxn.commitmentToKey[c] = None /\ c \in Commitment
  <2>1. PICK p \in InputSet(t) : CommitsTo(p, c)
    BY DEF SpentCommitments
  <2>2. p \in wtxn.utxos /\ c \in Unrepeated
    BY <1>1 DEF UtxosExist, SpentCommitments
  <2> QED BY <1>1, <2>1, <2>2 DEF NamesIndexed, SpentCommitments
<1>10. ASSUME NEW c \in OpenedBy({t})
       PROVE  /\ c \in Commitment /\ c \notin OpenedBy(txs)
              /\ db.commitmentToHeight[c] # None /\ db.commitmentToKey[c] = None
  <2>1. c \in Commitment /\ OpenVouts(t, c) # {}
    BY DEF OpenedBy
  <2>2. c \in SpentCommitments(InputSet(t))
    BY <1>1, <2>1, InputsAndOutputs DEF OpenVouts, Revealing
  <2>3. db.commitmentToHeight[c] # None /\ wtxn.commitmentToKey[c] = None
    BY <1>1, <1>9, <2>2 DEF OnRecord
  <2>4. Registry!KeyOf(c) # None
    BY <2>1, OpenedKey, NoneAssumption
  <2>5. wtxn.commitmentToKey[c] = OpensBy(db, txs, c)
    BY <1>1, <2>1 DEF BodyDone
  <2> QED BY <2>1, <2>3, <2>4, <2>5 DEF OpensBy
<1>11. Allowed(db, txs \cup {t})
  BY <1>1, <1>7, <1>8, <1>10 DEF BodyDone, Allowed
<1>12. ASSUME NEW c \in Commitment
       PROVE  new.commitmentToHeight[c] =
                IF c \in MadeBy(txs \cup {t}) THEN height ELSE db.commitmentToHeight[c]
  BY <1>1, <1>4, <1>7 DEF BodyDone, height
<1>13. ASSUME NEW c \in Commitment
       PROVE  new.commitmentToKey[c] = OpensBy(db, txs \cup {t}, c)
  <2>1. wtxn.commitmentToKey[c] = OpensBy(db, txs, c)
    BY <1>1 DEF BodyDone
  <2>2. CASE c \in OpenedBy({t})
    <3>1. OpenVouts(t, c) # {}
      BY <2>2 DEF OpenedBy
    <3>2. new.commitmentToKey[c] = Registry!KeyOf(c)
      BY <1>3, <3>1, OpenedKey DEF CommitmentToKeyAfter
    <3> QED BY <1>7, <2>2, <3>2 DEF OpensBy
  <2>3. CASE c \notin OpenedBy({t})
    <3>1. OpenVouts(t, c) = {}
      BY <2>3 DEF OpenedBy
    <3>2. new.commitmentToKey[c] = wtxn.commitmentToKey[c]
      BY <1>3, <1>9, <3>1 DEF CommitmentToKeyAfter
    <3> QED BY <1>7, <2>1, <2>3, <3>2 DEF OpensBy
  <2> QED BY <2>2, <2>3
<1>14. ASSUME NEW k \in Key
       PROVE  IF TakersBy(txs \cup {t}, k) # {}
              THEN new.keyToCommitment[k] \in TakersBy(txs \cup {t}, k)
              ELSE new.keyToCommitment[k] = db.keyToCommitment[k]
  <2>1. IF TakersBy(txs, k) # {} THEN wtxn.keyToCommitment[k] \in TakersBy(txs, k)
        ELSE wtxn.keyToCommitment[k] = db.keyToCommitment[k]
    BY <1>1 DEF BodyDone
  <2>2. IF TakersBy({t}, k) # {} THEN new.keyToCommitment[k] \in TakersBy({t}, k)
        ELSE new.keyToCommitment[k] = wtxn.keyToCommitment[k]
    BY <1>5
  <2>3. TakersBy(txs \cup {t}, k) = TakersBy(txs, k) \cup TakersBy({t}, k)
    BY <1>7
  <2> QED BY <2>1, <2>2, <2>3
<1> QED BY <1>6, <1>11, <1>12, <1>13, <1>14 DEF BodyDone, new

\* The sweep forgets what is too old, and nothing of this block is.
LEMMA SweepEndsBlock ==
  ASSUME ChainInv, NameInv, RegistryInv, SweepExpired
  PROVE  BlockDone(db, ExpireCommitments(wtxn, Height(wtxn)), cur.txs)
<1> DEFINE txs == cur.txs
           height == Height(wtxn)
           new == ExpireCommitments(wtxn, height)
           expired == ExpiredCommitments(wtxn, height)
           keys == {wtxn.commitmentToKey[c] : c \in expired}
<1>1. /\ Connecting /\ cur.txs \ todo = txs /\ BodyDone(db, wtxn, txs)
      /\ wtxn \in State /\ db \in State
      /\ Height(db) \in Nat /\ height = Height(db) + 1
  <2>1. Connecting /\ cur.txs \ todo = txs /\ BodyDone(db, wtxn, cur.txs \ todo)
    BY DEF SweepExpired, Connecting, RegistryInv
  <2> QED BY <2>1, OpenTransaction
<1>2. /\ new.headers = wtxn.headers
      /\ \A k \in Key : new.keyToCommitment[k] = IF k \in keys THEN None ELSE wtxn.keyToCommitment[k]
      /\ \A c \in Commitment :
           /\ new.commitmentToHeight[c] = IF c \in expired THEN None ELSE wtxn.commitmentToHeight[c]
           /\ new.commitmentToKey[c] = IF c \in expired THEN None ELSE wtxn.commitmentToKey[c]
  BY <1>1 DEF ExpireCommitments, State
<1>3. Height(new) = height
  BY <1>2 DEF Height
<1> HIDE DEF new
<1>4. ASSUME NEW c \in Commitment
      PROVE  c \in expired <=> TooOldIn(db, c)
  <2>1. /\ db.commitmentToHeight[c] \in Nat \cup {None}
        /\ wtxn.commitmentToHeight[c] =
             IF c \in MadeBy(txs) THEN height ELSE db.commitmentToHeight[c]
        /\ c \in MadeBy(txs) => db.commitmentToHeight[c] = None
    BY <1>1 DEF State, BodyDone, Allowed
  <2>2. CASE c \in MadeBy(txs)
    <3>1. c \notin expired
      BY <1>1, <2>1, <2>2, ConstantsAssumption DEF ExpiredCommitments
    <3> QED BY <2>1, <2>2, <3>1 DEF TooOldIn
  <2>3. CASE c \notin MadeBy(txs)
    BY <1>1, <2>1, <2>3 DEF ExpiredCommitments, TooOldIn
  <2> QED BY <2>2, <2>3
<1>5. keys = SettledBy(db, txs)
  <2>1. expired = {c \in Commitment : TooOldIn(db, c)}
    BY <1>4 DEF ExpiredCommitments
  <2> HIDE DEF expired
  <2>2. \A c \in expired : wtxn.commitmentToKey[c] = OpensBy(db, txs, c)
    BY <1>1, <2>1 DEF BodyDone
  <2> QED BY <2>1, <2>2 DEF SettledBy
<1> HIDE DEF expired, keys, txs, height
<1>6. Allowed(db, txs)
  BY <1>1 DEF BodyDone
<1>7. ASSUME NEW c \in Commitment
      PROVE  /\ new.commitmentToHeight[c] = IF TooOldIn(db, c) THEN None
                  ELSE IF c \in MadeBy(txs) THEN Height(new) ELSE db.commitmentToHeight[c]
             /\ new.commitmentToKey[c] = IF TooOldIn(db, c) THEN None ELSE OpensBy(db, txs, c)
  BY <1>1, <1>2, <1>3, <1>4 DEF BodyDone, height
<1>8. ASSUME NEW k \in Key
      PROVE  IF k \in SettledBy(db, txs) THEN new.keyToCommitment[k] = None
             ELSE IF TakersBy(txs, k) # {} THEN new.keyToCommitment[k] \in TakersBy(txs, k)
             ELSE new.keyToCommitment[k] = db.keyToCommitment[k]
  BY <1>1, <1>2, <1>5 DEF BodyDone
<1> QED BY <1>6, <1>7, <1>8 DEF BlockDone, new, txs, height

\* Nothing is done when the header is connected.
LEMMA HeaderBeginsBlock ==
  ASSUME ChainInv, NameInv, ConfirmBmm
  PROVE  BodyDone(db, wtxn', {})
<1>1. /\ MainTypeOK /\ db \in State /\ db.headers # <<>>
      /\ block \in Header /\ block.prevMain <= Len(main)
  BY DEF ConfirmBmm, ChainInv, TypeOK, NodeTypeOK, ExtendsTip
<1>2. PICK b \in Collected(HeaderConnected(db, block)) :
        wtxn' = WithdrawalsHandled(HeaderConnected(db, block), b)
  BY DEF ConfirmBmm
<1>3. /\ wtxn'.commitmentToHeight = db.commitmentToHeight
      /\ wtxn'.commitmentToKey = db.commitmentToKey
      /\ wtxn'.keyToCommitment = db.keyToCommitment
  BY <1>1, <1>2, ConfirmNames DEF NameInv
<1>4. MadeBy({}) = {} /\ OpenedBy({}) = {} /\ \A k \in Key : TakersBy({}, k) = {}
  BY DEF MadeBy, OpenedBy, TakersBy
<1> QED BY <1>3, <1>4 DEF BodyDone, Allowed, OpensBy

\* Every step preserves the invariant.
LEMMA RegistryInvStep ==
  ASSUME Unrepeated = Commitment, ChainInv, NameInv, WaitInv, RegistryInv, [Next]_vars
  PROVE  RegistryInv'
<1> USE DEF RegistryInv
<1>1. ASSUME NEW t \in Txid, ConnectTransaction(t) PROVE RegistryInv'
  <2>1. /\ UNCHANGED <<db, cur, pc>> /\ pc = "body" /\ todo' = todo \ {t} /\ t \in cur.txs
        /\ wtxn' = ApplyTransaction(wtxn, t, Height(wtxn))
    BY <1>1 DEF ConnectTransaction, NameInv, Connecting
  <2>2. cur.txs \ todo' = (cur.txs \ todo) \cup {t}
    BY <2>1
  <2>3. BodyDone(db, wtxn', cur.txs \ todo')
    BY <1>1, <2>1, <2>2, BodyGoesOn
  <2> QED BY <2>1, <2>3
<1>2. CASE ConfirmBmm
  <2>1. BodyDone(db, wtxn', {})
    BY <1>2, HeaderBeginsBlock
  <2>2. UNCHANGED db /\ pc' = "body" /\ cur'.txs \ todo' = {}
    BY <1>2 DEF ConfirmBmm
  <2> QED BY <2>1, <2>2
<1>3. CASE SweepExpired
  <2>1. /\ UNCHANGED <<db, cur>> /\ pc' = "broadcast"
        /\ wtxn' = ExpireCommitments(wtxn, Height(wtxn))
    BY <1>3 DEF SweepExpired
  <2>2. BlockDone(db, wtxn', cur.txs)
    BY <1>3, <2>1, SweepEndsBlock
  <2> QED BY <2>1, <2>2
<1>4. CASE BroadcastBundle \/ (MainNext /\ UNCHANGED nodeVars) \/ UNCHANGED vars
           \/ \E t \in Txid : SubmitTransaction(t)
  <2>1. UNCHANGED <<db, wtxn, cur, todo>>
    BY <1>4 DEF BroadcastBundle, SubmitTransaction, vars, nodeVars
  <2>2. pc' = pc \/ (pc = "broadcast" /\ pc' = "commit")
    BY <1>4 DEF BroadcastBundle, SubmitTransaction, vars, nodeVars
  <2> QED BY <2>1, <2>2
<1>5. CASE AttemptBmm \/ CreateBmm \/ Commit \/ ConfirmFails \/ HeaderFails \/ CollectFails
           \/ ConnectFails \/ CallFails \/ AnswerLost \/ Restart
  <2>1. pc' \in {"bmm", "idle", "poisoned"}
    BY <1>5 DEF AttemptBmm, CreateBmm, Commit, ConfirmFails, HeaderFails, CollectFails,
                ConnectFails, CallFails, AnswerLost, Restart, Poison
  <2> QED BY <2>1
<1> QED BY <1>1, <1>2, <1>3, <1>4, <1>5 DEF Next, NodeNext, HandlerStep

\* A commit is a block of the registry, and no other step changes an index.
LEMMA StepIsRegistryStep ==
  ASSUME ChainInv, RegistryInv, [Next]_vars
  PROVE  [Registry!RegistryNext]_(Registry!registryVars)
<1>1. CASE Commit
  <2>1. /\ Connecting /\ db' = wtxn /\ pc = "commit"
    BY <1>1 DEF Commit, Connecting
  <2>2. /\ wtxn \in State /\ Height(wtxn) = Height(db) + 1 /\ BlockDone(db, wtxn, cur.txs)
    BY <2>1, OpenTransaction DEF RegistryInv
  <2>3. /\ Height(db)' = Height(wtxn)
        /\ DOMAIN wtxn.keyToCommitment = Key
        /\ wtxn.commitmentToHeight = [c \in Commitment |-> wtxn.commitmentToHeight[c]]
        /\ wtxn.commitmentToKey = [c \in Commitment |-> wtxn.commitmentToKey[c]]
    BY <2>1, <2>2 DEF Height, State
  <2>4. MadeBy(cur.txs) \in SUBSET Commitment /\ OpenedBy(cur.txs) \in SUBSET Commitment
    BY DEF MadeBy, OpenedBy
  <2>5. Registry!Block(MadeBy(cur.txs), OpenedBy(cur.txs))
    <3> DEFINE txs == cur.txs
               making == MadeBy(txs)
               opening == OpenedBy(txs)
               opens(c) == IF c \in opening THEN Registry!KeyOf(c) ELSE db.commitmentToKey[c]
               settled == {opens(c) : c \in {c \in Commitment : Registry!TooOld(c)}}
               takers(k) == {c \in opening : Registry!KeyOf(c) = k}
    <3>1. \A c : TooOldIn(db, c) <=> Registry!TooOld(c)
      BY DEF TooOldIn, Registry!TooOld
    <3>2. \A c : OpensBy(db, txs, c) = opens(c)
      BY DEF OpensBy
    <3>3. SettledBy(db, txs) = settled
      BY <3>1, <3>2 DEF SettledBy
    <3>4. \A k : TakersBy(txs, k) = takers(k)
      BY DEF TakersBy
    <3>5. /\ \A c \in making : db.commitmentToHeight[c] = None
          /\ \A c \in opening : db.commitmentToHeight[c] # None /\ db.commitmentToKey[c] = None
      BY <2>2 DEF BlockDone, Allowed
    <3> HIDE DEF making, opening, opens, settled, takers
    <3>6. wtxn.commitmentToHeight = [c \in Commitment |->
            IF Registry!TooOld(c) THEN None
            ELSE IF c \in making THEN Height(db) + 1 ELSE db.commitmentToHeight[c]]
      BY <2>2, <2>3, <3>1 DEF BlockDone, making
    <3>7. wtxn.commitmentToKey = [c \in Commitment |-> IF Registry!TooOld(c) THEN None ELSE opens(c)]
      BY <2>2, <2>3, <3>1, <3>2 DEF BlockDone
    <3>8. \A k \in Key :
            IF k \in settled THEN wtxn.keyToCommitment[k] = None
            ELSE IF takers(k) # {} THEN wtxn.keyToCommitment[k] \in takers(k)
            ELSE wtxn.keyToCommitment[k] = db.keyToCommitment[k]
      BY <2>2, <3>3, <3>4 DEF BlockDone
    <3> QED BY <2>1, <2>2, <2>3, <3>5, <3>6, <3>7, <3>8
            DEF Registry!Block, making, opening, opens, settled, takers
  <2> QED BY <2>4, <2>5 DEF Registry!RegistryNext
<1>2. CASE ~Commit
  <2>1. db' = db
    BY <1>2 DEF Next, NodeNext, HandlerStep, SubmitTransaction, AttemptBmm, CreateBmm, ConfirmBmm,
                ConnectTransaction, SweepExpired, ConnectFails, BroadcastBundle, ConfirmFails,
                HeaderFails, CollectFails, CallFails, AnswerLost, Restart, Poison, vars, nodeVars
  <2> QED BY <2>1 DEF Registry!registryVars, Height
<1> QED BY <1>1, <1>2

(***************************************************************************)
(* Whatever waits in the mempool, in whatever order it is connected, and   *)
(* whatever fails: each block makes commitments that are new, opens ones   *)
(* that an earlier block made, gives a key to one that opened it, and      *)
(* settles it when that one expires.                                       *)
(***************************************************************************)
THEOREM NamesRefine ==
  ASSUME Unrepeated = Commitment
  PROVE  Spec => ImplementsNameRegistry
<1>1. Init => RegistryInv /\ Registry!RegistryInit
  <2> SUFFICES ASSUME Init PROVE RegistryInv /\ Registry!RegistryInit
    OBVIOUS
  <2>1. db = NewState /\ pc = "idle"
    BY DEF Init
  <2>2. Height(db) = 0
    BY <2>1 DEF NewState, Height
  <2> QED BY <2>1, <2>2 DEF RegistryInv, Registry!RegistryInit, NewState
<1>2. ChainInv /\ NameInv /\ WaitInv /\ RegistryInv /\ [Next]_vars => RegistryInv'
  BY RegistryInvStep
<1>3. ChainInv /\ RegistryInv /\ [Next]_vars => [Registry!RegistryNext]_(Registry!registryVars)
  BY StepIsRegistryStep
<1> QED BY <1>1, <1>2, <1>3, ChainInvariant, NamesInvariant, WaitInvariant, PTL
        DEF Spec, ImplementsNameRegistry, Registry!RegistrySpec
=============================================================================
