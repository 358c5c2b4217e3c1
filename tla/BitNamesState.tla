--------------------------- MODULE BitNamesState ---------------------------
(***************************************************************************)
(* The chain state of a BitNames node: state/src/lib.rs and the output     *)
(* types of types/src/types.rs.                                            *)
(*                                                                         *)
(* A state is a record with one field for each LMDB database.  A database  *)
(* is a total function with None for an absent key; the one exception is   *)
(* utxos, which is the set of its keys: an outpoint names the hash of the  *)
(* transaction that made it, so the output behind it never changes and is  *)
(* the constant Output[o].  For the same reason a transaction is an        *)
(* element of Txid with constant Inputs and Outputs.  Txid holds the       *)
(* transactions that pass the value check of sdk_types::validate_transaction*)
(* (external), the others never enter a node.                              *)
(*                                                                         *)
(* Everything here is constant level: module Node decides when which       *)
(* operator is applied to the committed state or to a write transaction.   *)
(***************************************************************************)
EXTENDS NativeKeys, Sequences, FiniteSets, SequencesExt

CONSTANTS
  Key, Salt, Value,     \* names, salts, and the values names map to
  Commitment,           \* 32-byte hashes
  hmac,                 \* hmac[<<k, s>>], the commitment to key k with salt s
  ZeroValue,            \* Value::from([0; 32])
  MainAddress,          \* mainchain destinations of withdrawals
  Txid,                 \* the transactions of the instance
  OutPoint,             \* the outputs of those transactions, and deposits
  Deposit,              \* the outpoints of the form OutPoint::Deposit
  Inputs, Outputs,      \* Txid -> Seq(OutPoint), outputs in vout order
  Output,               \* OutPoint -> Content
  None,                 \* an absent value
  COMMITMENT_MAX_AGE,
  WITHDRAWAL_BUNDLE_FAILURE_GAP,
  outputWeight,         \* what the output to a mainchain address weighs, by its script
  BUNDLE_0_WEIGHT, OUTPUT_WEIGHT,
  MAX_STANDARD_TX_WEIGHT

Content ==
  [type : {"Commitment"}, commitment : Commitment]
    \cup [type : {"Reveal"}, key : Key, salt : Salt]
    \cup [type : {"KeyValue"}, key : Key, value : Value]
    \cup [type : {"Value"}]
    \cup [type : {"Withdrawal"}, dest : MainAddress]

ASSUME ConstantsAssumption ==
  /\ ZeroValue \in Value
  /\ hmac \in [Key \X Salt -> Commitment]
  /\ IsFiniteSet(OutPoint)
  /\ Deposit \subseteq OutPoint
  /\ Inputs \in [Txid -> Seq(OutPoint)]
  /\ Outputs \in [Txid -> Seq(OutPoint \ Deposit)]
  /\ Output \in [OutPoint -> Content]
  /\ COMMITMENT_MAX_AGE \in Nat
  /\ WITHDRAWAL_BUNDLE_FAILURE_GAP \in Nat
  /\ outputWeight \in [MainAddress -> Nat]
  /\ BUNDLE_0_WEIGHT \in Nat
  /\ OUTPUT_WEIGHT \in Nat \ {0}
  /\ MAX_STANDARD_TX_WEIGHT \in Nat
  /\ BUNDLE_0_WEIGHT <= MAX_STANDARD_TX_WEIGHT

\* get_deposit_outputs makes outputs that hold a value and nothing else.
ASSUME DepositAssumption == \A o \in Deposit : Output[o].type = "Value"

\* An outpoint names the transaction and the position that made it.
ASSUME OutputsAssumption ==
  \A t, u \in Txid : \A i \in DOMAIN Outputs[t], j \in DOMAIN Outputs[u] :
    Outputs[t][i] = Outputs[u][j] => t = u /\ i = j

\* Two names, or two salts, never have the same commitment.
ASSUME HmacAssumption ==
  \A x, y \in Key \X Salt : hmac[x] = hmac[y] => x = y

ASSUME NoneAssumption ==
  /\ None \notin Value
  /\ None \notin Commitment
  /\ None \notin OutPoint
  /\ None \notin Key
  /\ None \notin Nat
  /\ None \notin Seq(OutPoint)

(***************************************************************************)
(* A header commits to its body through its merkle root: txs stands for    *)
(* the root and for the body.  The body is a set because its order is that *)
(* of HashMap::values, which the connection loop resolves (see Node).      *)
(* prevMain is the position of prev_main_block_hash in the mainchain.  The *)
(* hash of a header is collision free: it is everything the header commits *)
(* to, from its first ancestor on.                                         *)
(***************************************************************************)
BlockHash == Seq([prevMain : Nat, txs : SUBSET Txid])

Header == [prevSide : BlockHash, prevMain : Nat, txs : SUBSET Txid]

Hash(header) == Append(header.prevSide, [prevMain |-> header.prevMain, txs |-> header.txs])

Genesis == [prevSide |-> <<>>, prevMain |-> 0, txs |-> {}]

(***************************************************************************)
(* The withdrawals of a bundle are hashed in the order HashMap::keys gives *)
(* them, and the mainchain knows the bundle by the transaction id that     *)
(* follows: a bundle is the sequence of the outpoints it spends.           *)
(***************************************************************************)
Withdrawals(utxos) == {o \in utxos : Output[o].type = "Withdrawal"}

Bundle == Seq(Withdrawals(OutPoint))

State ==
  [headers            : Seq(Header),
   utxos              : SUBSET OutPoint,
   keyToValue         : [Key -> Value \cup {None}],
   commitmentToHeight : [Commitment -> Nat \cup {None}],
   commitmentToOutpoint : [Commitment -> OutPoint \cup {None}],
   keyToCommitment    : [Key -> Commitment \cup {None}],
   commitmentToKey    : [Commitment -> Key \cup {None}],
   bundle             : Bundle \cup {None},
   failureHeight      : Nat,
   lastDeposit        : Nat]

\* BitNamesState::new on an empty environment: the genesis header only.
NewState ==
  [headers            |-> <<Genesis>>,
   utxos              |-> {},
   keyToValue         |-> [k \in Key |-> None],
   commitmentToHeight |-> [c \in Commitment |-> None],
   commitmentToOutpoint |-> [c \in Commitment |-> None],
   keyToCommitment    |-> [k \in Key |-> None],
   commitmentToKey    |-> [c \in Commitment |-> None],
   bundle             |-> None,
   failureHeight      |-> 0,
   lastDeposit        |-> 0]

Height(st) == Len(st.headers) - 1
Tip(st)    == st.headers[Len(st.headers)]

-----------------------------------------------------------------------------
(* What an output is, and what a transaction spends and makes.             *)

InputSet(t)  == ToSet(Inputs[t])
OutputSet(t) == ToSet(Outputs[t])

CommitsTo(o, c) == Output[o].type = "Commitment" /\ Output[o].commitment = c
RevealsKey(o, k) == Output[o].type = "Reveal" /\ Output[o].key = k
SetsKey(o, k)   == Output[o].type = "KeyValue" /\ Output[o].key = k
RevealedBy(o)   == hmac[<<Output[o].key, Output[o].salt>>]

SpentCommitments(spent) == {c \in Commitment : \E o \in spent : CommitsTo(o, c)}
SpentKeys(spent) == {k \in Key : \E o \in spent : RevealsKey(o, k) \/ SetsKey(o, k)}

\* The positions of the outputs of t that write one entry; the last one wins.
CommitVouts(t, c) == {i \in DOMAIN Outputs[t] : CommitsTo(Outputs[t][i], c)}
RevealVouts(t, k) == {i \in DOMAIN Outputs[t] : RevealsKey(Outputs[t][i], k)}
KeyVouts(t, k)    == RevealVouts(t, k) \cup {i \in DOMAIN Outputs[t] : SetsKey(Outputs[t][i], k)}
OpenVouts(t, c)   == {i \in DOMAIN Outputs[t] :
                        /\ Output[Outputs[t][i]].type = "Reveal"
                        /\ RevealedBy(Outputs[t][i]) = c}
LastOutput(t, vouts) == Outputs[t][Max(vouts)]

-----------------------------------------------------------------------------
(* Validation.                                                             *)

\* get_utxos finds every input of t.
UtxosExist(st, t) == InputSet(t) \subseteq st.utxos

\* validate_transaction_pure refuses to spend a commitment that is too old.
RevealInTime(st, spent, height) ==
  \A c \in SpentCommitments(spent) :
    /\ st.commitmentToHeight[c] # None
    /\ height - st.commitmentToHeight[c] <= COMMITMENT_MAX_AGE

\* A key that has a value may be taken over by an older commitment only.
NotRegisteredBefore(st, k, c) ==
  st.keyToValue[k] # None =>
    LET owner == st.keyToCommitment[k]
    IN  /\ owner # None
        /\ st.commitmentToHeight[owner] # None
        /\ st.commitmentToHeight[c] # None
        /\ st.commitmentToHeight[owner] >= st.commitmentToHeight[c]

OutputValid(st, spent, o) ==
  /\ \A k \in Key : RevealsKey(o, k) =>
        /\ RevealedBy(o) \in SpentCommitments(spent)
        /\ NotRegisteredBefore(st, k, RevealedBy(o))
  /\ \A k \in Key : SetsKey(o, k) => k \in SpentKeys(spent)
  /\ \A c \in Commitment : CommitsTo(o, c) => st.commitmentToOutpoint[c] = None

ValidateTransactionPure(st, spent, height, t) ==
  /\ RevealInTime(st, spent, height)
  /\ \A o \in OutputSet(t) : OutputValid(st, spent, o)

\* Will this transaction be valid, if included in the next block?
ValidateTransaction(st, t) ==
  /\ UtxosExist(st, t)
  /\ ValidateTransactionPure(st, InputSet(t), Height(st) + 1, t)

-----------------------------------------------------------------------------
(* Connecting a block: the header and the deposits, the withdrawal bundle, *)
(* the transactions of the body, and the commitments that expire.          *)

\* MDB_APPEND refuses a key that does not come after the last one.
HeaderAppends(st) == KeyPrecedes(Height(st), Height(st) + 1)

\* Mutant: the last deposit block is written when there is none, too.
ConnectHeaderPutsNone(st, header, deposits, depositBlock) ==
  [st EXCEPT !.headers = Append(@, header),
             !.lastDeposit = depositBlock,
             !.utxos = @ \cup deposits]

ConnectHeader(st, header, deposits, depositBlock) ==
  [st EXCEPT !.headers = Append(@, header),
             !.lastDeposit = IF depositBlock = None THEN @ ELSE depositBlock,
             !.utxos = @ \cup deposits]

BundleDue(st, height) ==
  /\ height - st.failureHeight > WITHDRAWAL_BUNDLE_FAILURE_GAP
  /\ Withdrawals(st.utxos) # {}

Destinations(outpoints) == {Output[o].dest : o \in outpoints}

MAX_BUNDLE_OUTPUTS == (MAX_STANDARD_TX_WEIGHT - BUNDLE_0_WEIGHT) \div OUTPUT_WEIGHT

(***************************************************************************)
(* Withdrawals are aggregated by destination and destinations are taken in *)
(* an order that is a HashMap's where the comparison of two aggregates is  *)
(* not decisive, until the bundle has MORE than MAX_BUNDLE_OUTPUTS outputs.*)
(***************************************************************************)
CollectWithdrawalBundle(utxos) ==
  LET all  == Withdrawals(utxos)
      size == Min({Cardinality(Destinations(all)), MAX_BUNDLE_OUTPUTS + 1})
  IN  UNION {SetToSeqs({o \in all : Output[o].dest \in taken}) :
               taken \in kSubset(size, Destinations(all))}

(***************************************************************************)
(* transaction.weight(): the loop stops by a count of outputs, as if each  *)
(* weighed OUTPUT_WEIGHT; this is what they weigh.  Three other outputs,   *)
(* which BUNDLE_0_WEIGHT includes, come before them; their number takes    *)
(* two more bytes, of weight 4, from 253 on.                               *)
(***************************************************************************)
Total(f, S) == FoldSet(LAMBDA x, sum : f[x] + sum, 0, S)

CountWeight(n) == IF n + 3 < 253 THEN 0 ELSE 8

BundleWeight(b) ==
  LET paid == Destinations(ToSet(b))
  IN  BUNDLE_0_WEIGHT + CountWeight(Cardinality(paid)) + Total(outputWeight, paid)

BundleTooHeavy(b) == BundleWeight(b) > MAX_STANDARD_TX_WEIGHT

\* Mutant: the withdrawals of the bundle stay in the utxo set.
LockBundleOnRecordOnly(st, b) == [st EXCEPT !.bundle = b]

LockBundle(st, b) == [st EXCEPT !.utxos = @ \ ToSet(b), !.bundle = b]

\* Mutant: the two statuses are swapped.
HandleBundleStatusSwapped(st, failed, confirmed, height) ==
  CASE st.bundle \in confirmed ->
         [st EXCEPT !.failureHeight = height, !.utxos = @ \cup ToSet(st.bundle)]
    [] st.bundle \in failed \ confirmed -> [st EXCEPT !.bundle = None]
    [] OTHER -> st

\* Mutant: a failure counts once.
HandleBundleStatusOnce(st, failed, confirmed, height) ==
  CASE st.bundle \in failed /\ st.failureHeight = 0 ->
         [st EXCEPT !.failureHeight = height, !.utxos = @ \cup ToSet(st.bundle)]
    [] st.bundle \in confirmed \ failed -> [st EXCEPT !.bundle = None]
    [] OTHER -> st

\* Of bundle_statuses only the entry of the bundle that is pending matters.
HandleBundleStatus(st, failed, confirmed, height) ==
  CASE st.bundle \in failed ->
         [st EXCEPT !.failureHeight = height, !.utxos = @ \cup ToSet(st.bundle)]
    [] st.bundle \in confirmed \ failed -> [st EXCEPT !.bundle = None]
    [] OTHER -> st

-----------------------------------------------------------------------------
(* One turn of the loop over body.transactions: the inputs are deleted,    *)
(* then the outputs are put in vout order.                                 *)

KeyToValueAfter(st, t) ==
  [k \in Key |->
     IF KeyVouts(t, k) # {}
     THEN LET o == LastOutput(t, KeyVouts(t, k))
          IN  IF Output[o].type = "Reveal" THEN ZeroValue ELSE Output[o].value
     ELSE IF \E o \in InputSet(t) : SetsKey(o, k) THEN None ELSE st.keyToValue[k]]

KeyToCommitmentAfter(st, t) ==
  [k \in Key |->
     IF RevealVouts(t, k) # {} THEN RevealedBy(LastOutput(t, RevealVouts(t, k)))
     ELSE st.keyToCommitment[k]]

\* Mutant: the outputs are put before the inputs are deleted.
CommitmentToKeyAfterSwapped(st, t) ==
  [c \in Commitment |->
     IF c \in SpentCommitments(InputSet(t)) THEN None
     ELSE IF OpenVouts(t, c) # {} THEN Output[LastOutput(t, OpenVouts(t, c))].key
     ELSE st.commitmentToKey[c]]

CommitmentToKeyAfter(st, t) ==
  [c \in Commitment |->
     IF OpenVouts(t, c) # {} THEN Output[LastOutput(t, OpenVouts(t, c))].key
     ELSE IF c \in SpentCommitments(InputSet(t)) THEN None
     ELSE st.commitmentToKey[c]]

CommitmentToHeightAfter(st, t, height) ==
  [c \in Commitment |-> IF CommitVouts(t, c) # {} THEN height ELSE st.commitmentToHeight[c]]

CommitmentToOutpointAfter(st, t) ==
  [c \in Commitment |->
     IF CommitVouts(t, c) # {} THEN LastOutput(t, CommitVouts(t, c))
     ELSE st.commitmentToOutpoint[c]]

ApplyTransaction(st, t, height) ==
  [st EXCEPT !.utxos = (@ \ InputSet(t)) \cup OutputSet(t),
             !.keyToValue = KeyToValueAfter(st, t),
             !.keyToCommitment = KeyToCommitmentAfter(st, t),
             !.commitmentToKey = CommitmentToKeyAfter(st, t),
             !.commitmentToHeight = CommitmentToHeightAfter(st, t, height),
             !.commitmentToOutpoint = CommitmentToOutpointAfter(st, t)]

-----------------------------------------------------------------------------
(* The sweep that ends connect_block.                                      *)

\* Mutant: the sweep comes one block late.
ExpiredCommitmentsLate(st, height) ==
  {c \in Commitment : /\ st.commitmentToHeight[c] # None
                      /\ height - st.commitmentToHeight[c] > COMMITMENT_MAX_AGE + 1}

ExpiredCommitments(st, height) ==
  {c \in Commitment : /\ st.commitmentToHeight[c] # None
                      /\ height - st.commitmentToHeight[c] > COMMITMENT_MAX_AGE}

\* The sweep's own error: an expired commitment with no outpoint on record.
SweepFails(st, height) ==
  \E c \in ExpiredCommitments(st, height) : st.commitmentToOutpoint[c] = None

\* Mutant: key_to_commitment keeps the commitments that expire.
ExpireCommitmentsKeepsOwner(st, height) ==
  LET expired == ExpiredCommitments(st, height)
      Drop(index) == [c \in Commitment |-> IF c \in expired THEN None ELSE index[c]]
  IN  [st EXCEPT !.utxos = @ \ {st.commitmentToOutpoint[c] : c \in expired},
                 !.commitmentToKey = Drop(@),
                 !.commitmentToHeight = Drop(@),
                 !.commitmentToOutpoint = Drop(@)]

ExpireCommitments(st, height) ==
  LET expired == ExpiredCommitments(st, height)
      Drop(index) == [c \in Commitment |-> IF c \in expired THEN None ELSE index[c]]
      keys == {st.commitmentToKey[c] : c \in expired}
  IN  [st EXCEPT !.utxos = @ \ {st.commitmentToOutpoint[c] : c \in expired},
                 !.keyToCommitment = [k \in Key |-> IF k \in keys THEN None ELSE @[k]],
                 !.commitmentToKey = Drop(@),
                 !.commitmentToHeight = Drop(@),
                 !.commitmentToOutpoint = Drop(@)]
=============================================================================
