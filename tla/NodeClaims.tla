----------------------------- MODULE NodeClaims -----------------------------
(***************************************************************************)
(* What comments and messages of the code say of it and the code does not  *)
(* do: each claim is refuted by a run.                                     *)
(***************************************************************************)
EXTENDS NodeProperties

(***************************************************************************)
(* "Will this transaction be valid, if included in next block?": what      *)
(* submit_transaction accepts can be connected.  Two transactions that     *)
(* spend the same output are both accepted, and so is one whose inputs a   *)
(* later block spends or expires.                                          *)
(***************************************************************************)
AcceptedConnects == pc = "body" => ~ConnectError

(***************************************************************************)
(* "key {key} was already registered with an older commitment": a key that *)
(* has an owner goes to an older commitment only.  That is checked when a  *)
(* transaction is submitted, against owners that are connected already.    *)
(***************************************************************************)
OlderCommitmentKeepsKey ==
  [][\A k \in Key :
       wtxn # None /\ wtxn' # None =>
         LET owner == wtxn.keyToCommitment[k]
             next  == wtxn'.keyToCommitment[k]
         IN  owner # None /\ next # None =>
               wtxn.commitmentToHeight[next] <= wtxn.commitmentToHeight[owner]]_vars

(***************************************************************************)
(* "commitment {commitment} already exists": no two outputs that can be    *)
(* spent hold the same commitment.  That is checked when a transaction is  *)
(* submitted, against the commitments that are connected already; of two   *)
(* in one block only the last is on record, and the sweep misses the other.*)
(***************************************************************************)
CommitmentIsNew ==
  \A o, p \in db.utxos, c \in Commitment : CommitsTo(o, c) /\ CommitsTo(p, c) => o = p

(***************************************************************************)
(* "Check if the bmm request was successful, and then connect the block":  *)
(* a block whose request was successful has its header connected.  Headers *)
(* are appended by height, and LMDB does not order the heights the way     *)
(* numbers are: the height with a second byte comes before all others.     *)
(***************************************************************************)
MinedIsAppended == pc = "idle" /\ block # None /\ VerifyBmm(block) => HeaderAppends(db)

(***************************************************************************)
(* "Delete spent utxos from utxo set": an output that a connected          *)
(* transaction spends is not in the utxo set.  A failed bundle stays the   *)
(* pending one, so each block puts its withdrawals back, spent or not.     *)
(***************************************************************************)
SpentStaysSpent == db.utxos \cap Spent = {}
=============================================================================
