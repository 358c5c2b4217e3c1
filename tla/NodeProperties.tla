--------------------------- MODULE NodeProperties ---------------------------
(***************************************************************************)
(* What a BitNames node must keep true, whatever the order of its calls,   *)
(* of the steps of the mainchain, of lost answers and of restarts.  All    *)
(* but the last are about the committed state: history is read off the     *)
(* chain of headers, so no auxiliary variable is needed.                   *)
(***************************************************************************)
EXTENDS Node

Connected == UNION {db.headers[i].txs : i \in DOMAIN db.headers}

\* The outpoints that connected transactions spend.
Spent == UNION {InputSet(t) : t \in Connected}

(***************************************************************************)
(* connect_block never compares prev_side_block_hash with the tip, and     *)
(* validate_block, which does, is never called: it is the order of         *)
(* attempts and confirmations that keeps the headers a chain.              *)
(***************************************************************************)
HeadersLinked ==
  \A i \in 2..Len(db.headers) : db.headers[i].prevSide = Hash(db.headers[i - 1])

(***************************************************************************)
(* Every connected header is committed to by the mainchain block after the *)
(* one it names, and names a later one than its parent does: verify_bmm    *)
(* before the connection, and no mainchain block serves two side blocks.   *)
(***************************************************************************)
MergeMined ==
  \A i \in 2..Len(db.headers) :
    /\ db.headers[i].prevMain < Len(main)
    /\ main[db.headers[i].prevMain + 1].bmm = Hash(db.headers[i])
    /\ db.headers[i - 1].prevMain < db.headers[i].prevMain

(***************************************************************************)
(* The commitments that at most one output carries.  A wallet makes no     *)
(* other: each gets a new address, hence a new salt.  What the node does   *)
(* with a repeated one is CommitmentIsNew of module NodeClaims.            *)
(***************************************************************************)
Unrepeated ==
  {c \in Commitment : \A o, p \in OutPoint : CommitsTo(o, c) /\ CommitsTo(p, c) => o = p}

(***************************************************************************)
(* commitment_to_height and commitment_to_outpoint have the same keys, an  *)
(* entry is dropped by the sweep of the block that makes it too old, and   *)
(* the sweep finds every commitment that can still be revealed: the entry  *)
(* of a live commitment names the live outpoint.                           *)
(***************************************************************************)
CommitmentsIndexed ==
  /\ \A c \in Commitment :
       /\ db.commitmentToHeight[c] = None <=> db.commitmentToOutpoint[c] = None
       /\ db.commitmentToHeight[c] # None =>
            Height(db) - db.commitmentToHeight[c] \in 0..COMMITMENT_MAX_AGE
  /\ \A o \in db.utxos, c \in Unrepeated :
       CommitsTo(o, c) => db.commitmentToOutpoint[c] = o

(***************************************************************************)
(* The two directions of the owner index agree: the commitment on record   *)
(* for a key still has its height, which get_key_height reads, and the     *)
(* sweep of that commitment finds the key.  A commitment that can still be *)
(* revealed opens no key yet.                                              *)
(***************************************************************************)
OwnersIndexed ==
  /\ \A k \in Key : db.keyToCommitment[k] \in Unrepeated =>
       /\ db.commitmentToKey[db.keyToCommitment[k]] = k
       /\ db.commitmentToHeight[db.keyToCommitment[k]] # None
  /\ \A o \in db.utxos, c \in Unrepeated :
       CommitsTo(o, c) => db.commitmentToKey[c] = None

(***************************************************************************)
(* A name is revealed in a later block than the one that committed to it,  *)
(* although connect_block validates nothing, and at most one block after   *)
(* the last height that validate_transaction_pure accepts: the mempool is  *)
(* not revalidated, the sweep is what stops a reveal that waited there.    *)
(***************************************************************************)
RevealWindow ==
  \A i \in DOMAIN db.headers : \A t \in db.headers[i].txs :
    \A o \in OutputSet(t) : Output[o].type = "Reveal" /\ RevealedBy(o) \in Unrepeated =>
      \E j \in DOMAIN db.headers :
        /\ i - j \in 1..(COMMITMENT_MAX_AGE + 1)
        /\ \E u \in db.headers[j].txs :
             \E p \in OutputSet(u) \cap InputSet(t) : CommitsTo(p, RevealedBy(o))

(***************************************************************************)
(* The deposits in the utxo set are those of the mainchain up to the block *)
(* the tip names, less the ones that were spent: none is missed or         *)
(* credited twice over the ranges (last_deposit_block, prev_main] of       *)
(* successive blocks, abandoned attempts and restarts.                     *)
(***************************************************************************)
DepositsCreditedOnce ==
  db.utxos \cap Deposit = MainDeposits(main, 1, Tip(db).prevMain) \ Spent

(***************************************************************************)
(* An output that no connected transaction spends is in the utxo set, or   *)
(* it is a withdrawal of a bundle that the mainchain was handed: the       *)
(* broadcast comes before the commit.  Only commitments expire.            *)
(***************************************************************************)
NoOutputLost ==
  \A t \in Connected : \A o \in OutputSet(t) \ Spent :
    \/ o \in db.utxos
    \/ Output[o].type = "Commitment"
    \/ \E b \in received : o \in ToSet(b)

(***************************************************************************)
(* A withdrawal in the pending bundle cannot be spent on the sidechain as  *)
(* long as the mainchain may still pay it: no later step of connect_block  *)
(* brings back what the collection took out of the utxo set.               *)
(***************************************************************************)
PendingIsLocked ==
  db.bundle # None /\ db.bundle \notin failed => ToSet(db.bundle) \cap db.utxos = {}

(***************************************************************************)
(* No withdrawal is in two bundles that the mainchain may pay, and one it  *)
(* has paid cannot be spent on the sidechain once the handler that handed  *)
(* it over has ended.  A bundle depends on the order of a HashMap: this    *)
(* holds as long as the process does not end, and no call fails, between a *)
(* broadcast and its commit.                                               *)
(***************************************************************************)
PaidOnce ==
  /\ \A b, c \in received \ failed : b # c => ToSet(b) \cap ToSet(c) = {}
  /\ pc = "idle" => \A b \in confirmed : ToSet(b) \cap db.utxos = {}

(***************************************************************************)
(* A bundle that failed is the last one.  The block that hears of it puts  *)
(* its withdrawals back and moves the failure height, but the bundle stays *)
(* the pending one and the daemon goes on listing it: so does every later  *)
(* block, the gap to the failure never passes, and nothing is collected    *)
(* again.                                                                  *)
(***************************************************************************)
Returned == db.bundle \in failed /\ db.failureHeight = Height(db)

FailureIsFinal == [][Returned => Returned' /\ db'.bundle = db.bundle]_vars

(***************************************************************************)
(* The chain stops at the last height of one byte: headers are appended by *)
(* height, LMDB does not order heights the way numbers are ordered, and    *)
(* the first one that needs a second byte comes before the tip's.          *)
(***************************************************************************)
ChainStops == Height(db) < KeyRadix

(***************************************************************************)
(* A handler that started ends: with its answer, or with a poisoned mutex. *)
(* No order of the transactions of a block leaves it half connected.       *)
(***************************************************************************)
HandlerReturns == pc \in {"bmm", "body", "broadcast", "commit"} ~> pc \in {"idle", "poisoned"}

-----------------------------------------------------------------------------
(***************************************************************************)
(* The node implements blind merged mining: what it commits is a chain of  *)
(* blocks that the mainchain committed to, each connected at most once,    *)
(* and a restart or an error takes none of them back.                      *)
(***************************************************************************)
Bmm == INSTANCE BmmChain WITH
         chain <- db.headers,
         commitments <- [i \in DOMAIN main |-> main[i].bmm]

ImplementsBmmChain == Bmm!Spec

(***************************************************************************)
(* The committed name indexes implement the registry: whatever waits in    *)
(* the mempool, is reordered by a HashMap or is connected again, each      *)
(* block makes and opens commitments as the registry lets it.              *)
(***************************************************************************)
Registry == INSTANCE NameRegistry WITH
              height <- Height(db),
              made   <- db.commitmentToHeight,
              opened <- db.commitmentToKey,
              owner  <- db.keyToCommitment

ImplementsNameRegistry == Registry!RegistrySpec
=============================================================================
