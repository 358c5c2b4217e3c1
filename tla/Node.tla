-------------------------------- MODULE Node --------------------------------
(***************************************************************************)
(* A BitNames node: node/src/node.rs, node/src/drivechain.rs and the RPC   *)
(* handlers of node/src/main.rs, on the state of module BitNamesState and  *)
(* against the mainchain of module Mainchain.                              *)
(*                                                                         *)
(* The handlers hold the mutex of main.rs from start to end, so one runs   *)
(* at a time and pc says how far it is.  What interleaves with it is the   *)
(* mainchain, which moves on its own, and the end of the process.  A       *)
(* handler that meets an error unwraps it while it holds the guard: the    *)
(* mutex is poisoned, and every later handler panics on lock().unwrap().   *)
(***************************************************************************)
EXTENDS Mainchain

CONSTANT CallsMayFail   \* whether a call to the daemon or to LMDB may fail,
                        \* and the process end in the middle of a handler

ASSUME CallsMayFailAssumption == CallsMayFail \in BOOLEAN

VARIABLES
  db,                   \* the committed state of the LMDB environment
  wtxn,                 \* the state as the open write transaction sees it
  mempool,              \* Node::mempool
  block,                \* Drivechain::block
  cur,                  \* the block the running handler works on
  todo,                 \* transactions of cur that are not connected yet
  pc                    \* where the running handler is

nodeVars == <<db, wtxn, mempool, block, cur, todo, pc>>
vars == <<nodeVars, mainVars>>

NodeTypeOK ==
  /\ db \in State
  /\ wtxn \in State \cup {None}
  /\ mempool \in SUBSET Txid
  /\ block \in Header \cup {None}
  /\ cur \in Header \cup {None}
  /\ todo \in SUBSET Txid
  /\ pc \in {"idle", "bmm", "body", "broadcast", "commit", "poisoned"}

TypeOK == MainTypeOK /\ NodeTypeOK

Init ==
  /\ MainInit
  /\ db = NewState
  /\ wtxn = None
  /\ mempool = {}
  /\ block = None
  /\ cur = None
  /\ todo = {}
  /\ pc = "idle"

-----------------------------------------------------------------------------
(* Handlers.                                                               *)

\* Mutant: an input may be the output of a transaction of the mempool.
SubmitTransactionOnMempool(t) ==
  /\ pc = "idle"
  /\ InputSet(t) \subseteq db.utxos \cup UNION {OutputSet(u) : u \in mempool}
  /\ mempool' = mempool \cup {t}
  /\ UNCHANGED <<db, wtxn, block, cur, todo, pc, mainVars>>

SubmitTransaction(t) ==
  /\ pc = "idle"
  /\ ValidateTransaction(db, t)
  /\ mempool' = mempool \cup {t}
  /\ UNCHANGED <<db, wtxn, block, cur, todo, pc, mainVars>>

\* Mutant: the parent is the block before the tip.
GenerateBlockOnParent == [prevSide |-> Tip(db).prevSide, prevMain |-> Len(main), txs |-> mempool]

GenerateBlock == [prevSide |-> Hash(Tip(db)), prevMain |-> Len(main), txs |-> mempool]

\* attempt_bmm: the block is made from the mainchain tip of this moment ...
AttemptBmm ==
  /\ pc = "idle"
  /\ cur' = GenerateBlock
  /\ pc' = "bmm"
  /\ UNCHANGED <<db, wtxn, mempool, block, todo, mainVars>>

\* ... and requested at a later one; it replaces the block attempted before.
CreateBmm ==
  /\ pc = "bmm"
  /\ CreateBmmRequest(Hash(cur), cur.prevMain)
  /\ block' = cur
  /\ cur' = None
  /\ pc' = "idle"
  /\ UNCHANGED <<db, wtxn, mempool, todo>>

\* Mutant: any block that follows the one the header names will do.
VerifyBmmAnyBlock(header) == header.prevMain < Len(main)

VerifyBmm(header) ==
  /\ header.prevMain < Len(main)
  /\ main[header.prevMain + 1].bmm = Hash(header)

\* Mutant: the deposits of the last deposit block are not skipped.
NewDepositsFromStart(st, end) ==
  MainDeposits(main, IF st.lastDeposit = 0 THEN 1 ELSE st.lastDeposit, end)

NewDeposits(st, end) == MainDeposits(main, st.lastDeposit + 1, end)

DepositBlock(st, end) ==
  LET found == {i \in (st.lastDeposit + 1)..end : main[i].deposits # {}}
  IN  IF found = {} THEN None ELSE Max(found)

\* The state of a write transaction after the header and the deposits.
HeaderConnected(st, header) ==
  ConnectHeader(st, header, NewDeposits(st, header.prevMain), DepositBlock(st, header.prevMain))

\* The same after the withdrawals, given the bundle that was collected, if any.
WithdrawalsHandled(st, b) ==
  HandleBundleStatus(IF b = None THEN st ELSE LockBundle(st, b), failed, confirmed, Height(st))

Collected(st) == IF BundleDue(st, Height(st)) THEN CollectWithdrawalBundle(st.utxos) ELSE {None}

\* Mutant: the block stays where it was.
KeepBlock == block' = block

\* The block is taken before it is connected.
TakeBlock == block' = None

\* confirm_bmm up to the loop over the body.
ConfirmBmm ==
  /\ pc = "idle"
  /\ block # None
  /\ VerifyBmm(block)
  /\ HeaderAppends(db)
  /\ LET st == HeaderConnected(db, block)
     IN  \E b \in Collected(st) :
           /\ b # None => ~BundleTooHeavy(b)
           /\ wtxn' = WithdrawalsHandled(st, b)
  /\ TakeBlock
  /\ cur' = block
  /\ todo' = block.txs
  /\ pc' = "body"
  /\ UNCHANGED <<db, mempool, mainVars>>

ConnectTransaction(t) ==
  /\ pc = "body"
  /\ t \in todo
  /\ UtxosExist(wtxn, t)
  /\ wtxn' = ApplyTransaction(wtxn, t, Height(wtxn))
  /\ todo' = todo \ {t}
  /\ UNCHANGED <<db, mempool, block, cur, pc, mainVars>>

\* Mutant: the broadcast is skipped.
SweepExpiredThenCommit ==
  /\ pc = "body"
  /\ todo = {}
  /\ ~SweepFails(wtxn, Height(wtxn))
  /\ wtxn' = ExpireCommitments(wtxn, Height(wtxn))
  /\ pc' = "commit"
  /\ UNCHANGED <<db, mempool, block, cur, todo, mainVars>>

SweepExpired ==
  /\ pc = "body"
  /\ todo = {}
  /\ ~SweepFails(wtxn, Height(wtxn))
  /\ wtxn' = ExpireCommitments(wtxn, Height(wtxn))
  /\ pc' = "broadcast"
  /\ UNCHANGED <<db, mempool, block, cur, todo, mainVars>>

\* The bundle that is pending is handed over again with every block.
BroadcastBundle ==
  /\ pc = "broadcast"
  /\ IF wtxn.bundle = None THEN UNCHANGED mainVars ELSE ReceiveBundle(wtxn.bundle)
  /\ pc' = "commit"
  /\ UNCHANGED <<db, wtxn, mempool, block, cur, todo>>

\* Mutant: the write transaction is dropped.
CommitDrops ==
  /\ pc = "commit"
  /\ mempool' = mempool \ cur.txs
  /\ wtxn' = None
  /\ cur' = None
  /\ pc' = "idle"
  /\ UNCHANGED <<db, block, todo, mainVars>>

Commit ==
  /\ pc = "commit"
  /\ mempool' = mempool \ cur.txs
  /\ db' = wtxn
  /\ wtxn' = None
  /\ cur' = None
  /\ pc' = "idle"
  /\ UNCHANGED <<block, todo, mainVars>>

-----------------------------------------------------------------------------
(* Errors.  The write transaction is dropped, the memory is out of reach.  *)

Poison ==
  /\ wtxn' = None
  /\ cur' = None
  /\ todo' = {}
  /\ pc' = "poisoned"
  /\ UNCHANGED <<db, mempool>>

\* verify_bmm: the block is not mined yet, or never will be.
ConfirmFails ==
  /\ pc = "idle"
  /\ block # None
  /\ ~VerifyBmm(block)
  /\ Poison
  /\ UNCHANGED <<block, mainVars>>

\* connect_block: the header cannot be appended.
HeaderFails ==
  /\ pc = "idle"
  /\ block # None
  /\ VerifyBmm(block)
  /\ ~HeaderAppends(db)
  /\ Poison
  /\ TakeBlock
  /\ UNCHANGED mainVars

CollectFails ==
  /\ pc = "idle"
  /\ block # None
  /\ VerifyBmm(block)
  /\ HeaderAppends(db)
  /\ \E b \in Collected(HeaderConnected(db, block)) : b # None /\ BundleTooHeavy(b)
  /\ Poison
  /\ TakeBlock
  /\ UNCHANGED mainVars

\* Mutant: inputs that are gone are waited for.
ConnectErrorWaits == todo = {} /\ SweepFails(wtxn, Height(wtxn))

\* A transaction whose inputs are gone, or the error of the sweep.
ConnectError ==
  \/ \E t \in todo : ~UtxosExist(wtxn, t)
  \/ todo = {} /\ SweepFails(wtxn, Height(wtxn))

ConnectFails ==
  /\ pc = "body"
  /\ ConnectError
  /\ Poison
  /\ UNCHANGED <<block, mainVars>>

\* A call to the daemon, or to LMDB, that fails and has no effect.
CallFails ==
  /\ CallsMayFail
  /\ pc # "poisoned"
  /\ Poison
  /\ UNCHANGED <<block, mainVars>>

\* A call that the daemon serves although the node never has its answer.
AnswerLost ==
  /\ CallsMayFail
  /\ \/ pc = "bmm" /\ CreateBmmRequest(Hash(cur), cur.prevMain)
     \/ pc = "broadcast" /\ wtxn.bundle # None /\ ReceiveBundle(wtxn.bundle)
  /\ Poison
  /\ UNCHANGED block

\* The process ends, without failures between handlers only, and starts again.
Restart ==
  /\ CallsMayFail \/ pc \in {"idle", "poisoned"}
  /\ wtxn' = None
  /\ mempool' = {}
  /\ block' = None
  /\ cur' = None
  /\ todo' = {}
  /\ pc' = "idle"
  /\ UNCHANGED <<db, mainVars>>

-----------------------------------------------------------------------------

HandlerStep ==
  \/ CreateBmm
  \/ \E t \in Txid : ConnectTransaction(t)
  \/ SweepExpired
  \/ ConnectFails
  \/ BroadcastBundle
  \/ Commit

NodeNext ==
  \/ \E t \in Txid : SubmitTransaction(t)
  \/ AttemptBmm
  \/ ConfirmBmm
  \/ HandlerStep
  \/ ConfirmFails
  \/ HeaderFails
  \/ CollectFails
  \/ CallFails
  \/ AnswerLost
  \/ Restart

Next == NodeNext \/ (MainNext /\ UNCHANGED nodeVars)

\* A handler that started runs on: its thread is scheduled and the HTTP client
\* gives up on a call that is not answered (CallFails).
Spec == Init /\ [][Next]_vars /\ WF_vars(HandlerStep)
=============================================================================
