--------------------------------- MODULE Cli ---------------------------------
(***************************************************************************)
(* The command line tool (cli/src/main.rs): a process runs bmm attempt,    *)
(* bmm confirm, or bmm generate, which is an attempt, a mainchain block and*)
(* a confirmation; it ends with the first error, and so may another start. *)
(* The mainchain is a regtest one: the tool generates its blocks.  The node*)
(* is neither stopped nor cut off, and wallets submit to it.               *)
(***************************************************************************)
EXTENDS NodeProperties

CONSTANT Client         \* the processes

ASSUME CliAssumption == None \notin Client

VARIABLES
  stage,                \* how far each process is
  caller                \* whose call the node's handler runs, if any's

cliVars == <<stage, caller>>
toolVars == <<vars, cliVars>>

CliTypeOK ==
  /\ TypeOK
  /\ stage \in [Client -> {"idle", "trying", "attempting", "attempted", "mined", "confirming", "failed"}]
  /\ caller \in Client \cup {None}

CliInit ==
  /\ Init
  /\ stage = [c \in Client |-> "idle"]
  /\ caller = None

\* The node runs the handler of a call, or the call has its answer at once.
Calls(c, to) ==
  /\ stage' = [stage EXCEPT ![c] = to]
  /\ caller' = IF pc' \in {"idle", "poisoned"} THEN caller ELSE c

\* The mutex is poisoned: the call panics on lock().unwrap().
CallPanics(c) ==
  /\ stage[c] \in {"idle", "mined"}
  /\ pc = "poisoned"
  /\ stage' = [stage EXCEPT ![c] = "failed"]
  /\ UNCHANGED <<vars, caller>>

\* bmm attempt: the request waits for whoever generates the next block.
AttemptAlone(c) ==
  /\ stage[c] = "idle"
  /\ AttemptBmm
  /\ Calls(c, "trying")

\* bound: the mainchain has room for the block that each process will generate
HasRoom == Len(main) + Cardinality({c \in Client : stage[c] \in {"attempting", "attempted"}}) < MaxMain

\* bmm generate: attempt_bmm
Attempt(c) ==
  /\ stage[c] = "idle"
  /\ HasRoom
  /\ AttemptBmm
  /\ Calls(c, "attempting")

\* bmm generate: generate, which takes a request when there is one.
Generate(c) ==
  /\ stage[c] = "attempted"
  /\ MineBlock
  /\ requests # {} => main'[Len(main')].bmm # None
  /\ stage' = [stage EXCEPT ![c] = "mined"]
  /\ UNCHANGED <<nodeVars, caller>>

\* The call confirm_bmm, which answers at once where no block waits.
CallsConfirm(c) ==
  \/ ConfirmBmm /\ Calls(c, "confirming")
  \/ pc = "idle" /\ block = None /\ UNCHANGED vars /\ Calls(c, "idle")
  \/ (ConfirmFails \/ HeaderFails \/ CollectFails) /\ Calls(c, "failed")

\* bmm generate: confirm_bmm
Confirm(c) == stage[c] = "mined" /\ CallsConfirm(c)

\* bmm confirm, which may be too early, and then poisons the node.
ConfirmAlone(c) == stage[c] = "idle" /\ CallsConfirm(c)

\* A step of the handler, which answers its caller when it is the last one.
Answer ==
  [stage EXCEPT ![caller] = CASE pc' = "poisoned"             -> "failed"
                              [] stage[caller] = "attempting" -> "attempted"
                              [] OTHER                        -> "idle"]

CliHandlerStep ==
  /\ HandlerStep
  /\ IF pc' \in {"idle", "poisoned"}
     THEN stage' = Answer /\ caller' = None
     ELSE UNCHANGED cliVars

WalletSubmits == UNCHANGED cliVars /\ \E t \in Txid : SubmitTransaction(t)

CliNext ==
  \/ CliHandlerStep
  \/ WalletSubmits
  \/ \E c \in Client : \/ CallPanics(c) \/ AttemptAlone(c) \/ ConfirmAlone(c)
                       \/ Attempt(c) \/ Generate(c) \/ Confirm(c)

\* What a process that runs bmm generate does next by itself.
GoesOn(c) ==
  \/ Generate(c)
  \/ Confirm(c)
  \/ stage[c] = "mined" /\ CallPanics(c)

\* A process goes on until it ends, as does a handler; nothing makes one start.
CliSpec ==
  /\ CliInit /\ [][CliNext]_toolVars
  /\ WF_toolVars(CliHandlerStep)
  /\ \A c \in Client : WF_toolVars(GoesOn(c))

-----------------------------------------------------------------------------

\* What waits in the mempool can be connected.
Connectable ==
  /\ \A t \in mempool : UtxosExist(db, t)
  /\ \A t, u \in mempool : t # u => InputSet(t) \cap InputSet(u) = {}

\* No request but that of the block of the handler waits for the next block.
AloneInLine == requests \subseteq {Hash(cur)}

(***************************************************************************)
(* A bmm generate ends with one more connected block, whatever blocks were *)
(* attempted, mined and confirmed, or not, before, and whatever wallets    *)
(* submit meanwhile, if the mempool can be connected, no other process     *)
(* comes in between, and no other request waits for the same block: that of*)
(* an earlier attempt may be the one that is mined, and the node, which    *)
(* replaced that block, is poisoned by the confirmation.                   *)
(***************************************************************************)
GenerateExtends ==
  \A c \in Client, n \in 1..MaxMain :
    stage[c] = "attempting" /\ Len(db.headers) = n /\ AloneInLine ~>
      \/ Len(db.headers) > n
      \/ ~Connectable
      \/ \E d \in Client \ {c} : stage[d] # "idle"

\* The mutex is not fair: who attempts for ever may keep the others out.
AttemptsEnd == <>[](\A c \in Client : stage[c] # "trying")

(***************************************************************************)
(* However many processes run and whatever they do to each other's block,  *)
(* which one may replace while the request of the other is the one that is *)
(* mined, each process ends: none waits for a node that is poisoned.       *)
(***************************************************************************)
GenerateEnds ==
  AttemptsEnd =>
    \A c \in Client : stage[c] \notin {"idle", "failed"} ~> stage[c] \in {"idle", "failed"}
=============================================================================
