----------------------------- MODULE Mainchain -----------------------------
(***************************************************************************)
(* The mainchain daemon, as far as a BitNames node sees it through the RPC *)
(* of node/src/mainchain_client.rs: blocks that may carry one blind merged *)
(* mining (BMM) commitment and some deposits, and the fate of the          *)
(* withdrawal bundles it was handed.  It is external to the repository and *)
(* never reorganises: disconnect_block of the state is a todo!().          *)
(***************************************************************************)
EXTENDS BitNamesState

CONSTANTS
  MaxMain,              \* bound: the length of the mainchain
  MaxDeposits           \* bound: the deposits of one mainchain block

VARIABLES
  main,                 \* the blocks: main[i].bmm, main[i].deposits
  requests,             \* BMM requests that wait for the next block
  received,             \* bundles the daemon was handed
  failed, confirmed     \* what became of them

mainVars == <<main, requests, received, failed, confirmed>>

MainBlock == [bmm : BlockHash \cup {None}, deposits : SUBSET Deposit]

MainTypeOK ==
  /\ main \in Seq(MainBlock) \ {<<>>}
  /\ requests \in SUBSET BlockHash
  /\ received \in SUBSET Bundle
  /\ failed \in SUBSET Bundle
  /\ confirmed \in SUBSET Bundle

MainInit ==
  /\ \E deposits \in SUBSET Deposit :
       /\ Cardinality(deposits) <= MaxDeposits
       /\ main = <<[bmm |-> None, deposits |-> deposits]>>
  /\ requests = {}
  /\ received = {}
  /\ failed = {}
  /\ confirmed = {}

MainDeposits(chain, first, last) == UNION {chain[i].deposits : i \in first..last}

\* At most one request is taken, the others asked for this position: they die.
MineBlock ==
  /\ Len(main) < MaxMain
  /\ \E bmm \in requests \cup {None}, deposits \in SUBSET Deposit :
       /\ Cardinality(deposits) <= MaxDeposits
       /\ deposits \cap MainDeposits(main, 1, Len(main)) = {}
       /\ main' = Append(main, [bmm |-> bmm, deposits |-> deposits])
  /\ requests' = {}
  /\ UNCHANGED <<received, failed, confirmed>>

\* createbmmcriticaldatatx: a request that names an old block is never mined.
CreateBmmRequest(hash, prev) ==
  /\ requests' = IF prev = Len(main) THEN requests \cup {hash} ELSE requests
  /\ UNCHANGED <<main, received, failed, confirmed>>

\* receivewithdrawalbundle
ReceiveBundle(b) ==
  /\ received' = received \cup {b}
  /\ UNCHANGED <<main, requests, failed, confirmed>>

FailBundle ==
  /\ \E b \in received \ (failed \cup confirmed) : failed' = failed \cup {b}
  /\ UNCHANGED <<main, requests, received, confirmed>>

ConfirmBundle ==
  /\ \E b \in received \ (failed \cup confirmed) : confirmed' = confirmed \cup {b}
  /\ UNCHANGED <<main, requests, received, failed>>

MainNext == MineBlock \/ FailBundle \/ ConfirmBundle
=============================================================================
