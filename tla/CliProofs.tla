----------------------------- MODULE CliProofs -----------------------------
(***************************************************************************)
(* Proofs about module Cli: whatever the processes of the tool do to the   *)
(* node is a step of module Node, so what the node keeps true on its own   *)
(* it keeps true beside them, and the tool keeps its types.                *)
(***************************************************************************)
EXTENDS Cli, NodeProofs

CliStep == [CliNext]_toolVars

\* A tool makes calls, lets the mainchain make a block, or has the node go on.
LEMMA StepBesideTools == CliStep => [Next]_vars
<1> SUFFICES ASSUME CliStep PROVE [Next]_vars
  OBVIOUS
<1>1. CASE CliHandlerStep \/ WalletSubmits \/ UNCHANGED toolVars
  BY <1>1 DEF CliHandlerStep, WalletSubmits, Next, NodeNext, toolVars
<1>2. ASSUME NEW c \in Client, CallPanics(c) \/ Attempt(c) \/ AttemptAlone(c) PROVE [Next]_vars
  BY <1>2 DEF CallPanics, Attempt, AttemptAlone, Next, NodeNext
<1>3. ASSUME NEW c \in Client, Generate(c) PROVE [Next]_vars
  BY <1>3 DEF Generate, Next, MainNext
<1>4. ASSUME NEW c \in Client, Confirm(c) \/ ConfirmAlone(c) PROVE [Next]_vars
  BY <1>4 DEF Confirm, ConfirmAlone, CallsConfirm, Next, NodeNext
<1> QED BY <1>1, <1>2, <1>3, <1>4 DEF CliStep, CliNext

Stages == {"idle", "trying", "attempting", "attempted", "mined", "confirming", "failed"}

(***************************************************************************)
(* The handler that runs is that of one caller, who waits for it; no other *)
(* process waits, and none does when no handler runs.                      *)
(***************************************************************************)
CallerInv ==
  /\ caller = None <=> pc \in {"idle", "poisoned"}
  /\ \A c \in Client : stage[c] \in {"trying", "attempting", "confirming"} <=> caller = c
  /\ caller # None =>
       stage[caller] \in IF pc = "bmm" THEN {"trying", "attempting"} ELSE {"confirming"}

CliInv == ChainInv /\ CliTypeOK /\ CallerInv

LEMMA CliInvInit == CliInit => CliInv
BY ChainInvInit, CliAssumption DEF CliInit, Init, CliInv, CliTypeOK, ChainInv, CallerInv

LEMMA CliInvStep == CliInv /\ CliStep => CliInv'
<1> SUFFICES ASSUME CliInv, CliStep PROVE CliInv'
  OBVIOUS
<1>1. ChainInv' /\ TypeOK'
  BY StepBesideTools, ChainInvStep DEF CliInv, ChainInv
<1>2. /\ stage \in [Client -> Stages] /\ caller \in Client \cup {None} /\ None \notin Client
  BY CliAssumption DEF CliInv, CliTypeOK, Stages
<1> USE DEF CallerInv
<1>3. CASE CliHandlerStep
  <2>1. pc \notin {"idle", "poisoned"} /\ caller \in Client
    BY <1>2, <1>3 DEF CliHandlerStep, HandlerStep, CreateBmm, ConnectTransaction, SweepExpired,
       ConnectFails, BroadcastBundle, Commit, CliInv
  <2>2. pc = "bmm" <=> CreateBmm
    BY <1>3 DEF CliHandlerStep, HandlerStep, CreateBmm, ConnectTransaction, SweepExpired,
       ConnectFails, BroadcastBundle, Commit
  <2>3. CASE pc' \in {"idle", "poisoned"}
    <3>1. stage' = Answer /\ caller' = None
      BY <1>3, <2>3 DEF CliHandlerStep
    <3>2. Answer \in {[stage EXCEPT ![caller] = s] : s \in {"idle", "attempted", "failed"}}
      <4> DEFINE after == CASE pc' = "poisoned"             -> "failed"
                            [] stage[caller] = "attempting" -> "attempted"
                            [] OTHER                        -> "idle"
      <4>1. after \in {"idle", "attempted", "failed"}
        OBVIOUS
      <4>2. Answer = [stage EXCEPT ![caller] = after]
        BY DEF Answer
      <4> HIDE DEF after
      <4> QED BY <4>1, <4>2
    <3>3. PICK s \in {"idle", "attempted", "failed"} : stage' = [stage EXCEPT ![caller] = s]
      BY <3>1, <3>2
    <3> QED BY <1>1, <1>2, <2>1, <2>3, <3>1, <3>3 DEF CliInv, CliTypeOK, Stages
  <2>4. CASE pc' \notin {"idle", "poisoned"}
    <3>1. UNCHANGED <<stage, caller>> /\ pc # "bmm" /\ pc' # "bmm"
      BY <1>3, <2>2, <2>4 DEF CliHandlerStep, cliVars, CreateBmm, HandlerStep, ConnectTransaction,
         SweepExpired, ConnectFails, Poison, BroadcastBundle, Commit
    <3> QED BY <1>1, <2>1, <2>4, <3>1 DEF CliInv, CliTypeOK
  <2> QED BY <2>3, <2>4
<1>4. CASE WalletSubmits \/ UNCHANGED toolVars
  <2>1. UNCHANGED <<stage, caller, pc>>
    BY <1>4 DEF WalletSubmits, toolVars, cliVars, vars, nodeVars, SubmitTransaction
  <2> QED BY <1>1, <2>1 DEF CliInv, CliTypeOK
<1>5. ASSUME NEW c \in Client, CallPanics(c) PROVE CliInv'
  <2>1. /\ stage[c] \notin {"trying", "attempting", "confirming"} /\ stage' = [stage EXCEPT ![c] = "failed"]
        /\ UNCHANGED <<caller, pc>>
    BY <1>5 DEF CallPanics, vars, nodeVars
  <2> QED BY <1>1, <1>2, <2>1 DEF CliInv, CliTypeOK, Stages
<1>6. ASSUME NEW c \in Client, Attempt(c) \/ AttemptAlone(c) PROVE CliInv'
  <2>1. PICK s \in {"trying", "attempting"} : stage' = [stage EXCEPT ![c] = s]
    BY <1>6 DEF Attempt, AttemptAlone, Calls
  <2>2. pc = "idle" /\ pc' = "bmm" /\ caller' = c
    BY <1>6 DEF Attempt, AttemptAlone, AttemptBmm, Calls
  <2> QED BY <1>1, <1>2, <2>1, <2>2 DEF CliInv, CliTypeOK, Stages
<1>7. ASSUME NEW c \in Client, Generate(c) PROVE CliInv'
  <2>1. /\ stage[c] = "attempted" /\ stage' = [stage EXCEPT ![c] = "mined"]
        /\ UNCHANGED <<caller, pc>>
    BY <1>7 DEF Generate, nodeVars
  <2> QED BY <1>1, <1>2, <2>1 DEF CliInv, CliTypeOK, Stages
<1>8. ASSUME NEW c \in Client, Confirm(c) \/ ConfirmAlone(c) PROVE CliInv'
  <2>1. stage[c] \in {"idle", "mined"} /\ pc = "idle" /\ caller = None /\ CallsConfirm(c)
    BY <1>8 DEF Confirm, ConfirmAlone, CallsConfirm, ConfirmBmm, ConfirmFails, HeaderFails, CollectFails, CliInv
  <2>2. CASE ConfirmBmm /\ Calls(c, "confirming")
    <3>1. pc' = "body" /\ stage' = [stage EXCEPT ![c] = "confirming"] /\ caller' = c
      BY <2>2 DEF ConfirmBmm, Calls
    <3> QED BY <1>1, <1>2, <2>1, <3>1 DEF CliInv, CliTypeOK, Stages
  <2>3. CASE ~(ConfirmBmm /\ Calls(c, "confirming"))
    <3>1. pc' \in {"idle", "poisoned"}
      BY <2>1, <2>3 DEF CallsConfirm, ConfirmFails, HeaderFails, CollectFails, Poison, vars, nodeVars
    <3>2. PICK s \in {"idle", "failed"} : stage' = [stage EXCEPT ![c] = s] /\ caller' = caller
      BY <2>1, <2>3, <3>1 DEF CallsConfirm, Calls
    <3> QED BY <1>1, <1>2, <2>1, <3>1, <3>2 DEF CliInv, CliTypeOK, Stages
  <2> QED BY <2>2, <2>3
<1> QED BY <1>3, <1>4, <1>5, <1>6, <1>7, <1>8 DEF CliStep, CliNext

(***************************************************************************)
(* Type correctness of the tool's processes and of the node beside them.   *)
(***************************************************************************)
THEOREM CliTypes == CliSpec => []CliTypeOK
<1>1. CliInv => CliTypeOK
  BY DEF CliInv
<1> QED BY <1>1, CliInvInit, CliInvStep, PTL DEF CliSpec, CliStep

(***************************************************************************)
(* However many processes run, of those that wait for the node there is    *)
(* one at most: the one whose call the handler runs, which is the handler  *)
(* of the command it gave.                                                 *)
(***************************************************************************)
THEOREM OneCaller == CliSpec => []CallerInv
<1>1. CliInv => CallerInv
  BY DEF CliInv
<1> QED BY <1>1, CliInvInit, CliInvStep, PTL DEF CliSpec, CliStep
=============================================================================
