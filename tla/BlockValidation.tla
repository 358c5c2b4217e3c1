--------------------------- MODULE BlockValidation ---------------------------
(***************************************************************************)
(* validate_block and validate_body of state/src/lib.rs, which nothing     *)
(* calls: what they would say of the blocks that the node connects without *)
(* them.  The order of the body matters here, so a body is a sequence.     *)
(***************************************************************************)
EXTENDS NodeProperties

AllInputs(body) == FlattenSeq([i \in DOMAIN body |-> Inputs[body[i]]])

\* How many inputs the transactions before the n-th have.
IndexOf(body, n) == Len(AllInputs(SubSeq(body, 1, n - 1)))

\* Mutant: the slice ends where the next one begins.
SliceEndOfInputs(body, n) == IndexOf(body, n) + Len(Inputs[body[n]])

\* The end is the number of inputs, wherever the slice begins.
SliceEnd(body, n) == Len(Inputs[body[n]])

SpentSlice(body, n) == ToSet(SubSeq(AllInputs(body), IndexOf(body, n) + 1, SliceEnd(body, n)))

\* A slice that begins after its end panics.  The height is that of the tip.
ValidateBody(st, body) ==
  /\ ToSet(AllInputs(body)) \subseteq st.utxos
  /\ \A n \in DOMAIN body :
       /\ IndexOf(body, n) <= SliceEnd(body, n)
       /\ ValidateTransactionPure(st, SpentSlice(body, n), Height(st), body[n])

ValidateBlock(st, header, body) ==
  /\ header.prevSide = Hash(Tip(st))
  /\ header.txs = ToSet(body)
  /\ ValidateBody(st, body)

\* A transaction of a wallet: what it spends is one output, and for a name.
SpendsForAName(t) ==
  /\ Len(Inputs[t]) <= 1
  /\ Inputs[t] # <<>> => \E o \in OutputSet(t) : Output[o].type \in {"Reveal", "KeyValue"}

(***************************************************************************)
(* Of a block that is about to be connected and whose transactions are all *)
(* those of wallets and still valid, validate_block accepts the orders in  *)
(* which the only transaction that spends is the last: the order of a      *)
(* HashMap decides, and a block with two reveals is never accepted.  The   *)
(* header is never what it refuses.                                        *)
(***************************************************************************)
OnlyTheLastSpends ==
  /\ pc = "idle" /\ block # None /\ VerifyBmm(block)
  /\ \A t \in block.txs : ValidateTransaction(db, t) /\ SpendsForAName(t)
  => \A body \in SetToSeqs(block.txs) :
       ValidateBlock(db, block, body) <=>
         \A n \in DOMAIN body : n < Len(body) => Inputs[body[n]] = <<>>
=============================================================================
