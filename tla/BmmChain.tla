------------------------------ MODULE BmmChain ------------------------------
(***************************************************************************)
(* What blind merged mining promises, without mempools, handlers, requests *)
(* or restarts: a chain of headers that only grows at its end, each header *)
(* naming its parent and committed to by the mainchain block after the one *)
(* it names.  The mainchain is the sequence of its commitments.            *)
(***************************************************************************)
EXTENDS BitNamesState

VARIABLES
  chain,                \* the headers, from genesis on
  commitments           \* commitments[i] is that of the i-th mainchain block

chainVars == <<chain, commitments>>

Init ==
  /\ chain = <<Genesis>>
  /\ commitments = <<None>>

\* The mainchain commits to any block, or to none.
Mine(hash) ==
  /\ hash \in BlockHash \cup {None}
  /\ commitments' = Append(commitments, hash)
  /\ UNCHANGED chain

Extend(header) ==
  LET tip == chain[Len(chain)]
  IN  /\ header \in Header
      /\ header.prevSide = Hash(tip)
      /\ tip.prevMain < header.prevMain
      /\ header.prevMain < Len(commitments)
      /\ commitments[header.prevMain + 1] = Hash(header)
      /\ chain' = Append(chain, header)
      /\ UNCHANGED commitments

\* The hash and the header are those the step appends: both sets are infinite.
Next ==
  \/ Mine(commitments'[Len(commitments')])
  \/ Extend(chain'[Len(chain')])

Spec == Init /\ [][Next]_chainVars
=============================================================================
