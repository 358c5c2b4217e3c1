---------------------------- MODULE DepositValues ----------------------------
(***************************************************************************)
(* The amounts of get_deposit_outputs (node/src/drivechain.rs).  The       *)
(* mainchain keeps the funds of the sidechain in one output: a deposit     *)
(* spends it and makes a greater one, a bundle that is paid makes a        *)
(* smaller one, the change.  The daemon lists deposits with the total of   *)
(* that output, those of the block the node names as the start included,   *)
(* and the node takes the difference of successive totals for the value of *)
(* a deposit.  Which deposits a block credits is the matter of module Node.*)
(*                                                                         *)
(* A bundle names "D" as the destination of its change (state/src/lib.rs,  *)
(* SIDECHAIN_WTPRIME_RETURN_DEST).  Whether the daemon lists the change    *)
(* among the deposits is its own matter: both are modelled.                *)
(***************************************************************************)
EXTENDS Integers, Sequences, SequencesExt, FiniteSets

CONSTANTS
  DepositAmount,        \* bound: what one deposit adds and one bundle takes
  MaxHeight,            \* bound: the length of the mainchain
  MaxPerBlock,          \* bound: the deposits of one mainchain block
  U64                   \* 2^64: what differences of totals wrap at, more than all satoshis

ASSUME DepositValuesAssumption ==
  /\ DepositAmount \subseteq Nat \ {0}
  /\ MaxHeight \in Nat
  /\ MaxPerBlock \in Nat
  /\ U64 \in Nat \ {0}

VARIABLES
  height,               \* of the mainchain
  funds,                \* the output that holds the funds, now
  deposits,             \* what is listed of it: .block, .total, .value, .before, .change
  connected,            \* the mainchain block the tip of the node names
  start,                \* last_deposit_block of the node, 0 for none
  credited              \* the value of each deposit that is credited

depositVars == <<height, funds, deposits, connected, start, credited>>

DepositInit ==
  /\ height = 0
  /\ funds = 0
  /\ deposits = <<>>
  /\ connected = 0
  /\ start = 0
  /\ credited = <<>>

Mine ==
  /\ height < MaxHeight
  /\ height' = height + 1
  /\ UNCHANGED <<funds, deposits, connected, start, credited>>

\* What is listed is listed in the last block, which the node does not know yet.
HasRoomToList ==
  /\ connected < height
  /\ Cardinality({i \in DOMAIN deposits : deposits[i].block = height}) < MaxPerBlock

\* bound: there are fewer than 2^64 satoshis.
MakeDeposit ==
  /\ HasRoomToList
  /\ \E v \in DepositAmount :
       /\ funds + v < U64
       /\ funds' = funds + v
       /\ deposits' = Append(deposits, [block |-> height, total |-> funds + v,
                                       value |-> v, before |-> funds, change |-> FALSE])
  /\ UNCHANGED <<height, connected, start, credited>>

PayBundle ==
  /\ HasRoomToList
  /\ \E paid \in DepositAmount :
       /\ paid <= funds
       /\ funds' = funds - paid
       /\ \/ UNCHANGED deposits
          \/ deposits' = Append(deposits, [block |-> height, total |-> funds - paid,
                                          value |-> 0, before |-> funds - paid, change |-> TRUE])
  /\ UNCHANGED <<height, connected, start, credited>>

\* listsidechaindepositsbyblock lists the deposits from the start block on.
Listed(deposit, end) == deposit.block \in start..end

\* Mutant: the total is not taken from the deposits that are skipped.
SkipStartForgets(found, deposit) == found

SkipStart(found, deposit) == [found EXCEPT !.lastTotal = deposit.total]

\* A release build wraps; a debug build panics, and no block is connected.
Credit(found, deposit) ==
  [lastTotal |-> deposit.total,
   values    |-> Append(found.values, (deposit.total - found.lastTotal) % U64),
   lastBlock |-> deposit.block]

GetDepositOutputs(end) ==
  FoldLeft(LAMBDA found, deposit :
             IF ~Listed(deposit, end) THEN found
             ELSE IF deposit.block = start THEN SkipStart(found, deposit) ELSE Credit(found, deposit),
           [lastTotal |-> 0, values |-> <<>>, lastBlock |-> start],
           deposits)

\* Mutant: a destination that is no address is passed over.
AddressesParseLoosely(end) == end \in Nat

\* "D" is no address, nor is the difference before it a value: the call ends in
\* an error, or in a panic, and nothing is connected.
AddressesParse(end) ==
  \A i \in DOMAIN deposits :
    Listed(deposits[i], end) /\ deposits[i].block # start => ~deposits[i].change

\* A block of the node that names the mainchain block end.
Connect(end) ==
  /\ end \in (connected + 1)..height
  /\ AddressesParse(end)
  /\ LET found == GetDepositOutputs(end)
     IN  /\ credited' = credited \o found.values
         /\ start' = found.lastBlock
  /\ connected' = end
  /\ UNCHANGED <<height, funds, deposits>>

DepositNext == Mine \/ MakeDeposit \/ PayBundle \/ \E end \in 1..MaxHeight : Connect(end)

DepositSpec == DepositInit /\ [][DepositNext]_depositVars

-----------------------------------------------------------------------------

\* No bundle was paid since the deposit before, or since the beginning.
NothingPaid(i) == deposits[i].before = IF i = 1 THEN 0 ELSE deposits[i - 1].total

(***************************************************************************)
(* Wherever the ranges of successive blocks begin and end, the value of a  *)
(* deposit is what was deposited, exactly where no bundle was paid since   *)
(* the deposit before: what is paid is taken off the next deposit.         *)
(***************************************************************************)
CreditedExactly ==
  /\ Len(credited) = Cardinality({i \in DOMAIN deposits : deposits[i].block <= connected})
  /\ \A i \in DOMAIN credited : credited[i] = deposits[i].value <=> NothingPaid(i)

(***************************************************************************)
(* The chain of the node never gets past a change that is listed: every    *)
(* range that reaches its block, however far beyond it ends, includes it,  *)
(* because the start is never later than what is connected.  What was      *)
(* deposited there, before the bundle was paid or after, is not credited.  *)
(***************************************************************************)
ChangeIsNeverPassed ==
  \A i \in DOMAIN deposits : deposits[i].change =>
    /\ connected < deposits[i].block
    /\ \A j \in DOMAIN credited : deposits[j].block < deposits[i].block
=============================================================================
