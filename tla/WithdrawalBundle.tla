-------------------------- MODULE WithdrawalBundle --------------------------
(***************************************************************************)
(* collect_withdrawal_bundle of state/src/lib.rs step by step: what module *)
(* BitNamesState leaves to choice, here with amounts and with the order of *)
(* types/src/types.rs.  Withdrawals are aggregated by destination, sorted, *)
(* and taken from the greatest on.  Sums stay below 2^64.                  *)
(***************************************************************************)
EXTENDS BitNamesState

CONSTANTS
  Amount,               \* bound: values and mainchain fees of withdrawals
  addressRank           \* the order of bitcoin::Address

ASSUME BundleAssumption ==
  /\ Amount \subseteq Nat
  /\ addressRank \in [MainAddress -> Nat]
  /\ \A d, e \in MainAddress : addressRank[d] = addressRank[e] => d = e

VARIABLES
  utxos,                \* the withdrawals in the utxo set
  value, mainFee,       \* of each of them
  list,                 \* aggregated_withdrawals
  taken,                \* how many of them the loop has taken
  bundleOutputs, fee, spentUtxos,
  stage                 \* where the function is

bundleVars == <<utxos, value, mainFee, list, taken, bundleOutputs, fee, spentUtxos, stage>>

BundleInit ==
  /\ utxos \in SUBSET Withdrawals(OutPoint)
  /\ utxos # {}
  /\ value \in [utxos -> Amount]
  /\ mainFee \in [utxos -> Amount]
  /\ list = <<>>
  /\ taken = 0
  /\ bundleOutputs = <<>>
  /\ fee = 0
  /\ spentUtxos = {}
  /\ stage = "sort"

\* Mutant: the fees are added up as the values are.
AggregateAddsFees(dest) ==
  LET spent == {o \in utxos : Output[o].dest = dest}
  IN  [dest |-> dest, value |-> Total(value, spent), mainFee |-> Total(mainFee, spent), spent |-> spent]

\* All values of a destination, and the maximum of its mainchain fees.
Aggregate(dest) ==
  LET spent == {o \in utxos : Output[o].dest = dest}
  IN  [dest    |-> dest,
       value   |-> Total(value, spent),
       mainFee |-> Max({mainFee[o] : o \in spent}),
       spent   |-> spent]

Aggregates == {Aggregate(dest) : dest \in Destinations(utxos)}

(***************************************************************************)
(* Ord::cmp of two aggregates: each of two may be Greater than the other.  *)
(***************************************************************************)
IsGreater(a, b) ==
  /\ a # b
  /\ \/ a.mainFee > b.mainFee
     \/ a.value > b.value
     \/ addressRank[a.dest] > addressRank[b.dest]

IsLess(a, b) == a # b /\ ~IsGreater(a, b)

(***************************************************************************)
(* sort_by_key with Reverse, of the values of a HashMap: an order with no  *)
(* two neighbours that the comparison would swap.  More a sort does not    *)
(* promise for a comparison that is not a total order.                     *)
(***************************************************************************)
NoNeighboursSwap(s) == \A i \in 1..(Len(s) - 1) : ~IsLess(s[i], s[i + 1])

\* Mutant: without Reverse.
SortAscending ==
  /\ stage = "sort"
  /\ \E s \in SetToSeqs(Aggregates) : NoNeighboursSwap(Reverse(s)) /\ list' = s
  /\ stage' = "take"
  /\ UNCHANGED <<utxos, value, mainFee, taken, bundleOutputs, fee, spentUtxos>>

Sort ==
  /\ stage = "sort"
  /\ \E s \in SetToSeqs(Aggregates) : NoNeighboursSwap(s) /\ list' = s
  /\ stage' = "take"
  /\ UNCHANGED <<utxos, value, mainFee, taken, bundleOutputs, fee, spentUtxos>>

LoopGoesOn == taken < Len(list) /\ Len(bundleOutputs) <= MAX_BUNDLE_OUTPUTS

\* Mutant: the outpoints of the aggregate before are replaced.
SpendLast(spent) == spent

SpendToo(spent) == spentUtxos \cup spent

Take ==
  /\ stage = "take"
  /\ LoopGoesOn
  /\ LET aggregated == list[taken + 1]
     IN  /\ bundleOutputs' = Append(bundleOutputs, [value |-> aggregated.value, dest |-> aggregated.dest])
         /\ fee' = fee + aggregated.mainFee
         /\ spentUtxos' = SpendToo(aggregated.spent)
  /\ taken' = taken + 1
  /\ UNCHANGED <<utxos, value, mainFee, list, stage>>

\* Mutant: the number of outputs is checked in the place of the weight.
BundleFitsByCount == Len(bundleOutputs) <= MAX_BUNDLE_OUTPUTS

\* The weight check, of the outputs as they are in the transaction.
Weight ==
  BUNDLE_0_WEIGHT + CountWeight(Len(bundleOutputs))
    + Total([i \in DOMAIN bundleOutputs |-> outputWeight[bundleOutputs[i].dest]], DOMAIN bundleOutputs)

BundleFits == Weight <= MAX_STANDARD_TX_WEIGHT

Build ==
  /\ stage = "take"
  /\ ~LoopGoesOn
  /\ stage' = IF BundleFits THEN "built" ELSE "tooHeavy"
  /\ UNCHANGED <<utxos, value, mainFee, list, taken, bundleOutputs, fee, spentUtxos>>

BundleNext == Sort \/ Take \/ Build

BundleSpec == BundleInit /\ [][BundleNext]_bundleVars

-----------------------------------------------------------------------------

(***************************************************************************)
(* The bundle is one that module BitNamesState lets a block collect, and   *)
(* it is too heavy there exactly when the weight check says so.            *)
(***************************************************************************)
CollectsAsTheStateSays ==
  stage \in {"built", "tooHeavy"} =>
    \E b \in CollectWithdrawalBundle(utxos) :
      /\ ToSet(b) = spentUtxos
      /\ BundleTooHeavy(b) <=> stage = "tooHeavy"

(***************************************************************************)
(* Whatever the order, the bundle pays each destination it takes the whole *)
(* of its withdrawals, and pays nothing that it does not spend.            *)
(***************************************************************************)
PaysWhatItSpends ==
  LET PaidTo(dest) == {i \in DOMAIN bundleOutputs : bundleOutputs[i].dest = dest}
  IN  \A dest \in MainAddress :
        LET mine == {o \in spentUtxos : Output[o].dest = dest}
        IN  IF PaidTo(dest) = {} THEN mine = {}
            ELSE \E i \in PaidTo(dest) :
                   /\ PaidTo(dest) = {i}
                   /\ bundleOutputs[i].value = Total(value, mine)
                   /\ mine = {o \in utxos : Output[o].dest = dest}

(***************************************************************************)
(* The declared fee adds up, over the outputs of the bundle, the greatest  *)
(* fee of the withdrawals behind each: a destination pays it once.         *)
(***************************************************************************)
FeeIsPaidOncePerDestination ==
  fee = Total([i \in DOMAIN bundleOutputs |->
                 Max({mainFee[o] : o \in {p \in spentUtxos : Output[p].dest = bundleOutputs[i].dest}})],
              DOMAIN bundleOutputs)

(***************************************************************************)
(* Where no two aggregates are each greater than the other, none that is   *)
(* left out is greater than one that is taken.  Else it depends on the     *)
(* HashMap, even for two aggregates that are comparable.                   *)
(***************************************************************************)
GreatestTaken ==
  stage \in {"built", "tooHeavy"} /\ (\A a, b \in Aggregates : IsGreater(a, b) => IsLess(b, a)) =>
    \A i \in 1..taken, j \in (taken + 1)..Len(list) : ~IsGreater(list[j], list[i])
=============================================================================
