---------------------------- MODULE AmountProofs ----------------------------
(***************************************************************************)
(* Theorems about the amounts, for every value of the constants.  First    *)
(* what finite sets and the folds over them are made of: the library       *)
(* states induction with an operator for a parameter, here the least       *)
(* counterexample stands in for it.                                        *)
(***************************************************************************)
EXTENDS WithdrawalBundle, DepositValues, FiniteSetTheorems, SequenceTheorems, TLAPS

-----------------------------------------------------------------------------
(* Finite sets.                                                            *)

IsLeast(T, F) == \A U \in F : U \subseteq T => U = T

\* Of sets within a finite one, some set holds no other of them.
LEMMA LeastSubset ==
  ASSUME NEW S, IsFiniteSet(S), NEW F, F \subseteq SUBSET S, F # {}
  PROVE  \E T \in F : IsLeast(T, F)
<1> DEFINE R == StrictSubsetOrdering(S)
<1>1. F \subseteq FiniteSubsetsOf(S)
  BY FS_Subset DEF FiniteSubsetsOf
<1>2. IsWellFoundedOn(R, FiniteSubsetsOf(S))
  BY FS_StrictSubsetOrderingWellFounded
<1>3. PICK T \in F : \A U \in F : ~(<<U, T>> \in R)
  <2> HIDE DEF R
  <2> QED BY <1>1, <1>2, WFMin
<1>4. ASSUME NEW U \in F, U \subseteq T, U # T PROVE FALSE
  <2>1. <<U, T>> \in R
    BY <1>4 DEF StrictSubsetOrdering
  <2> QED BY <1>3, <2>1
<1> QED BY <1>4 DEF IsLeast

\* Max finds the greatest member of a finite set of numbers.
LEMMA MaxOfFinite ==
  ASSUME NEW S \in SUBSET Nat, IsFiniteSet(S), S # {}
  PROVE  Max(S) \in S /\ \A i \in S : i <= Max(S)
<1> DEFINE Above(i) == {j \in S : j > i}
           F == {Above(i) : i \in S}
<1>1. F \subseteq SUBSET S /\ F # {}
  OBVIOUS
<1>2. \E T \in F : IsLeast(T, F)
  <2> HIDE DEF F
  <2> QED BY <1>1, LeastSubset
<1>3. PICK i \in S : \A U \in F : U \subseteq Above(i) => U = Above(i)
  BY <1>2 DEF IsLeast
<1>4. ASSUME NEW j \in S, j > i PROVE FALSE
  <2>1. ASSUME NEW l \in Above(j) PROVE l \in Above(i)
    BY <1>4
  <2>2. j \in Above(i) /\ j \notin Above(j)
    BY <1>4
  <2> QED BY <1>3, <2>1, <2>2
<1>5. \A j \in S : i >= j
  BY <1>4
<1> QED BY <1>5 DEF Max

-----------------------------------------------------------------------------
(* Folds.  MapThenFoldSet takes one member of the set after the other.     *)

\* What a fold makes of s, from what it makes of one member less.
Unfolds(it, s, choose, step, base) ==
  it[s] = IF s = {} THEN base ELSE step[<<choose[s], it[s \ {choose[s]}]>>]

\* There is a function that does so for all subsets of a finite set.
LEMMA FoldExists ==
  ASSUME NEW S, IsFiniteSet(S), NEW D, NEW base \in D, NEW step \in [S \X D -> D],
         NEW choose, \A s \in (SUBSET S) \ {{}} : choose[s] \in s
  PROVE  \E it \in [SUBSET S -> D] : \A s \in SUBSET S : Unfolds(it, s, choose, step, base)
<1> DEFINE N == Cardinality(S)
           Upto(n) == {s \in SUBSET S : Cardinality(s) <= n}
           Less(s) == s \ {choose[s]}
           Found(it, n) == /\ it \in [Upto(n) -> D]
                           /\ \A s \in Upto(n) : Unfolds(it, s, choose, step, base)
           Good == {n \in 0..N : \E it : Found(it, n)}
<1>1. N \in Nat /\ \A s \in SUBSET S : Cardinality(s) \in 0..N /\ IsFiniteSet(s)
  BY FS_CardinalityType, FS_Subset
<1>2. ASSUME NEW s \in SUBSET S, s # {}
      PROVE  choose[s] \in S /\ Less(s) \in SUBSET S /\ Cardinality(Less(s)) = Cardinality(s) - 1
  <2>1. choose[s] \in s
    BY <1>2
  <2> QED BY <1>1, <2>1, FS_RemoveElement
<1>3. 0 \in Good
  <2>1. \A s \in Upto(0) : s = {}
    BY <1>1, FS_EmptySet
  <2>2. Found([s \in Upto(0) |-> base], 0)
    BY <2>1 DEF Unfolds
  <2>3. \E it : Found(it, 0)
    BY <2>2
  <2> HIDE DEF Found
  <2> QED BY <1>1, <2>3
<1>4. ASSUME NEW n \in 0..N, NEW it, Found(it, n), n < N PROVE \E jt : Found(jt, n + 1)
  <2> DEFINE Next1(s) == step[<<choose[s], it[Less(s)]>>]
             jt == [s \in Upto(n + 1) |-> IF s \in Upto(n) THEN it[s] ELSE Next1(s)]
  <2>1. ASSUME NEW s \in Upto(n + 1), s # {} PROVE Less(s) \in Upto(n) /\ Next1(s) \in D
    <3>1. Less(s) \in Upto(n) /\ choose[s] \in S
      BY <1>1, <1>2, <2>1
    <3>2. it[Less(s)] \in D
      BY <3>1, <1>4
    <3> QED BY <3>1, <3>2
  <2>2. Upto(n) \subseteq Upto(n + 1)
    BY <1>1
  <2>3. \A s \in Upto(n + 1) : s \notin Upto(n) => s # {}
    BY <1>1, FS_EmptySet
  <2>4. jt \in [Upto(n + 1) -> D]
    BY <1>4, <2>1, <2>3
  <2>5. ASSUME NEW s \in Upto(n + 1) PROVE Unfolds(jt, s, choose, step, base)
    <3>1. CASE s = {}
      <4>1. s \in Upto(n)
        BY <2>3, <3>1
      <4>2. Unfolds(it, s, choose, step, base)
        BY <4>1, <1>4
      <4> QED BY <3>1, <4>1, <4>2 DEF Unfolds
    <3>2. CASE s # {}
      <4>1. Less(s) \in Upto(n)
        BY <2>1, <3>2
      <4>2. jt[Less(s)] = it[Less(s)]
        BY <4>1, <2>2
      <4>3. jt[s] = Next1(s)
        <5>1. CASE s \in Upto(n)
          <6>1. Unfolds(it, s, choose, step, base)
            BY <5>1, <1>4
          <6> QED BY <5>1, <6>1, <3>2 DEF Unfolds
        <5>2. CASE s \notin Upto(n)
          BY <5>2
        <5> QED BY <5>1, <5>2
      <4> HIDE DEF jt
      <4> QED BY <3>2, <4>2, <4>3 DEF Unfolds
    <3> QED BY <3>1, <3>2
  <2> HIDE DEF jt
  <2>6. Found(jt, n + 1)
    BY <2>4, <2>5
  <2> QED BY <2>6
<1>5. N \in Good
  <2>1. Good \in SUBSET Nat /\ IsFiniteSet(Good)
    <3> HIDE DEF Found
    <3>1. IsFiniteSet(0..N) /\ Good \in SUBSET (0..N)
      BY <1>1, FS_Interval
    <3>2. IsFiniteSet(Good)
      <4> HIDE DEF Good, N
      <4> QED BY <3>1, FS_Subset
    <3> QED BY <1>1, <3>2
  <2>2. Max(Good) \in Good /\ \A n \in Good : n <= Max(Good)
    <3> HIDE DEF Good
    <3> QED BY <1>3, <2>1, MaxOfFinite
  <2>3. Max(Good) < N => Max(Good) + 1 \in Good
    <3> DEFINE n == Max(Good)
    <3>1. n \in 0..N /\ \E it : Found(it, n)
      BY <2>2
    <3> HIDE DEF n, Found
    <3>2. n < N => n + 1 \in 0..N
      BY <1>1, <3>1
    <3>3. n < N => \E jt : Found(jt, n + 1)
      BY <1>4, <3>1
    <3> QED BY <3>2, <3>3 DEF n
  <2>4. Max(Good) \in 0..N
    BY <2>2
  <2> HIDE DEF Good
  <2> QED BY <1>1, <2>2, <2>3, <2>4
<1>6. Upto(N) = SUBSET S
  BY <1>1
<1> HIDE DEF Upto
<1> QED BY <1>5, <1>6

-----------------------------------------------------------------------------
(* Total adds up numbers.                                                  *)

\* The fold that Total is, and the member it takes.
Taken(s) == CHOOSE x \in s : TRUE

Adds(it, f, S) ==
  it = [s \in SUBSET S |->
          IF s = {} THEN 0 ELSE f[Taken(s)] + it[s \ {Taken(s)}]]

Adding(f, S) == CHOOSE it : Adds(it, f, S)

LEMMA TotalAdds ==
  ASSUME NEW f, NEW S
  PROVE  Total(f, S) = Adding(f, S)[S]
BY DEF Total, FoldSet, MapThenFoldSet, Adding, Adds, Taken

\* Numbers to add up.
Numbers(f, S) == IsFiniteSet(S) /\ \A x \in S : f[x] \in Nat

LEMMA AddingExists ==
  ASSUME NEW f, NEW S, Numbers(f, S)
  PROVE  Adds(Adding(f, S), f, S)
<1> DEFINE step == [p \in S \X Nat |-> f[p[1]] + p[2]]
           choose == [s \in (SUBSET S) \ {{}} |-> Taken(s)]
<1>1. step \in [S \X Nat -> Nat]
  BY DEF Numbers
<1>2. \A s \in (SUBSET S) \ {{}} : choose[s] \in s
  BY DEF Taken
<1>3. PICK it \in [SUBSET S -> Nat] : \A s \in SUBSET S : Unfolds(it, s, choose, step, 0)
  <2> HIDE DEF step, choose
  <2> QED BY <1>1, <1>2, FoldExists DEF Numbers
<1>4. ASSUME NEW s \in SUBSET S, s # {}
      PROVE  it[s] = f[Taken(s)] + it[s \ {Taken(s)}]
  <2>1. choose[s] = Taken(s) /\ choose[s] \in S
    BY <1>2, <1>4
  <2>2. it[s] = step[<<choose[s], it[s \ {choose[s]}]>>]
    BY <1>3, <1>4 DEF Unfolds
  <2>3. it[s \ {choose[s]}] \in Nat
    <3> HIDE DEF choose
    <3> QED BY <1>3
  <2> HIDE DEF choose
  <2>4. it[s] = f[choose[s]] + it[s \ {choose[s]}]
    BY <2>1, <2>2, <2>3
  <2> QED BY <2>1, <2>4
<1>5. it[{}] = 0
  BY <1>3 DEF Unfolds
<1>6. Adds(it, f, S)
  <2> HIDE DEF step, choose
  <2> QED BY <1>3, <1>4, <1>5 DEF Adds
<1> QED BY <1>6 DEF Adding

\* One member after the other is added, until none is left.
LEMMA AddingNone ==
  ASSUME NEW f, NEW S, Numbers(f, S)
  PROVE  Adding(f, S)[{}] = 0
<1>1. Adds(Adding(f, S), f, S)
  BY AddingExists
<1>2. {} \in SUBSET S
  OBVIOUS
<1> QED BY <1>1, <1>2 DEF Adds

LEMMA AddingFirst ==
  ASSUME NEW f, NEW S, Numbers(f, S), NEW T, T \in SUBSET S, T # {}
  PROVE  /\ Taken(T) \in T
         /\ f[Taken(T)] \in Nat
         /\ Adding(f, S)[T] = f[Taken(T)] + Adding(f, S)[T \ {Taken(T)}]
<1>1. Adds(Adding(f, S), f, S)
  BY AddingExists
<1>2. \A x \in S : f[x] \in Nat
  BY DEF Numbers
<1> QED BY <1>1, <1>2 DEF Adds, Taken

LEMMA AddingNumber ==
  ASSUME NEW f, NEW S, Numbers(f, S), NEW T \in SUBSET S
  PROVE  Adding(f, S)[T] \in Nat
<1> DEFINE F == {U \in SUBSET S : Adding(f, S)[U] \notin Nat}
<1> SUFFICES ASSUME F # {} PROVE FALSE
  OBVIOUS
<1>1. PICK U \in F : IsLeast(U, F)
  <2>1. F \subseteq SUBSET S /\ IsFiniteSet(S)
    BY DEF Numbers
  <2> HIDE DEF F
  <2> QED BY <2>1, LeastSubset
<1> HIDE DEF F
<1>2. U \in SUBSET S /\ Adding(f, S)[U] \notin Nat
  BY DEF F
<1>3. U # {}
  BY <1>2, AddingNone
<1>4. /\ Taken(U) \in U /\ f[Taken(U)] \in Nat
      /\ Adding(f, S)[U] = f[Taken(U)] + Adding(f, S)[U \ {Taken(U)}]
  BY <1>2, <1>3, AddingFirst
<1>5. U \ {Taken(U)} \in F
  BY <1>2, <1>4 DEF F
<1> QED BY <1>1, <1>4, <1>5 DEF IsLeast

\* Any member may be the first.
LEMMA AddingAny ==
  ASSUME NEW f, NEW S, Numbers(f, S), NEW T \in SUBSET S, NEW x \in T
  PROVE  Adding(f, S)[T] = f[x] + Adding(f, S)[T \ {x}]
<1> DEFINE A(U) == Adding(f, S)[U]
           F == {U \in SUBSET S : \E y \in U : A(U) # f[y] + A(U \ {y})}
<1> SUFFICES ASSUME F # {} PROVE FALSE
  OBVIOUS
<1>1. PICK U \in F : IsLeast(U, F)
  <2>1. F \subseteq SUBSET S /\ IsFiniteSet(S)
    BY DEF Numbers
  <2> HIDE DEF F
  <2> QED BY <2>1, LeastSubset
<1>2. PICK y \in U : A(U) # f[y] + A(U \ {y})
  OBVIOUS
<1>3. PICK z \in U : A(U) = f[z] + A(U \ {z})
  <2>1. U # {} /\ U \in SUBSET S
    BY <1>2
  <2>2. Taken(U) \in U /\ A(U) = f[Taken(U)] + A(U \ {Taken(U)})
    <3> HIDE DEF F
    <3> QED BY <2>1, AddingFirst
  <2> QED BY <2>2
<1>4. z \in U \ {y} /\ y \in U \ {z} /\ (U \ {z}) \ {y} = (U \ {y}) \ {z}
  BY <1>2, <1>3
<1>5. U \ {y} \notin F /\ U \ {z} \notin F
  <2> HIDE DEF F
  <2> QED BY <1>1, <1>4 DEF IsLeast
<1>6. A(U \ {y}) = f[z] + A((U \ {y}) \ {z}) /\ A(U \ {z}) = f[y] + A((U \ {y}) \ {z})
  BY <1>4, <1>5
<1>7. A((U \ {y}) \ {z}) \in Nat /\ f[y] \in Nat /\ f[z] \in Nat
  BY AddingNumber DEF Numbers
<1> HIDE DEF A
<1> QED BY <1>2, <1>3, <1>6, <1>7

\* What is added depends on the numbers in the set only.
LEMMA AddingAgrees ==
  ASSUME NEW f, NEW S, Numbers(f, S), NEW g, NEW R, Numbers(g, R),
         NEW T \in SUBSET S, T \subseteq R, \A x \in T : f[x] = g[x]
  PROVE  Adding(f, S)[T] = Adding(g, R)[T]
<1> DEFINE F == {U \in SUBSET T : Adding(f, S)[U] # Adding(g, R)[U]}
<1> SUFFICES ASSUME F # {} PROVE FALSE
  OBVIOUS
<1>1. PICK U \in F : IsLeast(U, F)
  <2>1. F \subseteq SUBSET S /\ IsFiniteSet(S)
    BY DEF Numbers
  <2> HIDE DEF F
  <2> QED BY <2>1, LeastSubset
<1>2. U \in SUBSET S /\ U \in SUBSET R /\ U \in SUBSET T
  OBVIOUS
<1>3. U # {}
  <2>1. Adding(f, S)[{}] = 0 /\ Adding(g, R)[{}] = 0
    BY AddingNone
  <2> QED BY <2>1
<1> DEFINE x == Taken(U)
<1> HIDE DEF F
<1>4. x \in U /\ Adding(f, S)[U] = f[x] + Adding(f, S)[U \ {x}]
  BY <1>2, <1>3, AddingFirst
<1>5. Adding(g, R)[U] = g[x] + Adding(g, R)[U \ {x}]
  BY <1>2, <1>3, AddingFirst
<1> HIDE DEF x
<1>6. U \ {x} \in F
  BY <1>2, <1>4, <1>5 DEF F
<1> QED BY <1>1, <1>4, <1>6 DEF IsLeast

LEMMA TotalOfNone == \A f : Total(f, {}) = 0
<1> SUFFICES ASSUME NEW f PROVE Total(f, {}) = 0
  OBVIOUS
<1>1. Numbers(f, {})
  BY FS_EmptySet DEF Numbers
<1> QED BY <1>1, TotalAdds, AddingNone

LEMMA TotalNumber ==
  ASSUME NEW f, NEW S, Numbers(f, S)
  PROVE  Total(f, S) \in Nat
BY TotalAdds, AddingNumber

LEMMA TotalSame ==
  ASSUME NEW f, NEW S, Numbers(f, S), NEW g, \A x \in S : f[x] = g[x]
  PROVE  Total(f, S) = Total(g, S)
<1>1. Numbers(g, S)
  BY DEF Numbers
<1>2. Adding(f, S)[S] = Adding(g, S)[S]
  BY <1>1, AddingAgrees
<1> QED BY <1>2, TotalAdds

LEMMA TotalOneMore ==
  ASSUME NEW f, NEW S, NEW x, x \notin S, Numbers(f, S \cup {x})
  PROVE  Total(f, S \cup {x}) = f[x] + Total(f, S)
<1> DEFINE R == S \cup {x}
<1>1. Numbers(f, S)
  <2>1. IsFiniteSet(R) /\ S \subseteq R
    BY DEF Numbers
  <2>2. IsFiniteSet(S)
    <3> HIDE DEF R
    <3> QED BY <2>1, FS_Subset
  <2> QED BY <2>2 DEF Numbers
<1>2. R \ {x} = S
  OBVIOUS
<1>3. Adding(f, R)[R] = f[x] + Adding(f, R)[S]
  <2>1. Numbers(f, R) /\ R \in SUBSET R /\ x \in R
    OBVIOUS
  <2>2. Adding(f, R)[R] = f[x] + Adding(f, R)[R \ {x}]
    <3> HIDE DEF R
    <3> QED BY <2>1, AddingAny
  <2> QED BY <1>2, <2>2
<1>4. Adding(f, R)[S] = Adding(f, S)[S]
  BY <1>1, AddingAgrees
<1> QED BY <1>3, <1>4, TotalAdds

-----------------------------------------------------------------------------
(* The withdrawal bundle.                                                  *)

BundleTyped ==
  /\ utxos \in SUBSET Withdrawals(OutPoint) /\ utxos # {}
  /\ value \in [utxos -> Amount] /\ mainFee \in [utxos -> Amount]
  /\ stage \in {"sort", "take", "built", "tooHeavy"}
  /\ taken \in 0..Len(list) /\ taken <= MAX_BUNDLE_OUTPUTS + 1

ListSorted ==
  IF stage = "sort" THEN list = <<>>
  ELSE list \in SetToSeqs(Aggregates) /\ NoNeighboursSwap(list)

\* What the loop has done is made of the aggregates it has taken, in order.
OutputsTaken == bundleOutputs = [i \in 1..taken |-> [value |-> list[i].value, dest |-> list[i].dest]]
SpentTaken   == spentUtxos = UNION {list[i].spent : i \in 1..taken}
FeeTaken     == fee = Total([i \in 1..taken |-> list[i].mainFee], 1..taken)

LoopEnded ==
  stage \in {"built", "tooHeavy"} => /\ taken = Len(list) \/ taken > MAX_BUNDLE_OUTPUTS
                                     /\ stage = "tooHeavy" <=> ~BundleFits

BundleInv == BundleTyped /\ ListSorted /\ OutputsTaken /\ SpentTaken /\ FeeTaken /\ LoopEnded

Behind(dest) == {o \in utxos : Output[o].dest = dest}

\* The loop bound of collect_withdrawal_bundle is a number.
LEMMA BundleBound == MAX_BUNDLE_OUTPUTS \in Nat
<1> DEFINE room == MAX_STANDARD_TX_WEIGHT - BUNDLE_0_WEIGHT
<1>1. room \in Nat /\ OUTPUT_WEIGHT \in Nat /\ OUTPUT_WEIGHT > 0
  BY ConstantsAssumption
<1> HIDE DEF room
<1>2. room \div OUTPUT_WEIGHT \in Nat
  BY <1>1
<1> QED BY <1>2 DEF MAX_BUNDLE_OUTPUTS, room

\* There are finitely many destinations, each with an amount and a fee.
LEMMA DestinationsType ==
  ASSUME utxos \in SUBSET Withdrawals(OutPoint)
  PROVE  IsFiniteSet(utxos) /\ IsFiniteSet(Destinations(utxos)) /\ Destinations(utxos) \subseteq MainAddress
<1>1. IsFiniteSet(utxos) /\ utxos \subseteq OutPoint
  <2>1. utxos \in SUBSET OutPoint
    BY DEF Withdrawals
  <2> QED BY <2>1, ConstantsAssumption, FS_Subset
<1>2. ASSUME NEW o \in utxos PROVE Output[o].dest \in MainAddress
  <2>1. Output[o] \in Content /\ Output[o].type = "Withdrawal"
    BY ConstantsAssumption DEF Withdrawals
  <2> QED BY <2>1 DEF Content
<1> DEFINE f == [o \in utxos |-> Output[o].dest]
<1>3. f \in Surjection(utxos, Destinations(utxos))
  BY DEF Surjection, Destinations
<1>4. IsFiniteSet(Destinations(utxos))
  <2> HIDE DEF f
  <2> QED BY <1>1, <1>3, FS_Surjection
<1> QED BY <1>1, <1>2, <1>4 DEF Destinations

LEMMA AggregateType ==
  ASSUME BundleInv, NEW dest \in Destinations(utxos)
  PROVE  /\ Aggregate(dest).dest = dest /\ Aggregate(dest).spent = Behind(dest)
         /\ Behind(dest) # {} /\ Behind(dest) \subseteq utxos
         /\ Aggregate(dest).value = Total(value, Behind(dest)) /\ Aggregate(dest).value \in Nat
         /\ Aggregate(dest).mainFee = Max({mainFee[o] : o \in Behind(dest)})
         /\ Aggregate(dest).mainFee \in Nat
<1>1. Behind(dest) # {} /\ Behind(dest) \subseteq utxos
  BY DEF Behind, Destinations
<1>2. IsFiniteSet(Behind(dest))
  BY <1>1, DestinationsType, FS_Subset DEF BundleInv, BundleTyped
<1>3. \A o \in Behind(dest) : value[o] \in Nat /\ mainFee[o] \in Nat
  BY <1>1, BundleAssumption DEF BundleInv, BundleTyped
<1>4. Total(value, Behind(dest)) \in Nat
  BY <1>2, <1>3, TotalNumber DEF Numbers
<1>5. Max({mainFee[o] : o \in Behind(dest)}) \in Nat
  <2> DEFINE S == {mainFee[o] : o \in Behind(dest)}
             f == [o \in Behind(dest) |-> mainFee[o]]
  <2>1. f \in Surjection(Behind(dest), S)
    BY DEF Surjection
  <2>2. S \in SUBSET Nat /\ S # {}
    BY <1>1, <1>3
  <2> HIDE DEF S, f
  <2>3. IsFiniteSet(S)
    BY <1>2, <2>1, FS_Surjection
  <2> QED BY <2>2, <2>3, MaxOfFinite DEF S
<1> QED BY <1>1, <1>4, <1>5 DEF Aggregate, Behind

\* The list holds the aggregate of each destination, once.
LEMMA ListType ==
  ASSUME BundleInv, list \in SetToSeqs(Aggregates)
  PROVE  /\ Len(list) \in Nat /\ Len(list) = Cardinality(Destinations(utxos))
         /\ DOMAIN list = 1..Len(list)
         /\ \A i \in 1..Len(list) : list[i].dest \in Destinations(utxos) /\ list[i] = Aggregate(list[i].dest)
         /\ \A i, j \in 1..Len(list) : list[i].dest = list[j].dest => i = j
<1> DEFINE f == [dest \in Destinations(utxos) |-> Aggregate(dest)]
<1>1. f \in Bijection(Destinations(utxos), Aggregates)
  <2>1. \A d, e \in Destinations(utxos) : Aggregate(d) = Aggregate(e) => d = e
    BY AggregateType
  <2>2. f \in [Destinations(utxos) -> Aggregates]
    BY DEF Aggregates
  <2>3. \A a \in Aggregates : \E d \in Destinations(utxos) : f[d] = a
    BY DEF Aggregates
  <2>4. \A d, e \in Destinations(utxos) : f[d] = f[e] => d = e
    BY <2>1
  <2> HIDE DEF f
  <2>5. f \in Injection(Destinations(utxos), Aggregates)
    BY <2>2, <2>4 DEF Injection, IsInjective
  <2>6. f \in Surjection(Destinations(utxos), Aggregates)
    BY <2>2, <2>3 DEF Surjection
  <2> QED BY <2>5, <2>6 DEF Bijection
<1>2. Cardinality(Aggregates) = Cardinality(Destinations(utxos)) /\ Cardinality(Aggregates) \in Nat
  <2>1. ExistsBijection(Destinations(utxos), Aggregates)
    BY <1>1 DEF ExistsBijection
  <2>2. IsFiniteSet(Destinations(utxos))
    BY DestinationsType DEF BundleInv, BundleTyped
  <2> QED BY <2>1, <2>2, FS_Bijection, FS_CardinalityType
<1> DEFINE n == Cardinality(Aggregates)
<1>3. list \in [1..n -> Aggregates] /\ \A i, j \in 1..n : i # j => list[i] # list[j]
  BY DEF SetToSeqs
<1>4. Len(list) = n
  <2>1. list \in Seq(Aggregates)
    BY <1>2, <1>3
  <2> QED BY <1>2, <1>3, <2>1
<1>5. ASSUME NEW i \in 1..n
      PROVE  list[i].dest \in Destinations(utxos) /\ list[i] = Aggregate(list[i].dest)
  <2>1. PICK d \in Destinations(utxos) : list[i] = Aggregate(d)
    BY <1>3 DEF Aggregates
  <2> QED BY <2>1, AggregateType
<1>6. ASSUME NEW i \in 1..n, NEW j \in 1..n, list[i].dest = list[j].dest PROVE i = j
  BY <1>3, <1>5, <1>6
<1> HIDE DEF n
<1> QED BY <1>2, <1>3, <1>4, <1>5, <1>6 DEF n

LEMMA BundleInvInit == BundleInit => BundleInv
<1> SUFFICES ASSUME BundleInit PROVE BundleInv
  OBVIOUS
<1>1. /\ utxos \in SUBSET Withdrawals(OutPoint) /\ utxos # {}
      /\ value \in [utxos -> Amount] /\ mainFee \in [utxos -> Amount]
      /\ list = <<>> /\ taken = 0 /\ bundleOutputs = <<>> /\ fee = 0 /\ spentUtxos = {} /\ stage = "sort"
  BY DEF BundleInit
<1>2. taken \in 0..Len(list) /\ taken <= MAX_BUNDLE_OUTPUTS + 1 /\ 1..taken = {}
  BY <1>1, BundleBound
<1>3. bundleOutputs = [i \in 1..taken |-> [value |-> list[i].value, dest |-> list[i].dest]]
  BY <1>1, <1>2
<1>4. fee = Total([i \in 1..taken |-> list[i].mainFee], 1..taken)
  BY <1>1, <1>2, TotalOfNone
<1>5. spentUtxos = UNION {list[i].spent : i \in 1..taken}
  BY <1>1, <1>2
<1>6. LoopEnded /\ BundleTyped /\ ListSorted
  BY <1>1, <1>2 DEF LoopEnded, BundleTyped, ListSorted
<1> QED BY <1>3, <1>4, <1>5, <1>6 DEF BundleInv, OutputsTaken, SpentTaken, FeeTaken

LEMMA TakeKeeps == BundleInv /\ Take => BundleInv'
<1> SUFFICES ASSUME BundleInv, Take PROVE BundleInv'
  OBVIOUS
<1> DEFINE next == list[taken + 1]
<1>1. /\ stage = "take" /\ taken < Len(list) /\ Len(bundleOutputs) <= MAX_BUNDLE_OUTPUTS
      /\ bundleOutputs' = Append(bundleOutputs, [value |-> next.value, dest |-> next.dest])
      /\ fee' = fee + next.mainFee /\ spentUtxos' = spentUtxos \cup next.spent
      /\ taken' = taken + 1 /\ UNCHANGED <<utxos, value, mainFee, list, stage>>
  BY DEF Take, LoopGoesOn, SpendToo
<1>2. list \in SetToSeqs(Aggregates) /\ NoNeighboursSwap(list) /\ taken \in 0..Len(list)
  BY <1>1 DEF BundleInv, BundleTyped, ListSorted
<1>3. /\ Len(list) \in Nat
      /\ \A i \in 1..Len(list) : list[i].dest \in Destinations(utxos) /\ list[i] = Aggregate(list[i].dest)
  BY <1>2, ListType
<1>4. taken \in Nat /\ taken' \in 0..Len(list) /\ 1..taken' = (1..taken) \cup {taken + 1}
  BY <1>1, <1>2, <1>3
<1>5. taken' <= MAX_BUNDLE_OUTPUTS + 1
  <2>1. Len(bundleOutputs) = taken
    BY <1>4 DEF BundleInv, OutputsTaken
  <2> QED BY <1>1, <1>4, <2>1, BundleBound
<1>6. bundleOutputs' = [i \in 1..taken' |-> [value |-> list[i].value, dest |-> list[i].dest]]
  <2> DEFINE Out(i) == [value |-> list[i].value, dest |-> list[i].dest]
  <2>1. bundleOutputs = [i \in 1..taken |-> Out(i)]
    BY DEF BundleInv, OutputsTaken
  <2>2. bundleOutputs' = Append(bundleOutputs, Out(taken + 1))
    BY <1>1
  <2> HIDE DEF Out
  <2>3. bundleOutputs' = [i \in 1..(taken + 1) |-> Out(i)]
    BY <1>4, <2>1, <2>2
  <2> QED BY <1>1, <2>3 DEF Out
<1>7. spentUtxos' = UNION {list[i].spent : i \in 1..taken'}
  <2>1. spentUtxos = UNION {list[i].spent : i \in 1..taken}
    BY DEF BundleInv, SpentTaken
  <2> QED BY <1>1, <1>4, <2>1
<1>8. fee' = Total([i \in 1..taken' |-> list[i].mainFee], 1..taken')
  <2> DEFINE f == [i \in 1..taken |-> list[i].mainFee]
             g == [i \in 1..taken' |-> list[i].mainFee]
  <2>1. ASSUME NEW i \in 1..taken' PROVE list[i].mainFee \in Nat
    <3> DEFINE d == list[i].dest
    <3>1. d \in Destinations(utxos) /\ list[i] = Aggregate(d)
      BY <1>3, <1>4
    <3> HIDE DEF d
    <3>2. Aggregate(d).mainFee \in Nat
      BY <3>1, AggregateType
    <3> QED BY <3>1, <3>2
  <2>2. IsFiniteSet(1..taken) /\ IsFiniteSet(1..taken')
    BY <1>1, <1>4, FS_Interval
  <2>3. Numbers(f, 1..taken) /\ Numbers(g, (1..taken) \cup {taken + 1})
    BY <1>4, <2>1, <2>2 DEF Numbers
  <2>4. g[taken + 1] = next.mainFee /\ \A i \in 1..taken : f[i] = g[i]
    BY <1>4
  <2>5. fee = Total(f, 1..taken)
    BY DEF BundleInv, FeeTaken
  <2>6. taken + 1 \notin 1..taken
    BY <1>4
  <2> HIDE DEF f, g
  <2>7. Total(f, 1..taken) = Total(g, 1..taken)
    BY <2>3, <2>4, TotalSame
  <2>8. Total(g, (1..taken) \cup {taken + 1}) = g[taken + 1] + Total(g, 1..taken)
    BY <2>3, <2>6, TotalOneMore
  <2>9. Total(f, 1..taken) \in Nat /\ next.mainFee \in Nat
    BY <1>4, <2>1, <2>3, TotalNumber
  <2>10. fee' = Total(f, 1..taken) + next.mainFee
    BY <1>1, <2>5
  <2>11. Total(g, 1..taken') = next.mainFee + Total(f, 1..taken)
    BY <1>4, <2>4, <2>7, <2>8
  <2>12. fee' = Total(g, 1..taken')
    <3> HIDE DEF next
    <3> QED BY <2>9, <2>10, <2>11
  <2> QED BY <2>12 DEF g
<1> HIDE DEF next
<1>9. /\ utxos' = utxos /\ Aggregates' = Aggregates
      /\ (utxos \in SUBSET Withdrawals(OutPoint) /\ utxos # {})'
      /\ (value \in [utxos -> Amount] /\ mainFee \in [utxos -> Amount])'
  BY <1>1 DEF BundleInv, BundleTyped, Aggregates, Aggregate
<1>10. (NoNeighboursSwap(list))' /\ (list \in SetToSeqs(Aggregates))'
  BY <1>1, <1>2, <1>9 DEF NoNeighboursSwap, IsLess, IsGreater
<1>11. BundleTyped' /\ ListSorted' /\ LoopEnded'
  <2>1. stage' = "take"
    BY <1>1
  <2>2. LoopEnded'
    BY <2>1 DEF LoopEnded
  <2>3. ListSorted'
    BY <2>1, <1>10 DEF ListSorted
  <2>4. (taken \in 0..Len(list))' /\ (taken <= MAX_BUNDLE_OUTPUTS + 1)'
    BY <1>1, <1>4, <1>5
  <2> QED BY <2>1, <2>2, <2>3, <2>4, <1>9 DEF BundleTyped
<1>12. OutputsTaken' /\ SpentTaken' /\ FeeTaken'
  <2>1. list' = list
    BY <1>1
  <2>2. OutputsTaken'
    BY <1>6, <2>1, Zenon DEF OutputsTaken
  <2>3. SpentTaken'
    BY <1>7, <2>1, Zenon DEF SpentTaken
  <2>4. FeeTaken'
    BY <1>8, <2>1, Zenon DEF FeeTaken
  <2> QED BY <2>2, <2>3, <2>4
<1> QED BY <1>11, <1>12 DEF BundleInv

LEMMA BundleInvStep == BundleInv /\ [BundleNext]_bundleVars => BundleInv'
<1> SUFFICES ASSUME BundleInv, [BundleNext]_bundleVars PROVE BundleInv'
  OBVIOUS
<1>1. CASE Sort
  <2>1. /\ stage = "sort" /\ stage' = "take" /\ NoNeighboursSwap(list)' /\ list' \in SetToSeqs(Aggregates)
        /\ UNCHANGED <<utxos, value, mainFee, taken, bundleOutputs, fee, spentUtxos>>
    BY <1>1 DEF Sort, NoNeighboursSwap, IsLess, IsGreater
  <2>2. Aggregates' = Aggregates
    BY <2>1 DEF Aggregates, Aggregate
  <2>3. taken = 0
    BY <2>1 DEF BundleInv, BundleTyped, ListSorted
  <2>4. Len(list') \in Nat
    <3>1. IsFiniteSet(Aggregates)
      <4> DEFINE f == [dest \in Destinations(utxos) |-> Aggregate(dest)]
      <4>1. f \in Surjection(Destinations(utxos), Aggregates)
        BY DEF Surjection, Aggregates
      <4>2. IsFiniteSet(Destinations(utxos))
        BY DestinationsType DEF BundleInv, BundleTyped
      <4> HIDE DEF f
      <4> QED BY <4>1, <4>2, FS_Surjection
    <3>2. Cardinality(Aggregates) \in Nat
      BY <3>1, FS_CardinalityType
    <3>3. list' \in Seq(Aggregates)
      BY <2>1, <3>2 DEF SetToSeqs
    <3> QED BY <3>3
  <2>5. 1..taken = {} /\ taken' \in 0..Len(list')
    BY <2>1, <2>3, <2>4
  <2>6. /\ bundleOutputs' = [i \in 1..taken' |-> [value |-> list'[i].value, dest |-> list'[i].dest]]
        /\ spentUtxos' = UNION {list'[i].spent : i \in 1..taken'}
        /\ fee' = Total([i \in 1..taken' |-> list'[i].mainFee], 1..taken')
    BY <2>1, <2>5, TotalOfNone DEF BundleInv, OutputsTaken, SpentTaken, FeeTaken
  <2>7. OutputsTaken' /\ SpentTaken' /\ FeeTaken'
    BY <2>6 DEF OutputsTaken, SpentTaken, FeeTaken
  <2>8. BundleTyped' /\ ListSorted' /\ LoopEnded'
    BY <2>1, <2>2, <2>5 DEF BundleInv, BundleTyped, ListSorted, LoopEnded
  <2> QED BY <2>7, <2>8 DEF BundleInv
<1>2. CASE Take
  BY <1>2, TakeKeeps
<1>3. CASE Build
  <2>1. Aggregates' = Aggregates
    BY <1>3 DEF Build, Aggregates, Aggregate
  <2>2. /\ stage = "take" /\ stage' = IF BundleFits THEN "built" ELSE "tooHeavy"
        /\ ~(taken < Len(list) /\ Len(bundleOutputs) <= MAX_BUNDLE_OUTPUTS)
        /\ UNCHANGED <<utxos, value, mainFee, list, taken, bundleOutputs, fee, spentUtxos>>
    BY <1>3 DEF Build, LoopGoesOn
  <2>3. Len(list) \in Nat /\ taken \in 0..Len(list) /\ list \in SetToSeqs(Aggregates)
    BY <2>2, ListType DEF BundleInv, BundleTyped, ListSorted
  <2>4. Len(bundleOutputs) = taken
    BY <2>3 DEF BundleInv, OutputsTaken
  <2>5. taken = Len(list) \/ taken > MAX_BUNDLE_OUTPUTS
    BY <2>2, <2>3, <2>4, BundleBound
  <2>9. BundleFits' = BundleFits
    BY <2>2 DEF BundleFits, Weight
  <2>6. NoNeighboursSwap(list)'
    BY <2>2 DEF NoNeighboursSwap, IsLess, IsGreater, BundleInv, ListSorted
  <2>7. BundleTyped' /\ ListSorted' /\ LoopEnded'
    BY <2>1, <2>2, <2>3, <2>4, <2>5, <2>6, <2>9 DEF BundleInv, BundleTyped, ListSorted, LoopEnded
  <2>8. OutputsTaken' /\ SpentTaken' /\ FeeTaken'
    BY <2>2 DEF BundleInv, OutputsTaken, SpentTaken, FeeTaken
  <2> QED BY <2>7, <2>8 DEF BundleInv
<1>4. CASE UNCHANGED bundleVars
  BY <1>4 DEF bundleVars, BundleInv, BundleTyped, ListSorted, OutputsTaken, SpentTaken, FeeTaken, LoopEnded,
    BundleFits, Weight, Aggregates, Aggregate, NoNeighboursSwap, IsLess, IsGreater
<1> QED BY <1>1, <1>2, <1>3, <1>4 DEF BundleNext

\* The loop has done what the aggregates it has taken say.
THEOREM BundleInvariant == BundleSpec => []BundleInv
<1>1. BundleInit => BundleInv
  BY BundleInvInit
<1>2. BundleInv /\ [BundleNext]_bundleVars => BundleInv'
  BY BundleInvStep
<1> QED BY <1>1, <1>2, PTL DEF BundleSpec

-----------------------------------------------------------------------------
(* What the invariant says of the bundle.                                  *)

\* The outputs of the bundle, and what stands behind each.
LEMMA OutputsType ==
  ASSUME BundleInv
  PROVE  /\ taken \in Nat /\ DOMAIN bundleOutputs = 1..taken /\ Len(bundleOutputs) = taken
         /\ \A i \in 1..taken : /\ i \in 1..Len(list)
                                /\ list[i].dest \in Destinations(utxos)
                                /\ list[i] = Aggregate(list[i].dest)
                                /\ bundleOutputs[i].dest = list[i].dest
                                /\ bundleOutputs[i].value = list[i].value
         /\ \A i, j \in 1..taken : list[i].dest = list[j].dest => i = j
         /\ \A i \in 1..taken : Behind(list[i].dest) = {o \in spentUtxos : Output[o].dest = list[i].dest}
         /\ \A o \in spentUtxos : o \in utxos /\ \E i \in 1..taken : Output[o].dest = list[i].dest
<1>1. taken \in 0..Len(list) /\ bundleOutputs = [i \in 1..taken |-> [value |-> list[i].value, dest |-> list[i].dest]]
  BY DEF BundleInv, BundleTyped, OutputsTaken
<1>2. CASE taken = 0
  <2>1. 1..taken = {}
    BY <1>2
  <2> QED BY <1>1, <1>2, <2>1 DEF BundleInv, SpentTaken
<1>3. CASE taken # 0
  <2>1. list \in SetToSeqs(Aggregates)
    BY <1>1, <1>3 DEF BundleInv, BundleTyped, ListSorted
  <2>2. /\ Len(list) \in Nat
        /\ \A i \in 1..Len(list) : list[i].dest \in Destinations(utxos) /\ list[i] = Aggregate(list[i].dest)
        /\ \A i, j \in 1..Len(list) : list[i].dest = list[j].dest => i = j
    BY <2>1, ListType
  <2>3. taken \in Nat /\ \A i \in 1..taken : i \in 1..Len(list)
    BY <1>1, <2>2
  <2>4. ASSUME NEW i \in 1..taken PROVE list[i].spent = Behind(list[i].dest)
    <3> DEFINE d == list[i].dest
    <3>1. d \in Destinations(utxos) /\ list[i] = Aggregate(d)
      BY <2>2, <2>3
    <3> HIDE DEF d
    <3>2. Aggregate(d).spent = Behind(d)
      BY <3>1, AggregateType
    <3> QED BY <3>1, <3>2 DEF d
  <2>5. spentUtxos = UNION {Behind(list[i].dest) : i \in 1..taken}
    BY <2>4 DEF BundleInv, SpentTaken
  <2>6. ASSUME NEW o \in spentUtxos
        PROVE  o \in utxos /\ \E i \in 1..taken : Output[o].dest = list[i].dest
    BY <2>5 DEF Behind
  <2>7. ASSUME NEW i \in 1..taken
        PROVE  Behind(list[i].dest) = {o \in spentUtxos : Output[o].dest = list[i].dest}
    BY <2>5, <2>6 DEF Behind
  <2> QED BY <1>1, <2>2, <2>3, <2>6, <2>7
<1> QED BY <1>2, <1>3

(***************************************************************************)
(* Whatever the order, a bundle pays each destination it takes the whole   *)
(* of its withdrawals, and nothing that it does not spend.                 *)
(***************************************************************************)
THEOREM WithdrawalsPaid == BundleSpec => []PaysWhatItSpends
<1>1. ASSUME BundleInv PROVE PaysWhatItSpends
  <2> DEFINE PaidTo(dest) == {i \in DOMAIN bundleOutputs : bundleOutputs[i].dest = dest}
             SpentFor(dest) == {o \in spentUtxos : Output[o].dest = dest}
  <2>1. ASSUME NEW dest \in MainAddress, PaidTo(dest) = {} PROVE SpentFor(dest) = {}
    BY <1>1, <2>1, OutputsType
  <2>2. ASSUME NEW dest \in MainAddress, PaidTo(dest) # {}
        PROVE  \E i \in PaidTo(dest) : /\ PaidTo(dest) = {i}
                                       /\ bundleOutputs[i].value = Total(value, SpentFor(dest))
                                       /\ SpentFor(dest) = {o \in utxos : Output[o].dest = dest}
    <3>1. PICK i \in 1..taken : i \in PaidTo(dest)
      BY <1>1, <2>2, OutputsType
    <3>2. list[i].dest = dest /\ dest \in Destinations(utxos) /\ list[i] = Aggregate(dest)
      BY <1>1, <3>1, OutputsType
    <3>3. PaidTo(dest) = {i}
      BY <1>1, <3>1, <3>2, OutputsType
    <3>4. SpentFor(dest) = Behind(dest)
      BY <1>1, <3>1, <3>2, OutputsType
    <3>5. bundleOutputs[i].value = list[i].value /\ Aggregate(dest).value = Total(value, Behind(dest))
      BY <1>1, <3>1, <3>2, OutputsType, AggregateType
    <3> QED BY <3>1, <3>2, <3>3, <3>4, <3>5 DEF Behind
  <2> QED BY <2>1, <2>2 DEF PaysWhatItSpends
<1> QED BY <1>1, BundleInvariant, PTL

(***************************************************************************)
(* The fee of a bundle adds up the greatest fee of each destination, which *)
(* pays it once.                                                           *)
(***************************************************************************)
THEOREM FeePaidOnce == BundleSpec => []FeeIsPaidOncePerDestination
<1>1. ASSUME BundleInv PROVE FeeIsPaidOncePerDestination
  <2> DEFINE Highest(dest) == Max({mainFee[o] : o \in {p \in spentUtxos : Output[p].dest = dest}})
             f == [i \in 1..taken |-> list[i].mainFee]
             g == [i \in DOMAIN bundleOutputs |-> Highest(bundleOutputs[i].dest)]
  <2>1. DOMAIN bundleOutputs = 1..taken /\ taken \in Nat
    BY <1>1, OutputsType
  <2>2. ASSUME NEW i \in 1..taken PROVE f[i] \in Nat /\ f[i] = g[i]
    <3> DEFINE d == list[i].dest
    <3>1. /\ d \in Destinations(utxos) /\ list[i] = Aggregate(d) /\ bundleOutputs[i].dest = d
          /\ Behind(d) = {o \in spentUtxos : Output[o].dest = d}
      BY <1>1, OutputsType
    <3>2. g[i] = Highest(d) /\ f[i] = Aggregate(d).mainFee
      BY <2>1, <3>1
    <3> HIDE DEF d, f, g
    <3>3. Aggregate(d).mainFee = Max({mainFee[o] : o \in Behind(d)}) /\ Aggregate(d).mainFee \in Nat
      BY <1>1, <3>1, AggregateType
    <3> QED BY <3>1, <3>2, <3>3
  <2> HIDE DEF f, g
  <2>3. Numbers(f, 1..taken)
    BY <2>1, <2>2, FS_Interval DEF Numbers
  <2>4. Total(f, 1..taken) = Total(g, 1..taken)
    BY <2>2, <2>3, TotalSame
  <2>5. fee = Total(f, 1..taken)
    BY <1>1 DEF BundleInv, FeeTaken, f
  <2> QED BY <2>1, <2>4, <2>5 DEF FeeIsPaidOncePerDestination, g
<1> QED BY <1>1, BundleInvariant, PTL

\* The members of a finite set, in some order.
LEMMA InSomeOrder ==
  ASSUME NEW S, IsFiniteSet(S)
  PROVE  \E b \in SetToSeqs(S) : ToSet(b) = S
<1>1. PICK b : b \in Bijection(1..Cardinality(S), S)
  BY FS_CardinalityType DEF ExistsBijection
<1>2. /\ b \in [1..Cardinality(S) -> S]
      /\ \A i, j \in 1..Cardinality(S) : b[i] = b[j] => i = j
      /\ \A x \in S : \E i \in 1..Cardinality(S) : b[i] = x
  BY <1>1 DEF Bijection, Injection, Surjection, IsInjective
<1>3. b \in SetToSeqs(S)
  BY <1>2 DEF SetToSeqs
<1>4. ToSet(b) = S
  BY <1>2 DEF ToSet
<1> QED BY <1>3, <1>4

\* The outputs of the transaction weigh what the destinations of the bundle do.
LEMMA WeightOfOutputs ==
  ASSUME BundleInv
  PROVE  Total([i \in 1..taken |-> outputWeight[list[i].dest]], 1..taken)
           = Total(outputWeight, {list[i].dest : i \in 1..taken})
<1> DEFINE D(k) == {list[i].dest : i \in 1..k}
           w == [i \in 1..taken |-> outputWeight[list[i].dest]]
           S == {k \in 0..taken : Total(w, 1..k) = Total(outputWeight, D(k))}
<1>1. /\ taken \in Nat
      /\ \A i \in 1..taken : list[i].dest \in MainAddress
      /\ \A i, j \in 1..taken : list[i].dest = list[j].dest => i = j
  <2>1. Destinations(utxos) \subseteq MainAddress
    BY DestinationsType DEF BundleInv, BundleTyped
  <2> QED BY <2>1, OutputsType
<1>2. ASSUME NEW k \in 0..taken PROVE Numbers(w, 1..k) /\ Numbers(outputWeight, D(k)) /\ k \in Nat
  <2>1. k \in Nat /\ k <= taken /\ 1..k \subseteq 1..taken
    BY <1>1
  <2>2. \A i \in 1..k : w[i] \in Nat
    BY <1>1, <2>1, ConstantsAssumption
  <2>3. \A d \in D(k) : outputWeight[d] \in Nat
    BY <1>1, <2>1, ConstantsAssumption
  <2>4. IsFiniteSet(D(k))
    <3> DEFINE f == [i \in 1..k |-> list[i].dest]
    <3>1. f \in Surjection(1..k, D(k))
      BY DEF Surjection
    <3> HIDE DEF f, D
    <3>2. IsFiniteSet(1..k)
      BY <2>1, FS_Interval
    <3> QED BY <3>1, <3>2, FS_Surjection
  <2> HIDE DEF D, w
  <2>5. IsFiniteSet(1..k)
    BY <2>1, FS_Interval
  <2> QED BY <2>1, <2>2, <2>3, <2>4, <2>5 DEF Numbers
<1>3. 0 \in S
  <2>1. 1..0 = {} /\ D(0) = {} /\ 0 \in 0..taken
    BY <1>1
  <2>2. Total(w, {}) = 0 /\ Total(outputWeight, {}) = 0
    <3> HIDE DEF w
    <3> QED BY TotalOfNone
  <2> HIDE DEF D, w
  <2> QED BY <2>1, <2>2
<1>4. ASSUME NEW k \in 1..taken, k - 1 \in S PROVE k \in S
  <2> DEFINE d == list[k].dest
  <2>1. k - 1 \in Nat /\ k \in 0..taken /\ k - 1 \in 0..taken
    BY <1>1
  <2>2. 1..k = (1..(k - 1)) \cup {k} /\ k \notin 1..(k - 1)
    BY <1>1
  <2>3. D(k) = D(k - 1) \cup {d}
    <3> HIDE DEF d
    <3> QED BY <2>2 DEF d
  <2>4. d \notin D(k - 1)
    <3> SUFFICES ASSUME NEW i \in 1..(k - 1), list[i].dest = d PROVE FALSE
      OBVIOUS
    <3>1. i \in 1..taken /\ i # k
      BY <1>1
    <3> QED BY <1>1, <3>1
  <2>5. w[k] = outputWeight[d]
    OBVIOUS
  <2>6. Numbers(w, 1..k) /\ Numbers(outputWeight, D(k))
    BY <1>2, <2>1
  <2>7. Total(w, 1..(k - 1)) = Total(outputWeight, D(k - 1))
    BY <1>4
  <2> HIDE DEF D, w, d
  <2>8. Total(w, 1..k) = w[k] + Total(w, 1..(k - 1))
    BY <2>2, <2>6, TotalOneMore
  <2>9. Total(outputWeight, D(k)) = outputWeight[d] + Total(outputWeight, D(k - 1))
    BY <2>3, <2>4, <2>6, TotalOneMore
  <2> QED BY <2>1, <2>5, <2>7, <2>8, <2>9
<1>5. IsFiniteSet(S) /\ S \in SUBSET Nat
  <2>1. S \in SUBSET (0..taken)
    OBVIOUS
  <2> HIDE DEF S
  <2>2. IsFiniteSet(0..taken)
    BY <1>1, FS_Interval
  <2>3. IsFiniteSet(S)
    BY <2>1, <2>2, FS_Subset
  <2> QED BY <1>1, <2>1, <2>3
<1>6. taken \in S
  <2> DEFINE m == Max(S)
  <2>1. m \in S /\ \A k \in S : k <= m
    <3> HIDE DEF S
    <3> QED BY <1>3, <1>5, MaxOfFinite
  <2>2. m \in 0..taken
    BY <2>1
  <2> HIDE DEF S, m
  <2>3. m < taken => m + 1 \in 1..taken /\ (m + 1) - 1 = m
    BY <1>1, <2>2
  <2>4. m < taken => m + 1 \in S
    BY <1>4, <2>1, <2>3
  <2> QED BY <1>1, <2>1, <2>2, <2>4
<1> HIDE DEF w, D
<1> QED BY <1>6 DEF w, D

(***************************************************************************)
(* The loop makes a bundle that the chain state lets a block collect, and  *)
(* the weight check refuses it where the chain state says that it is too   *)
(* heavy, whatever an output weighs: what BitNamesState leaves to choice   *)
(* covers the algorithm.                                                   *)
(***************************************************************************)
THEOREM CollectedBundle == BundleSpec => []CollectsAsTheStateSays
<1>1. ASSUME BundleInv, stage \in {"built", "tooHeavy"}
      PROVE  \E b \in CollectWithdrawalBundle(utxos) :
               ToSet(b) = spentUtxos /\ (BundleTooHeavy(b) <=> stage = "tooHeavy")
  <2> DEFINE D == {list[i].dest : i \in 1..taken}
             n == Cardinality(Destinations(utxos))
  <2>1. /\ taken \in Nat /\ taken <= n /\ n \in Nat /\ taken <= MAX_BUNDLE_OUTPUTS + 1
        /\ taken = n \/ taken > MAX_BUNDLE_OUTPUTS
        /\ stage = "tooHeavy" <=> ~BundleFits
    <3>1. list \in SetToSeqs(Aggregates) /\ taken \in 0..Len(list)
      BY <1>1 DEF BundleInv, BundleTyped, ListSorted
    <3>2. Len(list) = n /\ n \in Nat
      BY <1>1, <3>1, ListType
    <3> QED BY <1>1, <3>1, <3>2 DEF BundleInv, BundleTyped, LoopEnded
  <2>2. D \subseteq Destinations(utxos) /\ Cardinality(D) = taken
    <3> DEFINE f == [i \in 1..taken |-> list[i].dest]
    <3>1. f \in Bijection(1..taken, D)
      <4>1. \A i, j \in 1..taken : f[i] = f[j] => i = j
        BY <1>1, OutputsType
      <4>2. f \in [1..taken -> D] /\ \A d \in D : \E i \in 1..taken : f[i] = d
        OBVIOUS
      <4> HIDE DEF f, D
      <4>3. f \in Injection(1..taken, D)
        BY <4>1, <4>2 DEF Injection, IsInjective
      <4>4. f \in Surjection(1..taken, D)
        BY <4>2 DEF Surjection
      <4> QED BY <4>3, <4>4 DEF Bijection
    <3>2. D \subseteq Destinations(utxos)
      BY <1>1, OutputsType
    <3> HIDE DEF f, D
    <3>3. ExistsBijection(1..taken, D)
      BY <3>1 DEF ExistsBijection
    <3> QED BY <2>1, <3>2, <3>3, FS_CountingElements
  <2>3. Withdrawals(utxos) = utxos
    BY <1>1 DEF BundleInv, BundleTyped, Withdrawals
  <2>4. {o \in utxos : Output[o].dest \in D} = spentUtxos
    <3>1. ASSUME NEW o \in spentUtxos PROVE o \in utxos /\ Output[o].dest \in D
      BY <1>1, OutputsType
    <3>2. ASSUME NEW o \in utxos, Output[o].dest \in D PROVE o \in spentUtxos
      <4>1. PICK i \in 1..taken : Output[o].dest = list[i].dest
        BY <3>2
      <4>2. o \in Behind(list[i].dest)
        BY <4>1 DEF Behind
      <4> QED BY <1>1, <4>1, <4>2, OutputsType
    <3> QED BY <3>1, <3>2
  <2>5. Destinations(spentUtxos) = D
    <3>1. ASSUME NEW i \in 1..taken PROVE \E o \in spentUtxos : Output[o].dest = list[i].dest
      <4> DEFINE d == list[i].dest
      <4>1. d \in Destinations(utxos) /\ Behind(d) = {o \in spentUtxos : Output[o].dest = d}
        BY <1>1, OutputsType
      <4> HIDE DEF d
      <4>2. Behind(d) # {}
        BY <1>1, <4>1, AggregateType
      <4> QED BY <4>1, <4>2 DEF d
    <3>2. \A o \in spentUtxos : Output[o].dest \in D
      BY <1>1, OutputsType
    <3> QED BY <3>1, <3>2 DEF Destinations
  <2>6. PICK b \in SetToSeqs(spentUtxos) : ToSet(b) = spentUtxos
    <3>1. IsFiniteSet(utxos)
      BY <1>1, DestinationsType DEF BundleInv, BundleTyped
    <3>2. IsFiniteSet(spentUtxos)
      BY <2>4, <3>1, FS_Subset
    <3> QED BY <3>2, InSomeOrder
  <2> HIDE DEF D
  <2>7. Min({n, MAX_BUNDLE_OUTPUTS + 1}) = taken
    <3> HIDE DEF n
    <3>1. taken \in {n, MAX_BUNDLE_OUTPUTS + 1} /\ \A x \in {n, MAX_BUNDLE_OUTPUTS + 1} : taken <= x
      BY <2>1, BundleBound
    <3>2. \A x \in {n, MAX_BUNDLE_OUTPUTS + 1} :
            (\A y \in {n, MAX_BUNDLE_OUTPUTS + 1} : x <= y) => x = taken
      BY <2>1, <3>1, BundleBound
    <3> QED BY <3>1, <3>2 DEF Min
  <2>8. D \in kSubset(taken, Destinations(utxos))
    BY <2>2 DEF kSubset
  <2>9. b \in CollectWithdrawalBundle(utxos)
    BY <2>3, <2>4, <2>6, <2>7, <2>8 DEF CollectWithdrawalBundle
  <2>10. BundleTooHeavy(b) <=> ~BundleFits
    <3> DEFINE w == [i \in 1..taken |-> outputWeight[list[i].dest]]
               v == [i \in DOMAIN bundleOutputs |-> outputWeight[bundleOutputs[i].dest]]
    <3>1. DOMAIN bundleOutputs = 1..taken /\ Len(bundleOutputs) = taken /\ v = w
      BY <1>1, OutputsType
    <3>2. Total(w, 1..taken) = Total(outputWeight, D)
      BY <1>1, WeightOfOutputs DEF D
    <3>3. BundleWeight(b) = BUNDLE_0_WEIGHT + CountWeight(taken) + Total(outputWeight, D)
      BY <2>2, <2>5, <2>6 DEF BundleWeight
    <3> HIDE DEF w
    <3>4. Weight = BUNDLE_0_WEIGHT + CountWeight(taken) + Total(w, 1..taken)
      BY <3>1 DEF Weight
    <3>5. BundleWeight(b) = Weight
      BY <3>2, <3>3, <3>4
    <3>6. Weight \in Nat
      <4>1. Total(outputWeight, D) \in Nat
        <5>1. D \subseteq MainAddress /\ IsFiniteSet(D)
          <6>1. IsFiniteSet(Destinations(utxos)) /\ Destinations(utxos) \subseteq MainAddress
            BY <1>1, DestinationsType DEF BundleInv, BundleTyped
          <6> QED BY <2>2, <6>1, FS_Subset
        <5>2. Numbers(outputWeight, D)
          BY <5>1, ConstantsAssumption DEF Numbers
        <5> QED BY <5>2, TotalNumber
      <4>2. CountWeight(taken) \in Nat
        BY DEF CountWeight
      <4> QED BY <3>3, <3>5, <4>1, <4>2, ConstantsAssumption
    <3> QED BY <3>5, <3>6, ConstantsAssumption DEF BundleTooHeavy, BundleFits
  <2> QED BY <2>1, <2>6, <2>9, <2>10
<1>2. BundleInv => CollectsAsTheStateSays
  BY <1>1 DEF CollectsAsTheStateSays
<1> QED BY <1>2, BundleInvariant, PTL

\* In no respect is a less than b.
AtLeast(a, b) ==
  a.mainFee >= b.mainFee /\ a.value >= b.value /\ addressRank[a.dest] >= addressRank[b.dest]

LEMMA AtLeastTransitive ==
  ASSUME NEW a, NEW b, NEW c,
         \A x \in {a, b, c} :
           x.mainFee \in Nat /\ x.value \in Nat /\ addressRank[x.dest] \in Nat,
         AtLeast(a, b), AtLeast(b, c)
  PROVE  AtLeast(a, c)
<1>1. a.mainFee \in Nat /\ a.value \in Nat /\ addressRank[a.dest] \in Nat
  OBVIOUS
<1>2. b.mainFee \in Nat /\ b.value \in Nat /\ addressRank[b.dest] \in Nat
  OBVIOUS
<1>3. c.mainFee \in Nat /\ c.value \in Nat /\ addressRank[c.dest] \in Nat
  OBVIOUS
<1> QED BY <1>1, <1>2, <1>3 DEF AtLeast

(***************************************************************************)
(* Where no two aggregates are each greater than the other, the comparison *)
(* is an order after all, and the bundle takes the greatest aggregates.    *)
(***************************************************************************)
THEOREM GreatestFirst == BundleSpec => []GreatestTaken
<1>1. ASSUME BundleInv, stage \in {"built", "tooHeavy"},
             \A a, b \in Aggregates : IsGreater(a, b) => IsLess(b, a),
             NEW i \in 1..taken, NEW j \in (taken + 1)..Len(list)
      PROVE  ~IsGreater(list[j], list[i])
  <2>1. list \in SetToSeqs(Aggregates) /\ NoNeighboursSwap(list) /\ taken \in 0..Len(list)
    BY <1>1 DEF BundleInv, BundleTyped, ListSorted
  <2> DEFINE n == Len(list)
  <2>2. /\ n \in Nat
        /\ \A k \in 1..n : list[k].dest \in Destinations(utxos) /\ list[k] = Aggregate(list[k].dest)
        /\ \A k, l \in 1..n : list[k].dest = list[l].dest => k = l
    BY <1>1, <2>1, ListType
  <2>3. ASSUME NEW k \in 1..n
        PROVE  /\ list[k] \in Aggregates
               /\ list[k].mainFee \in Nat /\ list[k].value \in Nat /\ addressRank[list[k].dest] \in Nat
    <3> DEFINE d == list[k].dest
    <3>1. d \in Destinations(utxos) /\ list[k] = Aggregate(d)
      BY <2>2
    <3> HIDE DEF d
    <3>2. Aggregate(d).mainFee \in Nat /\ Aggregate(d).value \in Nat
      BY <1>1, <3>1, AggregateType
    <3>3. addressRank[d] \in Nat
      BY <1>1, <3>1, DestinationsType, BundleAssumption DEF BundleInv, BundleTyped
    <3> QED BY <3>1, <3>2, <3>3 DEF d, Aggregates
  <2>4. ASSUME NEW k \in 1..(n - 1) PROVE AtLeast(list[k], list[k + 1])
    <3>1. k \in 1..n /\ k + 1 \in 1..n /\ k # k + 1
      BY <2>2
    <3>2. list[k] # list[k + 1]
      BY <2>2, <3>1
    <3>3. ~IsLess(list[k], list[k + 1])
      BY <2>1 DEF NoNeighboursSwap
    <3>4. IsGreater(list[k], list[k + 1])
      BY <3>2, <3>3 DEF IsLess
    <3>5. ~IsGreater(list[k + 1], list[k])
      BY <1>1, <2>3, <3>1, <3>4 DEF IsLess
    <3> HIDE DEF n
    <3> QED BY <2>3, <3>1, <3>2, <3>5 DEF AtLeast, IsGreater
  <2> DEFINE S == {k \in i..j : AtLeast(list[i], list[k])}
  <2>5. i \in 1..n /\ j \in 1..n /\ i < j /\ i..j \subseteq 1..n
    BY <1>1, <2>1, <2>2
  <2>6. Max(S) \in S /\ \A k \in S : k <= Max(S)
    <3>1. i \in S
      BY <2>3, <2>5 DEF AtLeast
    <3>2. IsFiniteSet(S)
      <4>1. IsFiniteSet(i..j) /\ S \in SUBSET (i..j)
        BY <2>5, FS_Interval
      <4> HIDE DEF S
      <4> QED BY <4>1, FS_Subset
    <3>3. S \in SUBSET Nat
      BY <2>5
    <3> HIDE DEF S
    <3> QED BY <3>1, <3>2, <3>3, MaxOfFinite
  <2> DEFINE m == Max(S)
  <2>7. m \in i..j /\ AtLeast(list[i], list[m])
    BY <2>6
  <2>8. ASSUME m < j PROVE FALSE
    <3> HIDE DEF m
    <3>1. m \in 1..(n - 1) /\ m + 1 \in i..j /\ m \in 1..n /\ m + 1 \in 1..n
      BY <2>2, <2>5, <2>7, <2>8
    <3>2. AtLeast(list[m], list[m + 1])
      BY <2>4, <3>1
    <3>3. AtLeast(list[i], list[m + 1])
      <4> HIDE DEF n
      <4>1. \A x \in {list[i], list[m], list[m + 1]} :
              x.mainFee \in Nat /\ x.value \in Nat /\ addressRank[x.dest] \in Nat
        BY <2>3, <2>5, <3>1
      <4> QED BY <2>7, <3>2, <4>1, AtLeastTransitive
    <3>4. m + 1 \in S
      BY <3>1, <3>3
    <3> HIDE DEF S
    <3> QED BY <2>6, <3>1, <3>4 DEF m
  <2>9. AtLeast(list[i], list[j])
    <3> HIDE DEF m
    <3>1. m = j
      BY <2>5, <2>7, <2>8
    <3> QED BY <2>7, <3>1
  <2> HIDE DEF n, S, m
  <2> QED BY <2>3, <2>5, <2>9 DEF AtLeast, IsGreater
<1>2. BundleInv => GreatestTaken
  BY <1>1 DEF GreatestTaken
<1> QED BY <1>2, BundleInvariant, PTL

-----------------------------------------------------------------------------
(* The deposits.                                                           *)

\* What get_deposit_outputs has found, and the total and the block of a deposit, if any.
Found == [lastTotal : Nat, values : Seq(Int), lastBlock : Nat]

TotalAt(i) == IF i = 0 THEN 0 ELSE deposits[i].total
BlockAt(i) == IF i = 0 THEN 0 ELSE deposits[i].block

Difference(i) == (deposits[i].total - TotalAt(i - 1)) % U64

Entry == [block : Nat, total : Nat, value : Nat, before : Nat, change : BOOLEAN]

DepositsTyped ==
  /\ height \in Nat /\ connected \in 0..height /\ funds \in 0..(U64 - 1)
  /\ deposits \in Seq(Entry)

\* They are listed by block; a deposit adds to what the entry before has left, a
\* change is what is left of it.
DepositsInOrder ==
  /\ \A i \in DOMAIN deposits :
       /\ deposits[i].block \in 1..height
       /\ deposits[i].change \/ deposits[i].value > 0
       /\ deposits[i].total < U64
       /\ deposits[i].total = deposits[i].before + deposits[i].value
       /\ deposits[i].before <= TotalAt(i - 1)
  /\ \A i, j \in DOMAIN deposits : i <= j => deposits[i].block <= deposits[j].block
  /\ funds <= TotalAt(Len(deposits))

\* Those up to the block the node knows are credited.
CreditedSoFar ==
  /\ credited \in Seq(Int) /\ Len(credited) <= Len(deposits)
  /\ \A i \in DOMAIN deposits : deposits[i].block <= connected <=> i <= Len(credited)
  /\ start = BlockAt(Len(credited))
  /\ \A i \in 1..Len(credited) : credited[i] = Difference(i)

ChangeAhead == \A i \in DOMAIN deposits : deposits[i].change => connected < deposits[i].block

DepositInv == DepositsTyped /\ DepositsInOrder /\ CreditedSoFar /\ ChangeAhead

LEMMA DepositType ==
  ASSUME DepositInv
  PROVE  /\ Len(deposits) \in Nat /\ DOMAIN deposits = 1..Len(deposits)
         /\ \A i \in 1..Len(deposits) : /\ deposits[i].block \in Nat /\ deposits[i].total \in Nat
                                       /\ deposits[i].value \in Nat /\ deposits[i].before \in Nat
         /\ \A i \in 0..Len(deposits) : TotalAt(i) \in Nat /\ BlockAt(i) \in Nat
<1>1. deposits \in Seq(Entry)
  BY DEF DepositInv, DepositsTyped
<1>2. /\ Len(deposits) \in Nat /\ DOMAIN deposits = 1..Len(deposits)
      /\ \A i \in 1..Len(deposits) : deposits[i] \in Entry
  BY <1>1
<1>3. \A i \in 1..Len(deposits) : /\ deposits[i].block \in Nat /\ deposits[i].total \in Nat
                                 /\ deposits[i].value \in Nat /\ deposits[i].before \in Nat
  BY <1>2 DEF Entry
<1>4. \A i \in 0..Len(deposits) : i # 0 => i \in 1..Len(deposits)
  BY <1>2
<1> QED BY <1>2, <1>3, <1>4 DEF TotalAt, BlockAt

LEMMA DepositInvInit == DepositInit => DepositInv
<1> SUFFICES ASSUME DepositInit PROVE DepositInv
  OBVIOUS
<1>1. /\ height = 0 /\ connected = 0 /\ funds = 0 /\ start = 0 /\ deposits = <<>> /\ credited = <<>>
      /\ DOMAIN deposits = {} /\ Len(credited) = 0 /\ Len(deposits) = 0 /\ 1..Len(credited) = {}
  BY DEF DepositInit
<1>2. 0 \in 0..(U64 - 1)
  BY DepositValuesAssumption
<1>3. DepositsTyped
  BY <1>1, <1>2 DEF DepositsTyped
<1>4. DepositsInOrder
  BY <1>1 DEF DepositsInOrder, TotalAt
<1>5. CreditedSoFar /\ ChangeAhead
  BY <1>1 DEF CreditedSoFar, ChangeAhead, BlockAt
<1> QED BY <1>3, <1>4, <1>5 DEF DepositInv

\* A block that lists nothing, and a payment whose change is not listed.
LEMMA NothingListed ==
  ASSUME DepositInv, UNCHANGED <<deposits, connected, start, credited>>,
         height' \in {height, height + 1}, funds' \in 0..funds
  PROVE  DepositInv'
<1>1. /\ height \in Nat /\ connected \in 0..height /\ funds \in 0..(U64 - 1)
      /\ deposits \in Seq(Entry)
  BY DEF DepositInv, DepositsTyped
<1>2. DepositsTyped'
  BY <1>1, DepositValuesAssumption DEF DepositsTyped
<1>3. TotalAt(Len(deposits)) \in Nat /\ \A i : TotalAt(i)' = TotalAt(i) /\ BlockAt(i)' = BlockAt(i)
  <2>1. TotalAt(Len(deposits)) \in Nat
    BY DepositType
  <2> QED BY <2>1 DEF TotalAt, BlockAt
<1>4. DepositsInOrder'
  <2>1. funds' <= funds /\ funds' \in Int
    BY <1>1
  <2>2. funds' <= TotalAt(Len(deposits))
    BY <1>1, <1>3, <2>1 DEF DepositInv, DepositsInOrder
  <2>3. ASSUME NEW i \in DOMAIN deposits PROVE deposits[i].block \in 1..height'
    <3>1. deposits[i].block \in 1..height /\ height \in Nat
      BY <1>1 DEF DepositInv, DepositsInOrder
    <3>2. \A b \in 1..height : b \in 1..height'
      BY <3>1
    <3> QED BY <3>1, <3>2
  <2> QED BY <1>3, <2>2, <2>3 DEF DepositInv, DepositsInOrder
<1>5. CreditedSoFar' /\ ChangeAhead'
  BY <1>3 DEF DepositInv, CreditedSoFar, ChangeAhead, Difference
<1> QED BY <1>2, <1>4, <1>5 DEF DepositInv

\* A deposit, or a change that is listed, in the last block.
LEMMA OneListed ==
  ASSUME DepositInv, connected < height, UNCHANGED <<height, connected, start, credited>>,
         NEW last \in Entry, last.block = height, last.total < U64,
         last.change \/ last.value > 0,
         last.total = last.before + last.value, last.before <= funds,
         funds' = last.total, deposits' = Append(deposits, last)
  PROVE  DepositInv'
<1>1. /\ height \in Nat /\ connected \in 0..height /\ funds \in 0..(U64 - 1) /\ U64 \in Nat
      /\ deposits \in Seq(Entry)
  BY DepositValuesAssumption DEF DepositInv, DepositsTyped
<1>2. last.total \in Nat /\ last.before \in Nat /\ last.value \in Nat
  BY DEF Entry
<1> DEFINE N == Len(deposits)
<1>3. /\ N \in Nat /\ Len(deposits') = N + 1 /\ DOMAIN deposits = 1..N /\ DOMAIN deposits' = 1..(N + 1)
      /\ \A i \in 1..N : deposits'[i] = deposits[i]
      /\ deposits'[N + 1] = last
  BY <1>1
<1>4. DepositsTyped'
  <2>1. deposits' \in Seq(Entry)
    BY <1>1
  <2>2. funds' \in 0..(U64 - 1)
    BY <1>1, <1>2
  <2> QED BY <1>1, <2>1, <2>2 DEF DepositsTyped
<1>5. \A i \in 0..N : TotalAt(i)' = TotalAt(i) /\ BlockAt(i)' = BlockAt(i)
  BY <1>3 DEF TotalAt, BlockAt
<1>6. \A i : i = N + 1 => TotalAt(i)' = last.total
  BY <1>3 DEF TotalAt
<1>7. funds <= TotalAt(N) /\ TotalAt(N) \in Nat
  <2>1. N \in 0..N
    BY <1>3
  <2> QED BY <2>1, DepositType DEF DepositInv, DepositsInOrder
<1>8. DepositsInOrder'
  <2>1. ASSUME NEW i \in 1..(N + 1)
        PROVE  /\ deposits'[i].block \in 1..height
               /\ deposits'[i].change \/ deposits'[i].value > 0
               /\ deposits'[i].total < U64
               /\ deposits'[i].total = deposits'[i].before + deposits'[i].value
               /\ deposits'[i].before <= TotalAt(i - 1)'
    <3>1. CASE i \in 1..N
      <4>1. i - 1 \in 0..N
        BY <1>3, <3>1
      <4> QED BY <1>3, <1>5, <3>1, <4>1 DEF DepositInv, DepositsInOrder
    <3>2. CASE i = N + 1
      <4>1. i - 1 = N /\ N \in 0..N
        BY <1>3, <3>2
      <4>2. deposits'[i] = last /\ TotalAt(i - 1)' = TotalAt(N)
        BY <1>3, <1>5, <3>2, <4>1
      <4>3. last.block \in 1..height /\ last.before <= TotalAt(N)
        BY <1>1, <1>2, <1>7
      <4> QED BY <4>2, <4>3
    <3> QED BY <1>3, <3>1, <3>2
  <2>2. ASSUME NEW i \in 1..(N + 1), NEW j \in 1..(N + 1), i <= j
        PROVE  deposits'[i].block <= deposits'[j].block
    <3>1. CASE j \in 1..N
      <4>1. i \in 1..N
        BY <1>3, <2>2, <3>1
      <4> QED BY <1>3, <2>2, <3>1, <4>1 DEF DepositInv, DepositsInOrder
    <3>2. CASE j = N + 1
      <4>1. deposits'[j].block = height
        BY <1>3, <3>2
      <4> QED BY <2>1, <4>1, <1>1
    <3> QED BY <1>3, <3>1, <3>2
  <2>3. funds' <= TotalAt(Len(deposits))'
    <3>1. TotalAt(Len(deposits))' = last.total
      BY <1>3, <1>6
    <3> QED BY <1>2, <3>1
  <2> QED BY <1>3, <2>1, <2>2, <2>3 DEF DepositsInOrder
<1>9. CreditedSoFar'
  <2>1. /\ Len(credited) \in Nat /\ Len(credited) <= N /\ credited \in Seq(Int)
        /\ \A i \in 1..N : deposits[i].block <= connected <=> i <= Len(credited)
        /\ start = BlockAt(Len(credited)) /\ \A i \in 1..Len(credited) : credited[i] = Difference(i)
    BY <1>3 DEF DepositInv, CreditedSoFar
  <2>2. ASSUME NEW i \in 1..(N + 1) PROVE deposits'[i].block <= connected <=> i <= Len(credited)
    <3>1. CASE i \in 1..N
      BY <1>3, <2>1, <3>1
    <3>2. CASE i = N + 1
      <4>1. deposits'[i].block = height
        BY <1>3, <3>2
      <4> QED BY <1>1, <1>3, <2>1, <3>2, <4>1
    <3> QED BY <1>3, <3>1, <3>2
  <2>3. BlockAt(Len(credited))' = BlockAt(Len(credited))
    BY <1>5, <2>1
  <2>4. ASSUME NEW i \in 1..Len(credited) PROVE Difference(i)' = Difference(i)
    <3>1. i \in 1..N /\ i - 1 \in 0..N
      BY <1>3, <2>1
    <3> QED BY <1>3, <1>5, <3>1 DEF Difference
  <2> QED BY <1>3, <2>1, <2>2, <2>3, <2>4 DEF CreditedSoFar
<1>10. ChangeAhead'
  <2> SUFFICES ASSUME NEW i \in 1..(N + 1), deposits'[i].change PROVE connected < deposits'[i].block
    BY <1>3 DEF ChangeAhead
  <2>1. CASE i \in 1..N
    BY <1>3, <2>1 DEF DepositInv, ChangeAhead
  <2>2. CASE i = N + 1
    BY <1>3, <2>2
  <2> QED BY <1>3, <2>1, <2>2
<1> QED BY <1>4, <1>8, <1>9, <1>10 DEF DepositInv

LEMMA MineKeeps == DepositInv /\ Mine => DepositInv'
<1> SUFFICES ASSUME DepositInv, Mine PROVE DepositInv'
  OBVIOUS
<1>1. UNCHANGED <<funds, deposits, connected, start, credited>> /\ height' = height + 1
  BY DEF Mine
<1>2. funds' \in 0..funds
  BY <1>1 DEF DepositInv, DepositsTyped
<1> QED BY <1>1, <1>2, NothingListed

LEMMA MakeDepositKeeps == DepositInv /\ MakeDeposit => DepositInv'
<1> SUFFICES ASSUME DepositInv, MakeDeposit PROVE DepositInv'
  OBVIOUS
<1> DEFINE last(v) == [block |-> height, total |-> funds + v, value |-> v, before |-> funds, change |-> FALSE]
<1>1. PICK v \in DepositAmount : funds + v < U64 /\ funds' = funds + v /\ deposits' = Append(deposits, last(v))
  BY DEF MakeDeposit
<1>2. connected < height /\ UNCHANGED <<height, connected, start, credited>>
  BY DEF MakeDeposit, HasRoomToList
<1>3. v \in Nat /\ v > 0 /\ height \in Nat /\ funds \in Nat
  BY DepositValuesAssumption DEF DepositInv, DepositsTyped
<1>4. /\ last(v) \in Entry
      /\ last(v).block = height /\ last(v).total = funds + v /\ last(v).value = v /\ last(v).before = funds
  BY <1>3 DEF Entry
<1> HIDE DEF last
<1> QED BY <1>1, <1>2, <1>3, <1>4, OneListed

LEMMA PayBundleKeeps == DepositInv /\ PayBundle => DepositInv'
<1> SUFFICES ASSUME DepositInv, PayBundle PROVE DepositInv'
  OBVIOUS
<1> DEFINE last(p) == [block |-> height, total |-> funds - p, value |-> 0, before |-> funds - p, change |-> TRUE]
<1>1. PICK p \in DepositAmount :
        p <= funds /\ funds' = funds - p /\ (UNCHANGED deposits \/ deposits' = Append(deposits, last(p)))
  BY DEF PayBundle
<1>2. connected < height /\ UNCHANGED <<height, connected, start, credited>>
  BY DEF PayBundle, HasRoomToList
<1>3. p \in Nat /\ height \in Nat /\ funds \in 0..(U64 - 1) /\ U64 \in Nat
  BY DepositValuesAssumption DEF DepositInv, DepositsTyped
<1>4. CASE UNCHANGED deposits
  <2>1. funds' \in 0..funds
    BY <1>1, <1>3
  <2> QED BY <1>2, <1>4, <2>1, NothingListed
<1>5. CASE deposits' = Append(deposits, last(p))
  <2>1. funds - p \in Nat /\ funds - p < U64 /\ funds - p <= funds /\ funds - p = (funds - p) + 0
    BY <1>1, <1>3
  <2>2. /\ last(p) \in Entry /\ last(p).change
        /\ last(p).block = height /\ last(p).total = funds - p
        /\ last(p).value = 0 /\ last(p).before = funds - p
    BY <1>3, <2>1 DEF Entry
  <2> HIDE DEF last
  <2> QED BY <1>1, <1>2, <1>5, <2>1, <2>2, OneListed
<1> QED BY <1>1, <1>4, <1>5

\* One turn of the loop, and where it begins.
Turn(end, found, deposit) ==
  IF ~Listed(deposit, end) THEN found
  ELSE IF deposit.block = start THEN SkipStart(found, deposit) ELSE Credit(found, deposit)

NothingFound == [lastTotal |-> 0, values |-> <<>>, lastBlock |-> start]

Turns(it, end) ==
  it = [s \in SUBSET DOMAIN deposits |->
          IF s = {} THEN NothingFound ELSE Turn(end, it[s \ {Max(s)}], deposits[Max(s)])]

LEMMA LoopTurns ==
  ASSUME NEW end
  PROVE  GetDepositOutputs(end) = (CHOOSE it : Turns(it, end))[DOMAIN deposits]
BY DEF GetDepositOutputs, FoldLeft, MapThenFoldSet, Turns, Turn, NothingFound

LEMMA TurnType ==
  ASSUME DepositInv, NEW end, NEW found \in Found, NEW i \in 1..Len(deposits)
  PROVE  Turn(end, found, deposits[i]) \in Found
<1>1. deposits[i].total \in Nat /\ deposits[i].block \in Nat
  BY DepositType
<1>2. found.lastTotal \in Nat /\ found.values \in Seq(Int) /\ found.lastBlock \in Nat
  BY DEF Found
<1>3. SkipStart(found, deposits[i]) \in Found
  BY <1>1 DEF SkipStart, Found
<1>4. (deposits[i].total - found.lastTotal) % U64 \in Int
  BY <1>1, <1>2, DepositValuesAssumption
<1>5. Append(found.values, (deposits[i].total - found.lastTotal) % U64) \in Seq(Int)
  BY <1>2, <1>4
<1>6. Credit(found, deposits[i]) \in Found
  BY <1>1, <1>5 DEF Credit, Found
<1> QED BY <1>3, <1>6 DEF Turn

\* The loop takes the deposits in the order of the list.
LEMMA LoopInOrder ==
  ASSUME DepositInv, NEW end
  PROVE  \E it : /\ GetDepositOutputs(end) = it[1..Len(deposits)]
                 /\ it[1..0] = NothingFound
                 /\ \A k \in 1..Len(deposits) : it[1..k] = Turn(end, it[1..(k - 1)], deposits[k])
<1> DEFINE S == DOMAIN deposits
           step == [p \in S \X Found |-> Turn(end, p[2], deposits[p[1]])]
           choose == [s \in SUBSET S |-> Max(s)]
<1>1. S = 1..Len(deposits) /\ Len(deposits) \in Nat /\ IsFiniteSet(S)
  BY DepositType, FS_Interval
<1>2. step \in [S \X Found -> Found]
  BY <1>1, TurnType
<1>3. ASSUME NEW s \in (SUBSET S) \ {{}} PROVE choose[s] \in s /\ choose[s] = Max(s)
  <2>1. s \in SUBSET Nat /\ IsFiniteSet(s) /\ s # {}
    BY <1>1, FS_Subset
  <2> QED BY <2>1, MaxOfFinite
<1>4. NothingFound \in Found
  <2>1. start \in Nat
    BY DepositType DEF DepositInv, CreditedSoFar
  <2> QED BY <2>1 DEF NothingFound, Found
<1>5. PICK it \in [SUBSET S -> Found] : \A s \in SUBSET S : Unfolds(it, s, choose, step, NothingFound)
  <2> HIDE DEF step, choose, S
  <2> QED BY <1>1, <1>2, <1>3, <1>4, FoldExists
<1>6. ASSUME NEW s \in SUBSET S, s # {} PROVE it[s] = Turn(end, it[s \ {Max(s)}], deposits[Max(s)])
  <2>1. choose[s] = Max(s) /\ Max(s) \in S
    BY <1>3, <1>6
  <2>2. it[s] = step[<<choose[s], it[s \ {choose[s]}]>>]
    BY <1>5, <1>6 DEF Unfolds
  <2>3. it[s \ {Max(s)}] \in Found
    BY <1>5
  <2> HIDE DEF choose
  <2> QED BY <2>1, <2>2, <2>3
<1>7. it[{}] = NothingFound
  BY <1>5 DEF Unfolds
<1>8. Turns(it, end)
  <2> HIDE DEF step, choose
  <2> QED BY <1>5, <1>6, <1>7 DEF Turns
<1> DEFINE jt == CHOOSE it1 : Turns(it1, end)
<1>9. Turns(jt, end)
  BY <1>8
<1> HIDE DEF jt, step, choose
<1>10. jt[{}] = NothingFound /\ \A s \in SUBSET S : s # {} => jt[s] = Turn(end, jt[s \ {Max(s)}], deposits[Max(s)])
  <2>1. {} \in SUBSET S
    OBVIOUS
  <2> QED BY <1>9, <2>1 DEF Turns
<1>11. GetDepositOutputs(end) = jt[S]
  BY LoopTurns DEF jt
<1>12. ASSUME NEW k \in 1..Len(deposits) PROVE jt[1..k] = Turn(end, jt[1..(k - 1)], deposits[k])
  <2>0. k \in Nat /\ k <= Len(deposits) /\ k >= 1
    BY <1>1
  <2>1. 1..k \in SUBSET S /\ 1..k # {} /\ (1..k) \ {k} = 1..(k - 1)
    <3>1. 1..k \in SUBSET S
      BY <1>1, <2>0
    <3>2. k \in 1..k
      BY <2>0
    <3>3. ASSUME NEW i PROVE i \in (1..k) \ {k} <=> i \in 1..(k - 1)
      BY <2>0
    <3> QED BY <3>1, <3>2, <3>3
  <2>2. Max(1..k) = k
    <3>1. k \in 1..k /\ \A i \in 1..k : i <= k
      BY <2>0
    <3>2. \A i \in 1..k : (\A j \in 1..k : i >= j) => i = k
      BY <2>0
    <3> QED BY <3>1, <3>2 DEF Max
  <2> QED BY <1>10, <2>1, <2>2
<1>13. 1..0 = {}
  OBVIOUS
<1> QED BY <1>1, <1>10, <1>11, <1>12, <1>13

\* The loop credits the deposits after those credited before, up to the block end.
Upto(end, b) ==
  /\ b \in 0..Len(deposits)
  /\ \A i \in 1..Len(deposits) : deposits[i].block <= end <=> i <= b

FoundAt(k) ==
  [lastTotal |-> TotalAt(k),
   values    |-> [j \in 1..(k - Len(credited)) |-> Difference(Len(credited) + j)],
   lastBlock |-> BlockAt(k)]

\* The range of the next block begins with one that is connected.
LEMMA StartIsConnected ==
  ASSUME DepositInv
  PROVE  start \in Nat /\ start <= connected
<1> DEFINE n == Len(credited)
<1>1. connected \in Nat /\ n \in Nat /\ n <= Len(deposits) /\ start = BlockAt(n)
  BY DEF DepositInv, DepositsTyped, CreditedSoFar
<1>2. CASE n = 0
  BY <1>1, <1>2 DEF BlockAt
<1>3. CASE n # 0
  <2>1. n \in 1..Len(deposits) /\ DOMAIN deposits = 1..Len(deposits)
    BY <1>1, <1>3, DepositType
  <2>2. deposits[n].block <= connected /\ deposits[n].block \in Nat
    BY <1>1, <2>1, DepositType DEF DepositInv, CreditedSoFar
  <2> QED BY <1>1, <1>3, <2>2 DEF BlockAt
<1> QED BY <1>2, <1>3

LEMMA LastBefore ==
  ASSUME DepositInv, NEW end \in Nat
  PROVE  \E b : Upto(end, b)
<1> DEFINE N == Len(deposits)
           S == {i \in 0..N : i = 0 \/ deposits[i].block <= end}
           b == Max(S)
<1>1. N \in Nat /\ DOMAIN deposits = 1..N
  BY DepositType
<1>2. b \in S /\ \A i \in S : i <= b
  <2>1. S \in SUBSET (0..N) /\ 0 \in S /\ S \in SUBSET Nat
    BY <1>1
  <2>2. IsFiniteSet(S)
    <3> HIDE DEF S, N
    <3>1. IsFiniteSet(0..N)
      BY <1>1, FS_Interval
    <3> QED BY <2>1, <3>1, FS_Subset
  <2> HIDE DEF S
  <2> QED BY <2>1, <2>2, MaxOfFinite
<1>3. b \in 0..N /\ (b # 0 => deposits[b].block <= end)
  BY <1>2
<1>4. ASSUME NEW i \in 1..N PROVE deposits[i].block <= end <=> i <= b
  <2> HIDE DEF b
  <2>1. deposits[i].block <= end => i <= b
    BY <1>2
  <2>2. ASSUME i <= b PROVE deposits[i].block <= end
    <3>1. b \in 1..N
      BY <1>1, <1>3, <2>2
    <3>2. deposits[i].block <= deposits[b].block
      BY <1>1, <2>2, <3>1 DEF DepositInv, DepositsInOrder
    <3>3. deposits[i].block \in Nat /\ deposits[b].block \in Nat
      BY <3>1, DepositType
    <3> QED BY <1>3, <3>1, <3>2, <3>3
  <2> QED BY <2>1, <2>2
<1> HIDE DEF b
<1> QED BY <1>3, <1>4 DEF Upto

LEMMA LoopCredits ==
  ASSUME DepositInv, NEW end \in Nat, end > connected, NEW b, Upto(end, b)
  PROVE  GetDepositOutputs(end) = FoundAt(b) /\ b >= Len(credited)
<1> DEFINE N == Len(deposits)
           n == Len(credited)
<1>1. /\ N \in Nat /\ DOMAIN deposits = 1..N
      /\ \A i \in 1..N : deposits[i].block \in Nat /\ deposits[i].total \in Nat
      /\ \A i \in 0..N : TotalAt(i) \in Nat /\ BlockAt(i) \in Nat
  BY DepositType
<1>2. /\ n \in Nat /\ n <= N /\ start = BlockAt(n) /\ connected \in Nat
      /\ \A i \in 1..N : deposits[i].block <= connected <=> i <= n
  <2>1. height \in Nat /\ connected \in 0..height
    BY DEF DepositInv, DepositsTyped
  <2>2. credited \in Seq(Int) /\ n <= N /\ start = BlockAt(n)
    BY DEF DepositInv, CreditedSoFar
  <2>3. \A i \in 1..N : deposits[i].block <= connected <=> i <= n
    BY <1>1 DEF DepositInv, CreditedSoFar
  <2> QED BY <2>1, <2>2, <2>3
<1>3. b \in 0..N /\ \A i \in 1..N : deposits[i].block <= end <=> i <= b
  BY DEF Upto
<1>4. n <= b
  <2> SUFFICES ASSUME n > b PROVE FALSE
    BY <1>2, <1>3
  <2>1. n \in 1..N /\ ~(n <= b)
    BY <1>2, <1>3
  <2>2. deposits[n].block <= connected /\ ~(deposits[n].block <= end)
    BY <1>2, <1>3, <2>1
  <2> QED BY <1>1, <1>2, <2>1, <2>2
<1>0. n \in Nat /\ N \in Nat /\ b \in Nat /\ n <= b /\ b <= N
  BY <1>1, <1>2, <1>3, <1>4
<1>5. start \in Nat /\ start <= connected
  <2>1. n = 0 => start = 0
    BY <1>2 DEF BlockAt
  <2>2. n # 0 => n \in 1..N /\ start = deposits[n].block
    BY <1>2 DEF BlockAt
  <2> QED BY <1>1, <1>2, <2>1, <2>2
<1>6. PICK it : /\ GetDepositOutputs(end) = it[1..N]
                /\ it[1..0] = NothingFound
                /\ \A k \in 1..N : it[1..k] = Turn(end, it[1..(k - 1)], deposits[k])
  BY LoopInOrder
<1> DEFINE Skipped(k) == [lastTotal |-> IF k # 0 /\ deposits[k].block = start THEN TotalAt(k) ELSE 0,
                          values |-> <<>>, lastBlock |-> start]
           At(k) == IF k <= n THEN Skipped(k) ELSE IF k <= b THEN FoundAt(k) ELSE FoundAt(b)
\* After the last deposit that was credited before, nothing is found yet.
<1>7. Skipped(n) = FoundAt(n)
  <2>1. 1..(n - n) = {}
    BY <1>2
  <2>2. [j \in 1..(n - n) |-> Difference(n + j)] = <<>>
    BY <2>1
  <2>3. n # 0 => deposits[n].block = start
    BY <1>2 DEF BlockAt
  <2>4. n = 0 => TotalAt(n) = 0
    BY DEF TotalAt
  <2> QED BY <1>2, <2>2, <2>3, <2>4 DEF FoundAt
<1>8. ASSUME NEW k \in 1..N, k <= n PROVE Turn(end, Skipped(k - 1), deposits[k]) = Skipped(k)
  <2>1. deposits[k].block <= start /\ deposits[k].block <= end /\ deposits[k].block \in Nat
    <3>1. n \in 1..N /\ start = deposits[n].block
      BY <1>2, <1>8 DEF BlockAt
    <3>2. deposits[k].block <= deposits[n].block
      BY <1>1, <1>8, <3>1 DEF DepositInv, DepositsInOrder
    <3> QED BY <1>1, <1>2, <1>5, <3>1, <3>2
  <2>2. CASE deposits[k].block = start
    <3>1. Listed(deposits[k], end)
      BY <1>5, <2>1, <2>2 DEF Listed
    <3>2. TotalAt(k) = deposits[k].total
      BY DEF TotalAt
    <3> QED BY <2>2, <3>1, <3>2 DEF Turn, SkipStart
  <2>3. CASE deposits[k].block # start
    <3>1. ~Listed(deposits[k], end)
      BY <1>5, <2>1, <2>3 DEF Listed
    <3>2. k - 1 # 0 => deposits[k - 1].block # start
      <4> SUFFICES ASSUME k - 1 # 0 PROVE deposits[k - 1].block < start
        BY <1>1, <1>5
      <4>1. k - 1 \in 1..N /\ k - 1 <= k
        BY <1>0
      <4>2. deposits[k - 1].block <= deposits[k].block
        BY <1>1, <4>1 DEF DepositInv, DepositsInOrder
      <4>3. deposits[k - 1].block \in Nat
        BY <1>1, <4>1
      <4>4. deposits[k].block \in Nat /\ start \in Nat /\ deposits[k].block < start
        BY <1>5, <2>1, <2>3
      <4> QED BY <4>2, <4>3, <4>4
    <3> QED BY <2>3, <3>1, <3>2 DEF Turn
  <2> QED BY <2>2, <2>3
<1>9. ASSUME NEW k \in 1..N, n < k, k <= b PROVE Turn(end, FoundAt(k - 1), deposits[k]) = FoundAt(k)
  <2>1. deposits[k].block > connected /\ deposits[k].block <= end /\ deposits[k].block \in Nat
    <3> HIDE DEF N, n
    <3>1. deposits[k].block \in Nat /\ connected \in Nat
      BY <1>1, <1>2
    <3>2. k <= b /\ ~(k <= n)
      BY <1>0, <1>9
    <3>3. ~(deposits[k].block <= connected)
      BY <1>2, <3>2, Zenon
    <3>4. deposits[k].block <= end
      BY <1>3, <3>2, Zenon
    <3> QED BY <3>1, <3>3, <3>4
  <2>2. Listed(deposits[k], end) /\ deposits[k].block # start
    BY <1>2, <1>5, <2>1 DEF Listed
  <2> DEFINE m == k - 1 - n
             d(j) == Difference(n + j)
             before == [j \in 1..m |-> d(j)]
             after == [j \in 1..(m + 1) |-> d(j)]
  <2>3. m \in Nat /\ k - n = m + 1 /\ n + (m + 1) = k
    BY <1>2, <1>9
  <2>4. Append(before, d(m + 1)) = after
    <3> HIDE DEF d, m
    <3> QED BY <2>3
  <2>5. d(m + 1) = (deposits[k].total - TotalAt(k - 1)) % U64
    BY <2>3 DEF Difference
  <2>6. TotalAt(k) = deposits[k].total /\ BlockAt(k) = deposits[k].block
    BY DEF TotalAt, BlockAt
  <2>7. /\ FoundAt(k - 1).values = before /\ FoundAt(k - 1).lastTotal = TotalAt(k - 1)
        /\ FoundAt(k) = [lastTotal |-> TotalAt(k), values |-> after, lastBlock |-> BlockAt(k)]
    <3>1. k - n = m + 1
      BY <2>3
    <3> QED BY <3>1 DEF FoundAt
  <2> HIDE DEF d, m, before, after
  <2>8. Turn(end, FoundAt(k - 1), deposits[k]) = Credit(FoundAt(k - 1), deposits[k])
    BY <2>2 DEF Turn
  <2>9. Append(FoundAt(k - 1).values, (deposits[k].total - FoundAt(k - 1).lastTotal) % U64) = after
    BY <2>4, <2>5, <2>7
  <2>10. Credit(FoundAt(k - 1), deposits[k])
          = [lastTotal |-> TotalAt(k), values |-> after, lastBlock |-> BlockAt(k)]
    BY <2>6, <2>9 DEF Credit
  <2> QED BY <2>7, <2>8, <2>10
<1>10. ASSUME NEW k \in 1..N, b < k, NEW found PROVE Turn(end, found, deposits[k]) = found
  <2>1. ~(deposits[k].block <= end)
    BY <1>3, <1>10
  <2> QED BY <2>1, <1>1 DEF Turn, Listed
<1> DEFINE S == {k \in 0..N : it[1..k] = At(k)}
<1>11. 0 \in S
  <2>1. At(0) = Skipped(0)
    BY <1>2
  <2>2. Skipped(0) = NothingFound
    BY DEF NothingFound
  <2> HIDE DEF At, Skipped
  <2> QED BY <1>1, <1>6, <2>1, <2>2
<1>12. ASSUME NEW k \in 1..N, k - 1 \in S PROVE k \in S
  <2>1. it[1..(k - 1)] = At(k - 1) /\ it[1..k] = Turn(end, it[1..(k - 1)], deposits[k])
    BY <1>6, <1>12
  <2> HIDE DEF S, Skipped, N, n
  <2>2. Turn(end, At(k - 1), deposits[k]) = At(k)
    <3>1. CASE k <= n
      <4>1. k - 1 <= n
        BY <1>0, <3>1
      <4> QED BY <1>8, <3>1, <4>1
    <3>2. CASE n < k /\ k <= b
      <4>1. ~(k <= n) /\ (k - 1 <= n => k - 1 = n) /\ k - 1 <= b
        BY <1>0, <3>2
      <4>2. At(k - 1) = FoundAt(k - 1)
        BY <1>7, <4>1
      <4> QED BY <1>9, <3>2, <4>1, <4>2
    <3>3. CASE b < k
      <4>1. ~(k <= n) /\ ~(k <= b) /\ (k - 1 <= b => k - 1 = b) /\ (k - 1 <= n => k - 1 = n /\ n = b)
        BY <1>0, <3>3
      <4>2. At(k - 1) = FoundAt(b) /\ At(k) = FoundAt(b)
        BY <1>7, <4>1
      <4> QED BY <1>10, <3>3, <4>2
    <3> QED BY <1>0, <3>1, <3>2, <3>3
  <2> QED BY <2>1, <2>2 DEF S, N
<1>13. N \in S
  <2>1. IsFiniteSet(0..N) /\ S \in SUBSET (0..N) /\ S \in SUBSET Nat
    <3>1. S \in SUBSET (0..N)
      OBVIOUS
    <3> HIDE DEF S, N
    <3>2. IsFiniteSet(0..N)
      BY <1>0, FS_Interval
    <3> QED BY <1>0, <3>1, <3>2
  <2>2. IsFiniteSet(S)
    <3> HIDE DEF S, N
    <3> QED BY <2>1, FS_Subset
  <2> HIDE DEF S
  <2>3. Max(S) \in S /\ \A k \in S : k <= Max(S)
    BY <1>11, <2>1, <2>2, MaxOfFinite
  <2> DEFINE m == Max(S)
  <2>4. m \in 0..N
    BY <2>1, <2>3
  <2>5. m < N => m + 1 \in S
    <3> HIDE DEF m
    <3>1. m < N => m + 1 \in 1..N /\ (m + 1) - 1 = m
      BY <1>1, <2>4
    <3>2. m \in S
      BY <2>3 DEF m
    <3> QED BY <1>12, <3>1, <3>2
  <2>6. m + 1 \in S => m + 1 <= m
    BY <2>3
  <2> HIDE DEF m
  <2>7. m = N
    <3> HIDE DEF N
    <3> QED BY <1>0, <2>4, <2>5, <2>6
  <2> QED BY <2>3, <2>7 DEF m
<1>14. At(N) = FoundAt(b)
  <2> HIDE DEF Skipped, N, n
  <2>1. N <= n => N = n /\ n = b
    BY <1>0
  <2>2. N <= b => N = b
    BY <1>0
  <2> QED BY <1>7, <2>1, <2>2
<1>15. it[1..N] = At(N)
  BY <1>13
<1> HIDE DEF At
<1> QED BY <1>4, <1>6, <1>14, <1>15

LEMMA ConnectKeeps == DepositInv /\ (\E end \in 1..MaxHeight : Connect(end)) => DepositInv'
<1> SUFFICES ASSUME DepositInv, NEW end \in 1..MaxHeight, Connect(end) PROVE DepositInv'
  OBVIOUS
<1> DEFINE N == Len(deposits)
           n == Len(credited)
<1>1. /\ end \in (connected + 1)..height /\ connected' = end /\ UNCHANGED <<height, funds, deposits>>
      /\ credited' = credited \o GetDepositOutputs(end).values
      /\ start' = GetDepositOutputs(end).lastBlock
      /\ AddressesParse(end)
  BY DEF Connect
<1>2. height \in Nat /\ connected \in 0..height
  BY DEF DepositInv, DepositsTyped
<1>3. end \in Nat /\ end > connected /\ end \in 0..height
  BY <1>1, <1>2
<1>4. PICK b : Upto(end, b)
  BY <1>3, LastBefore
<1>5. GetDepositOutputs(end) = FoundAt(b) /\ n <= b
  BY <1>3, <1>4, LoopCredits
<1>6. N \in Nat /\ DOMAIN deposits = 1..N
  BY DepositType
<1>7. b \in 0..N /\ \A i \in 1..N : deposits[i].block <= end <=> i <= b
  BY <1>4 DEF Upto
<1>8. /\ credited \in Seq(Int) /\ n \in Nat
      /\ \A i \in 1..n : credited[i] = Difference(i)
  BY DEF DepositInv, CreditedSoFar
<1> DEFINE d(j) == Difference(n + j)
           found == [j \in 1..(b - n) |-> d(j)]
<1>9. credited' = credited \o found /\ start' = BlockAt(b)
  <2>1. FoundAt(b).values = found /\ FoundAt(b).lastBlock = BlockAt(b)
    BY DEF FoundAt
  <2> HIDE DEF found
  <2> QED BY <1>1, <1>5, <2>1
<1>10. \A i \in 1..b : Difference(i) \in Int
  <2> SUFFICES ASSUME NEW i \in 1..b PROVE Difference(i) \in Int
    OBVIOUS
  <2>1. i \in 1..N /\ i - 1 \in 0..N
    BY <1>6, <1>7
  <2>2. deposits[i].total \in Nat /\ TotalAt(i - 1) \in Nat
    BY <2>1, DepositType
  <2> QED BY <2>2, DepositValuesAssumption DEF Difference
<1>11. found \in Seq(Int) /\ Len(found) = b - n
  <2>1. b - n \in Nat
    BY <1>5, <1>6, <1>7, <1>8
  <2>2. ASSUME NEW j \in 1..(b - n) PROVE d(j) \in Int
    <3>1. n + j \in 1..b
      BY <1>7, <1>8, <2>1
    <3> QED BY <1>10, <3>1
  <2> HIDE DEF d
  <2> QED BY <2>1, <2>2
<1>12. credited' \in Seq(Int) /\ Len(credited') = b
  <2> HIDE DEF found
  <2>1. credited \o found \in Seq(Int) /\ Len(credited \o found) = Len(credited) + Len(found)
    BY <1>8, <1>11, ConcatProperties
  <2> HIDE DEF n
  <2>2. n + Len(found) = b
    BY <1>5, <1>7, <1>8, <1>11
  <2> QED BY <1>9, <2>1, <2>2 DEF n
<1>13. ASSUME NEW i \in 1..b PROVE credited'[i] = Difference(i)
  <2>1. CASE i <= n
    <3> HIDE DEF found
    <3>1. i \in 1..n
      BY <1>8, <2>1
    <3>2. credited'[i] = credited[i]
      BY <1>8, <1>9, <1>11, <3>1
    <3> QED BY <1>8, <3>1, <3>2
  <2>2. CASE i > n
    <3>1. i - n \in 1..(b - n) /\ n + (i - n) = i
      BY <1>7, <1>8, <2>2
    <3>2. found[i - n] = Difference(i)
      BY <3>1
    <3> HIDE DEF found
    <3>3. credited'[i] = found[i - n]
      BY <1>7, <1>8, <1>9, <1>11, <2>2
    <3> QED BY <3>2, <3>3
  <2> QED BY <1>7, <1>8, <2>1, <2>2
<1>14. DepositsTyped' /\ DepositsInOrder'
  <2>1. \A i : TotalAt(i)' = TotalAt(i)
    BY <1>1 DEF TotalAt
  <2> QED BY <1>1, <1>3, <2>1 DEF DepositInv, DepositsTyped, DepositsInOrder
<1>15. CreditedSoFar'
  <2>1. \A i : BlockAt(i)' = BlockAt(i) /\ Difference(i)' = Difference(i)
    BY <1>1 DEF BlockAt, Difference, TotalAt
  <2>2. start' = BlockAt(Len(credited))'
    BY <1>9, <1>12, <2>1
  <2>3. credited' \in Seq(Int) /\ Len(credited') <= Len(deposits')
    BY <1>1, <1>6, <1>7, <1>12
  <2>4. \A i \in DOMAIN deposits' : deposits'[i].block <= connected' <=> i <= Len(credited')
    BY <1>1, <1>6, <1>7, <1>12
  <2>5. \A i \in 1..Len(credited') : credited'[i] = Difference(i)'
    BY <1>12, <1>13, <2>1
  <2> QED BY <2>2, <2>3, <2>4, <2>5 DEF CreditedSoFar
<1>16. ChangeAhead'
  <2> SUFFICES ASSUME NEW i \in 1..N, deposits[i].change PROVE end < deposits[i].block
    BY <1>1, <1>6 DEF ChangeAhead
  <2>1. connected < deposits[i].block /\ deposits[i].block \in Nat
    BY <1>6, DepositType DEF DepositInv, ChangeAhead
  <2>2. start \in Nat /\ start <= connected
    BY StartIsConnected
  <2>3. deposits[i].block <= end => Listed(deposits[i], end)
    BY <1>2, <1>3, <2>1, <2>2 DEF Listed
  <2>4. deposits[i].block # start
    BY <1>2, <2>1, <2>2
  <2>5. ~Listed(deposits[i], end)
    BY <1>1, <1>6, <2>4 DEF AddressesParse
  <2> QED BY <1>3, <2>1, <2>3, <2>5
<1> QED BY <1>14, <1>15, <1>16 DEF DepositInv

(***************************************************************************)
(* The deposits that are credited are those of the blocks the loop passed, *)
(* in their order, and last_deposit_block is the last of these with any.   *)
(***************************************************************************)
THEOREM DepositInvariant == DepositSpec => []DepositInv
<1>1. DepositInit => DepositInv
  BY DepositInvInit
<1>2. DepositInv /\ [DepositNext]_depositVars => DepositInv'
  <2> SUFFICES ASSUME DepositInv, [DepositNext]_depositVars PROVE DepositInv'
    OBVIOUS
  <2>1. CASE UNCHANGED depositVars
    BY <2>1 DEF depositVars, DepositInv, DepositsTyped, DepositsInOrder, CreditedSoFar, ChangeAhead, TotalAt, BlockAt, Difference
  <2> QED BY <2>1, MineKeeps, MakeDepositKeeps, PayBundleKeeps, ConnectKeeps DEF DepositNext
<1> QED BY <1>1, <1>2, PTL DEF DepositSpec

\* What is credited, in numbers.
(***************************************************************************)
(* Wherever the ranges of successive blocks begin and end, a deposit is    *)
(* credited what was deposited exactly where no bundle was paid since the  *)
(* deposit before.                                                         *)
(***************************************************************************)
THEOREM DepositsExact == DepositSpec => []CreditedExactly
<1>1. ASSUME DepositInv PROVE CreditedExactly
  <2> DEFINE N == Len(deposits)
             n == Len(credited)
  <2>1. /\ N \in Nat /\ DOMAIN deposits = 1..N
        /\ \A i \in 1..N : /\ deposits[i].block \in Nat /\ deposits[i].total \in Nat
                           /\ deposits[i].value \in Nat /\ deposits[i].before \in Nat
        /\ \A i \in 0..N : TotalAt(i) \in Nat /\ BlockAt(i) \in Nat
    BY <1>1, DepositType, Zenon
  <2>2. /\ n \in Nat /\ n <= N /\ DOMAIN credited = 1..n
        /\ \A i \in 1..N : deposits[i].block <= connected <=> i <= n
        /\ \A i \in 1..n : credited[i] = Difference(i)
    BY <1>1, <2>1 DEF DepositInv, CreditedSoFar
  <2>3. n = Cardinality({i \in DOMAIN deposits : deposits[i].block <= connected})
    <3>1. {i \in DOMAIN deposits : deposits[i].block <= connected} = 1..n
      BY <2>1, <2>2
    <3> HIDE DEF n
    <3>2. Cardinality(1..n) = n
      BY <2>2, FS_Interval
    <3> QED BY <3>1, <3>2
  <2>4. ASSUME NEW i \in 1..n PROVE credited[i] = deposits[i].value <=> NothingPaid(i)
    <3>1. i \in 1..N /\ i - 1 \in 0..N /\ (i - 1 # 0 => i - 1 \in 1..N)
      BY <2>1, <2>2
    <3>0. ~deposits[i].change
      <4>1. deposits[i].block \in Nat /\ connected \in Nat
        BY <1>1, <2>1, <3>1 DEF DepositInv, DepositsTyped
      <4>2. deposits[i].block <= connected
        BY <2>2, <3>1
      <4> QED BY <1>1, <2>1, <3>1, <4>1, <4>2 DEF DepositInv, ChangeAhead
    <3>2. /\ deposits[i].value > 0 /\ deposits[i].total < U64
          /\ deposits[i].total = deposits[i].before + deposits[i].value
          /\ deposits[i].before <= TotalAt(i - 1)
      BY <1>1, <2>1, <3>0, <3>1 DEF DepositInv, DepositsInOrder
    <3>3. TotalAt(i - 1) < U64
      <4>1. i - 1 # 0 => deposits[i - 1].total < U64
        BY <1>1, <2>1, <3>1 DEF DepositInv, DepositsInOrder
      <4> QED BY <4>1, DepositValuesAssumption DEF TotalAt
    <3>4. Difference(i) = deposits[i].value <=> deposits[i].before = TotalAt(i - 1)
      <4>1. /\ deposits[i].total \in Nat /\ deposits[i].before \in Nat /\ deposits[i].value \in Nat
            /\ TotalAt(i - 1) \in Nat
        BY <2>1, <3>1
      <4>2. (deposits[i].total - TotalAt(i - 1)) % U64 = deposits[i].value <=> deposits[i].before = TotalAt(i - 1)
        <5> DEFINE total == deposits[i].total
                   before == deposits[i].before
                   added == deposits[i].value
                   last == TotalAt(i - 1)
        <5>1. /\ total \in Nat /\ before \in Nat /\ added \in Nat /\ last \in Nat
              /\ added > 0 /\ total = before + added
              /\ before <= last /\ total < U64 /\ last < U64
          BY <3>2, <3>3, <4>1
        <5> HIDE DEF total, before, added, last
        <5>2. U64 \in Nat \ {0}
          BY DepositValuesAssumption
        <5>3. (total - last) % U64 = added <=> before = last
          <6>1. CASE last <= total
            <7>1. total - last \in Nat /\ total - last < U64
              BY <5>1, <5>2, <6>1
            <7>2. (total - last) % U64 = total - last
              BY <5>2, <7>1
            <7>3. total - last = added <=> before = last
              BY <5>1
            <7> QED BY <7>2, <7>3
          <6>2. CASE last > total
            <7>1. total - last + U64 \in 0..(U64 - 1)
              BY <5>1, <5>2, <6>2
            <7>2. (total - last) % U64 = total - last + U64
              BY <5>1, <5>2, <7>1
            <7>3. total - last + U64 # added /\ before # last
              BY <5>1, <5>2, <6>2
            <7> QED BY <7>2, <7>3
          <6> QED BY <5>1, <6>1, <6>2
        <5> QED BY <5>3 DEF total, before, added, last
      <4> QED BY <4>2 DEF Difference
    <3>5. TotalAt(i - 1) = IF i = 1 THEN 0 ELSE deposits[i - 1].total
      BY DEF TotalAt
    <3> QED BY <2>2, <3>4, <3>5 DEF NothingPaid
  <2> QED BY <2>2, <2>3, <2>4 DEF CreditedExactly
<1> QED BY <1>1, DepositInvariant, PTL

(***************************************************************************)
(* No block past a listed change of a bundle is ever connected, and no     *)
(* deposit from its block on is ever credited.                             *)
(***************************************************************************)
THEOREM ChangeStops == DepositSpec => []ChangeIsNeverPassed
<1>1. ASSUME DepositInv PROVE ChangeIsNeverPassed
  <2> SUFFICES ASSUME NEW i \in DOMAIN deposits, deposits[i].change
               PROVE  /\ connected < deposits[i].block
                      /\ \A j \in DOMAIN credited : deposits[j].block < deposits[i].block
    BY DEF ChangeIsNeverPassed
  <2>1. connected < deposits[i].block /\ deposits[i].block \in Nat /\ connected \in Nat
    BY <1>1, DepositType DEF DepositInv, DepositsTyped, ChangeAhead
  <2>2. ASSUME NEW j \in DOMAIN credited PROVE deposits[j].block < deposits[i].block
    <3>1. j \in 1..Len(credited) /\ Len(credited) \in Nat /\ Len(credited) <= Len(deposits)
      BY <1>1, <2>2 DEF DepositInv, CreditedSoFar
    <3>2. j \in 1..Len(deposits) /\ j <= Len(credited) /\ DOMAIN deposits = 1..Len(deposits)
      BY <1>1, <3>1, DepositType
    <3>3. deposits[j].block <= connected /\ deposits[j].block \in Nat
      BY <1>1, <3>2, DepositType DEF DepositInv, CreditedSoFar
    <3> QED BY <2>1, <3>3
  <2> QED BY <2>1, <2>2
<1> QED BY <1>1, DepositInvariant, PTL
=============================================================================
