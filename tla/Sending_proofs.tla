-------------------------- MODULE Sending_proofs --------------------------
(***************************************************************************)
(* Proofs about the parts a payment passes through: CoinSelection, the     *)
(* SensitiveOpGate and the SendForm. They share no state, so that a        *)
(* theorem speaks of the specification of one of them.                     *)
(*                                                                         *)
(* CoinSelection, for any coins, amounts and fee rates: its types, that    *)
(* the fee a selection settles on is fair, and that a selection which      *)
(* fails could not be made by other coins, where every coin is worth its   *)
(* own fee. The last needs sums over sets of coins, which are a recursive  *)
(* function: what they add up to is proved by an induction of its own.     *)
(*                                                                         *)
(* SensitiveOpGate, for both tiers and any number of sessions and of PINs  *)
(* in flight: its types, that whoever waits for the gate is answered, and  *)
(* that every confirmation has a right PIN of its own.                     *)
(*                                                                         *)
(* SendForm, for any coins, amounts and rates: its types, that what is     *)
(* signed can be paid, and that what is reviewed is what was checked.      *)
(***************************************************************************)
EXTENDS CoinSelection, SensitiveOpGate, SendForm, FiniteSetTheorems, TLAPS

-----------------------------------------------------------------------------
(* CoinSelection *)

LEMMA NatTimes == \A a, b \in Nat : a * b \in Nat
OBVIOUS

LEMMA TimesSum == \A a, b, c \in Nat : (a + b) * c = a * c + b * c
OBVIOUS

LEMMA NothingKept == \A a, t \in Nat : a - t - 0 = a - t
OBVIOUS

LEMMA LeftPays == \A a, t, f \in Nat : a >= t + f => a - t >= f
OBVIOUS

LEMMA LeftIsDust == \A a, t, g \in Nat : a - t - g < 294 => a - t < g + 294
OBVIOUS

LEMMA KeptChange == \A a, t, g \in Nat : a - t - (a - t - g) = g
OBVIOUS

\* An output costs 43 virtual bytes, whatever the rounding.
LEMMA OneMoreOutput ==
  ASSUME NEW n \in Nat, NEW outs \in Nat
  PROVE  /\ VBytes(n, outs) \in Nat /\ VBytes(n, outs) > 0
         /\ VBytes(n, outs + 1) = VBytes(n, outs) + 43
BY DEF VBytes

LEMMA FeeGrows ==
  ASSUME NEW n \in Nat, NEW outs \in Nat, NEW rate \in Nat
  PROVE  /\ EstimateFee(n, outs, rate) \in Nat
         /\ EstimateFee(n, outs + 1, rate) \in Nat
         /\ EstimateFee(n, outs, rate) <= EstimateFee(n, outs + 1, rate)
<1>1. VBytes(n, outs) \in Nat /\ VBytes(n, outs + 1) = VBytes(n, outs) + 43
  BY OneMoreOutput
<1>2. /\ VBytes(n, outs) * rate \in Nat
      /\ 43 * rate \in Nat
      /\ VBytes(n, outs + 1) * rate = VBytes(n, outs) * rate + 43 * rate
  BY <1>1, NatTimes, TimesSum
<1> QED BY <1>2 DEF EstimateFee

(***************************************************************************)
(* Types                                                                   *)
(***************************************************************************)

LEMMA SortedIsSeq == AscendingSeqs \subseteq Seq(CoinValues)
<1> SUFFICES ASSUME NEW n \in 0..MaxCoins, NEW s \in [1..n -> CoinValues]
             PROVE  s \in Seq(CoinValues)
  BY DEF AscendingSeqs
<1> QED BY CoinAssumption

\* Every coin taken is a coin, and its value is a number.
LEMMA PushTypes ==
  ASSUME CoinTypeOK, Push
  PROVE  /\ taken' \in 1..Len(sorted) /\ taken' = taken + 1
         /\ accumulated' \in Nat /\ UNCHANGED inputs
<1>1. taken + 1 \in 1..Len(sorted)
  BY DEF CoinTypeOK, Push
<1>2. sorted[taken + 1] \in CoinValues
  BY <1>1 DEF CoinTypeOK
<1>3. accumulated \in Nat /\ sorted[taken + 1] \in Nat
  BY <1>2, CoinAssumption DEF CoinTypeOK
<1>4. /\ taken' = taken + 1 /\ accumulated' = accumulated + sorted[taken + 1]
      /\ UNCHANGED inputs
  BY DEF Push
<1> QED BY <1>1, <1>3, <1>4

\* The numbers a decision compares.
LEMMA FeeTypes ==
  ASSUME CoinTypeOK
  PROVE  /\ target \in Nat
         /\ FeeNoChange \in Nat /\ FeeWithChange \in Nat /\ FeeNoChange <= FeeWithChange
<1>1. taken + 1 \in Nat /\ nOut \in Nat /\ feeRate \in Nat /\ target \in Nat
  BY CoinAssumption DEF CoinTypeOK
<1> QED BY <1>1, FeeGrows DEF FeeNoChange, FeeWithChange

LEMMA CoinTypeStep == CoinTypeOK /\ [CoinNext]_coinVars => CoinTypeOK'
<1> SUFFICES ASSUME CoinTypeOK, [CoinNext]_coinVars PROVE CoinTypeOK'
  OBVIOUS
<1>1. CASE Push /\ status' \in {"running", "success", "insufficient_funds"}
             /\ change' \in Nat
  BY <1>1, PushTypes DEF CoinTypeOK, inputs
<1>2. CASE TakeNotEnough
  BY <1>1, <1>2 DEF TakeNotEnough, CoinTypeOK
<1>3. CASE TakeExact \/ TakeFolded
  BY <1>1, <1>3 DEF TakeExact, TakeFolded
<1>4. CASE TakeWithChange
  <2>1. change' \in Nat
    BY <1>4, PushTypes, FeeTypes DEF TakeWithChange, ChangeIfKept, DUST_THRESHOLD
  <2> QED BY <1>1, <1>4, <2>1 DEF TakeWithChange
<1>5. CASE Exhausted
  BY <1>5 DEF Exhausted, CoinTypeOK, inputs
<1>6. CASE UNCHANGED coinVars
  BY <1>6 DEF coinVars, CoinTypeOK, inputs
<1> QED BY <1>2, <1>3, <1>4, <1>5, <1>6 DEF CoinNext

\* The selection keeps its types; the change in particular is never negative.
THEOREM CoinTypeCorrect == CoinSpec => []CoinTypeOK
<1>1. CoinInit => CoinTypeOK
  BY SortedIsSeq DEF CoinInit, CoinTypeOK
<1> QED BY <1>1, CoinTypeStep, PTL DEF CoinSpec

(***************************************************************************)
(* The fee                                                                 *)
(***************************************************************************)

\* The actual fee after a step is one of the two the step compared.
LEMMA ActualIsCompared ==
  ASSUME CoinTypeOK, Push, change' \in Nat
  PROVE  /\ EstimateFee(taken, nOut + 1, feeRate)' = FeeWithChange
         /\ change' = 0 => Actual' = FeeNoChange
         /\ change' > 0 => Actual' = FeeWithChange
<1>1. taken' = taken + 1 /\ nOut' = nOut /\ feeRate' = feeRate
  BY PushTypes DEF inputs
<1> QED BY <1>1 DEF Actual, FeeNoChange, FeeWithChange

LEMMA FeeStep == CoinTypeOK /\ FeeIsFair /\ [CoinNext]_coinVars => FeeIsFair'
<1> SUFFICES ASSUME CoinTypeOK, FeeIsFair, [CoinNext]_coinVars, status' = "success"
             PROVE  /\ SelectionFee' >= Actual'
                    /\ change' > 0 => SelectionFee' = Actual' /\ change' >= DUST_THRESHOLD
                    /\ change' = 0 =>
                         SelectionFee' < EstimateFee(taken, nOut + 1, feeRate)'
                                           + DUST_THRESHOLD
  BY DEF FeeIsFair
<1> USE DEF DUST_THRESHOLD
<1>1. CASE TakeExact \/ TakeFolded \/ TakeWithChange
  <2>1. Push /\ accumulated' \in Nat /\ target' = target
    BY <1>1, PushTypes DEF TakeExact, TakeFolded, TakeWithChange, inputs
  <2>2. /\ target \in Nat
        /\ FeeNoChange \in Nat /\ FeeWithChange \in Nat /\ FeeNoChange <= FeeWithChange
    BY FeeTypes
  <2>3. SelectionFee' = accumulated' - target - change'
    BY <2>1 DEF SelectionFee
  <2>4. CASE TakeExact
    <3>1. change' = 0 /\ accumulated' = target + FeeNoChange
      BY <2>4 DEF TakeExact
    <3> QED BY <2>1, <2>2, <2>3, <3>1, ActualIsCompared
  <2>5. CASE TakeFolded
    <3>1. /\ change' = 0 /\ accumulated' >= target + FeeNoChange
          /\ accumulated' - target - FeeWithChange < 294
      BY <2>5 DEF TakeFolded, Enough, ChangeIfKept
    <3>2. /\ Actual' = FeeNoChange
          /\ EstimateFee(taken, nOut + 1, feeRate)' = FeeWithChange
      BY <2>1, <3>1, ActualIsCompared
    <3>3. SelectionFee' = accumulated' - target
      <4>1. accumulated' - target - 0 = accumulated' - target
        BY <2>1, <2>2, NothingKept, Zenon
      <4> QED BY <2>3, <3>1, <4>1, Zenon
    <3>4. accumulated' - target >= FeeNoChange
      <4>1. accumulated' \in Nat /\ target \in Nat /\ FeeNoChange \in Nat
        BY <2>1, <2>2
      <4>2. accumulated' >= target + FeeNoChange
        BY <3>1
      <4> QED BY <4>1, <4>2, LeftPays, Zenon
    <3>5. accumulated' - target < FeeWithChange + 294
      <4>1. accumulated' \in Nat /\ target \in Nat /\ FeeWithChange \in Nat
        BY <2>1, <2>2
      <4>2. accumulated' - target - FeeWithChange < 294
        BY <3>1
      <4> QED BY <4>1, <4>2, LeftIsDust, Zenon
    <3>6. SelectionFee' >= Actual'
      BY <3>2, <3>3, <3>4
    <3>7. SelectionFee' < EstimateFee(taken, nOut + 1, feeRate)' + 294
      BY <3>2, <3>3, <3>5
    <3>8. ~(change' > 0)
      BY <3>1
    <3> QED BY <3>6, <3>7, <3>8
  <2>6. CASE TakeWithChange
    <3>1. change' = accumulated' - target - FeeWithChange /\ change' >= 294
      BY <2>6 DEF TakeWithChange, ChangeIfKept
    <3>2. change' \in Int
      BY <2>1, <2>2, <3>1
    <3>3. change' \in Nat /\ change' > 0
      BY <3>1, <3>2
    <3>4. Actual' = FeeWithChange
      BY <2>1, <3>3, ActualIsCompared
    <3>5. accumulated' - target - (accumulated' - target - FeeWithChange) = FeeWithChange
      <4>1. accumulated' \in Nat /\ target \in Nat /\ FeeWithChange \in Nat
        BY <2>1, <2>2
      <4> QED BY <4>1, KeptChange, Zenon
    <3>6. SelectionFee' = FeeWithChange
      BY <2>3, <3>1, <3>5
    <3> QED BY <2>2, <3>1, <3>3, <3>4, <3>6
  <2> QED BY <1>1, <2>4, <2>5, <2>6
<1>2. CASE TakeNotEnough \/ Exhausted
  BY <1>2 DEF TakeNotEnough, Exhausted, Push
<1>3. CASE UNCHANGED coinVars
  BY <1>3 DEF coinVars, inputs, FeeIsFair, SelectionFee, Actual
<1> QED BY <1>1, <1>2, <1>3 DEF CoinNext

\* The fee a selection settles on pays the chosen rate for the transaction that is
\* built, exactly when there is change, and else by less than a change output and
\* the dust it would have held.
THEOREM FairFee == CoinSpec => []FeeIsFair
<1>1. CoinInit => FeeIsFair
  BY DEF CoinInit, FeeIsFair
<1> QED BY <1>1, FeeStep, CoinTypeCorrect, PTL DEF CoinSpec

-----------------------------------------------------------------------------
(* Sums over finite sets *)

\* Induction over the numbers, for a property given as the set of those that have it.
LEMMA EveryNumber ==
  ASSUME NEW S, 0 \in S, \A n \in Nat : n \in S => n + 1 \in S
  PROVE  \A n \in Nat : n \in S
<1> DEFINE R == OpToRel(<, Nat)
           Lacking == Nat \ S
<1>1. IsWellFoundedOn(R, Nat)
  BY NatLessThanWellFounded
<1>2. R = { p \in Nat \X Nat : p[1] < p[2] }
  BY DEF OpToRel
<1> SUFFICES ASSUME Lacking # {} PROVE FALSE
  OBVIOUS
<1>3. PICK m \in Lacking : \A n \in Lacking : ~ (<<n, m>> \in R)
  <2> HIDE DEF R
  <2> QED BY <1>1, WFMin
<1>4. m # 0 /\ m \in Nat
  OBVIOUS
<1>5. m - 1 \in Nat /\ (m - 1) + 1 = m
  BY <1>4
<1>6. m - 1 \in Lacking
  BY <1>5
<1>7. <<m - 1, m>> \in { p \in Nat \X Nat : p[1] < p[2] }
  BY <1>4, <1>5
<1> HIDE DEF R, Lacking
<1> QED BY <1>2, <1>3, <1>6, <1>7

\* The element that the fold of a set takes first.
SomeOf(s) == CHOOSE x \in s : TRUE

\* g sums f over the subsets of S, as the fold does.
SumsUp(g, f, S) ==
  g = [s \in SUBSET S |-> IF s = {} THEN 0 ELSE f[SomeOf(s)] + g[s \ {SomeOf(s)}]]

LEMMA SumUnfolds ==
  ASSUME NEW f, NEW S
  PROVE  SumFunctionOnSet(f, S) = (CHOOSE g : SumsUp(g, f, S))[S]
BY Zenon DEF SumFunctionOnSet, FoldFunctionOnSet, MapThenFoldSet, SumsUp, SomeOf

LEMMA WithoutOne ==
  ASSUME NEW s, IsFiniteSet(s), s # {}
  PROVE  /\ SomeOf(s) \in s /\ IsFiniteSet(s \ {SomeOf(s)})
         /\ Cardinality(s) \in Nat \ {0}
         /\ Cardinality(s \ {SomeOf(s)}) = Cardinality(s) - 1
<1>1. SomeOf(s) \in s
  BY DEF SomeOf
<1> QED BY <1>1, FS_RemoveElement, FS_CardinalityType, FS_EmptySet

\* The subsets of S that have n elements at most.
Small(S, n) == { s \in SUBSET S : Cardinality(s) <= n }

LEMMA SumExists ==
  ASSUME NEW f, NEW S, IsFiniteSet(S)
  PROVE  \E g : SumsUp(g, f, S)
<1> DEFINE Unfold(g, s) == IF s = {} THEN 0 ELSE f[SomeOf(s)] + g[s \ {SomeOf(s)}]
           Holds == { n \in Nat : \E h : h = [s \in Small(S, n) |-> Unfold(h, s)] }
<1>0. \A s \in SUBSET S : IsFiniteSet(s) /\ Cardinality(s) \in Nat
  BY FS_Subset, FS_CardinalityType
<1>1. 0 \in Holds
  <2>1. \A s \in Small(S, 0) : s = {}
    BY <1>0, FS_EmptySet DEF Small
  <2>2. [s \in Small(S, 0) |-> 0] = [s \in Small(S, 0) |-> Unfold([t \in Small(S, 0) |-> 0], s)]
    BY <2>1
  <2> HIDE DEF Unfold
  <2> QED BY <2>2
<1>2. ASSUME NEW n \in Nat, n \in Holds PROVE n + 1 \in Holds
  <2>1. PICK h : h = [s \in Small(S, n) |-> Unfold(h, s)]
    BY <1>2
  <2> DEFINE k == [s \in Small(S, n + 1) |-> Unfold(h, s)]
  <2>2. \A s \in Small(S, n) : s \in Small(S, n + 1) /\ k[s] = h[s]
    <3>1. \A s \in Small(S, n) : s \in Small(S, n + 1)
      BY <1>0 DEF Small
    <3>2. \A s \in Small(S, n) : h[s] = Unfold(h, s)
      BY <2>1
    <3> HIDE DEF Unfold
    <3> QED BY <3>1, <3>2
  <2>3. ASSUME NEW s \in Small(S, n + 1) PROVE Unfold(h, s) = Unfold(k, s)
    <3>1. CASE s = {}
      BY <3>1
    <3>2. CASE s # {}
      <4>1. s \ {SomeOf(s)} \in Small(S, n)
        <5>1. s \in SUBSET S /\ IsFiniteSet(s) /\ Cardinality(s) <= n + 1
          BY <1>0 DEF Small
        <5>2. Cardinality(s \ {SomeOf(s)}) = Cardinality(s) - 1 /\ Cardinality(s) \in Nat
          BY <3>2, <5>1, WithoutOne
        <5>3. s \ {SomeOf(s)} \in SUBSET S
          BY <5>1
        <5> QED BY <5>1, <5>2, <5>3 DEF Small
      <4> HIDE DEF k
      <4> QED BY <2>2, <3>2, <4>1
    <3> QED BY <3>1, <3>2
  <2>4. k = [s \in Small(S, n + 1) |-> Unfold(k, s)]
    <3> HIDE DEF Unfold
    <3> QED BY <2>3
  <2> HIDE DEF k, Unfold
  <2> QED BY <1>2, <2>4
<1>3. \A n \in Nat : n \in Holds
  <2> HIDE DEF Holds
  <2> QED BY <1>1, <1>2, EveryNumber
<1>4. Cardinality(S) \in Nat /\ Small(S, Cardinality(S)) = SUBSET S
  <2>1. \A s \in SUBSET S : Cardinality(s) <= Cardinality(S)
    BY FS_Subset
  <2> QED BY <2>1, FS_CardinalityType DEF Small
<1>5. \E h : h = [s \in SUBSET S |-> Unfold(h, s)]
  BY <1>3, <1>4
<1> QED BY <1>5 DEF SumsUp

\* Two sums agree on the sets that both are defined on.
LEMMA SumsAgree ==
  ASSUME NEW f, NEW S, NEW T, T \subseteq S, IsFiniteSet(S),
         NEW g, SumsUp(g, f, S), NEW h, SumsUp(h, f, T)
  PROVE  h[T] = g[T]
<1> DEFINE Holds == { n \in Nat : \A s \in SUBSET T : Cardinality(s) <= n => h[s] = g[s] }
<1>0. \A s \in SUBSET T : IsFiniteSet(s) /\ Cardinality(s) \in Nat /\ s \in SUBSET S
  BY FS_Subset, FS_CardinalityType
<1>1. /\ \A s \in SUBSET S :
           g[s] = IF s = {} THEN 0 ELSE f[SomeOf(s)] + g[s \ {SomeOf(s)}]
      /\ \A s \in SUBSET T :
           h[s] = IF s = {} THEN 0 ELSE f[SomeOf(s)] + h[s \ {SomeOf(s)}]
  BY DEF SumsUp
<1>2. 0 \in Holds
  <2>1. \A s \in SUBSET T : Cardinality(s) <= 0 => s = {}
    BY <1>0, FS_EmptySet
  <2>2. h[{}] = g[{}]
    BY <1>1
  <2> QED BY <2>1, <2>2
<1>3. ASSUME NEW n \in Nat, n \in Holds PROVE n + 1 \in Holds
  <2>1. ASSUME NEW s \in SUBSET T, Cardinality(s) <= n + 1 PROVE h[s] = g[s]
    <3>1. CASE s = {}
      BY <1>0, <1>1, <3>1
    <3>2. CASE s # {}
      <4>1. /\ Cardinality(s \ {SomeOf(s)}) <= n /\ s \ {SomeOf(s)} \in SUBSET T
        <5>1. Cardinality(s \ {SomeOf(s)}) = Cardinality(s) - 1 /\ Cardinality(s) \in Nat
          BY <1>0, <3>2, WithoutOne
        <5> QED BY <2>1, <5>1
      <4>2. h[s \ {SomeOf(s)}] = g[s \ {SomeOf(s)}]
        BY <1>3, <4>1
      <4> QED BY <1>0, <1>1, <3>2, <4>2
    <3> QED BY <3>1, <3>2
  <2> QED BY <1>3, <2>1
<1>4. \A n \in Nat : n \in Holds
  <2> HIDE DEF Holds
  <2> QED BY <1>2, <1>3, EveryNumber
<1>5. IsFiniteSet(T) /\ Cardinality(T) \in Nat
  BY <1>0
<1> QED BY <1>4, <1>5

\* The fold of a finite set takes one element, and then those that are left.
LEMMA SumOfOne ==
  ASSUME NEW f, NEW T, IsFiniteSet(T)
  PROVE  SumFunctionOnSet(f, T) =
           IF T = {} THEN 0 ELSE f[SomeOf(T)] + SumFunctionOnSet(f, T \ {SomeOf(T)})
<1> DEFINE R == T \ {SomeOf(T)}
           g == CHOOSE u : SumsUp(u, f, T)
           h == CHOOSE u : SumsUp(u, f, R)
<1>1. IsFiniteSet(R) /\ R \in SUBSET T
  BY FS_Subset
<1>2. SumsUp(g, f, T)
  BY SumExists
<1>3. SumsUp(h, f, R)
  <2> HIDE DEF R
  <2> QED BY <1>1, SumExists
<1>4. SumFunctionOnSet(f, T) = g[T] /\ SumFunctionOnSet(f, R) = h[R]
  <2> HIDE DEF R
  <2> QED BY SumUnfolds
<1>5. h[R] = g[R]
  <2>1. R \subseteq T
    OBVIOUS
  <2> HIDE DEF g, h, R
  <2> QED BY <1>2, <1>3, <2>1, SumsAgree
<1>6. g[T] = IF T = {} THEN 0 ELSE f[SomeOf(T)] + g[T \ {SomeOf(T)}]
  <2> HIDE DEF g
  <2> QED BY <1>2 DEF SumsUp
<1> HIDE DEF g, h
<1> QED BY <1>4, <1>5, <1>6

\* A sum of numbers is a number, whichever element is taken first.
LEMMA SumTakesAny ==
  ASSUME NEW f, NEW U, IsFiniteSet(U), \A x \in U : f[x] \in Nat
  PROVE  \A T \in SUBSET U :
           /\ SumFunctionOnSet(f, T) \in Nat
           /\ \A x \in T : SumFunctionOnSet(f, T) = f[x] + SumFunctionOnSet(f, T \ {x})
<1> DEFINE Sum(T) == SumFunctionOnSet(f, T)
           Takes(T) == Sum(T) \in Nat /\ \A x \in T : Sum(T) = f[x] + Sum(T \ {x})
           Holds == { n \in Nat : \A T \in SUBSET U : Cardinality(T) <= n => Takes(T) }
<1>0. \A T \in SUBSET U : IsFiniteSet(T) /\ Cardinality(T) \in Nat
  BY FS_Subset, FS_CardinalityType
<1>1. \A T \in SUBSET U : Sum(T) = IF T = {} THEN 0 ELSE f[SomeOf(T)] + Sum(T \ {SomeOf(T)})
  BY <1>0, SumOfOne
<1> HIDE DEF Sum
<1>2. 0 \in Holds
  <2>1. \A T \in SUBSET U : Cardinality(T) <= 0 => T = {}
    BY <1>0, FS_EmptySet
  <2>2. Sum({}) = 0
    BY <1>1
  <2>3. ASSUME NEW T \in SUBSET U, Cardinality(T) <= 0 PROVE Takes(T)
    <3>1. T = {}
      BY <2>1, <2>3
    <3> QED BY <2>2, <3>1
  <2> QED BY <2>3
<1>3. ASSUME NEW n \in Nat, n \in Holds PROVE n + 1 \in Holds
  <2>1. ASSUME NEW T \in SUBSET U, Cardinality(T) <= n + 1 PROVE Takes(T)
    <3>1. CASE T = {}
      <4>1. Sum({}) = 0
        BY <1>1
      <4> QED BY <3>1, <4>1
    <3>2. CASE T # {}
      <4> DEFINE p == SomeOf(T)
      <4>0. p \in T /\ T \ {p} \in SUBSET U /\ Sum(T) = f[p] + Sum(T \ {p}) /\ f[p] \in Nat
        BY <1>0, <1>1, <3>2, WithoutOne
      <4> HIDE DEF p
      <4>1. \A x \in T : T \ {x} \in SUBSET U /\ Cardinality(T \ {x}) <= n
        BY <1>0, <2>1, FS_RemoveElement
      <4>2. \A x \in T : Takes(T \ {x})
        BY <1>3, <4>1
      <4>3. Sum(T) \in Nat
        BY <4>0, <4>2
      <4>4. ASSUME NEW x \in T, x # p PROVE Sum(T) = f[x] + Sum(T \ {x})
        <5>1. x \in T \ {p} /\ p \in T \ {x}
          BY <4>0, <4>4
        <5>2. Sum(T \ {p}) = f[x] + Sum((T \ {p}) \ {x})
          BY <4>0, <4>2, <5>1
        <5>3. Sum(T \ {x}) = f[p] + Sum((T \ {x}) \ {p})
          BY <4>2, <5>1
        <5>4. (T \ {p}) \ {x} = (T \ {x}) \ {p}
          OBVIOUS
        <5>5. Sum((T \ {x}) \ {p}) \in Nat
          <6>1. (T \ {x}) \ {p} \in SUBSET U
            OBVIOUS
          <6>2. Cardinality((T \ {x}) \ {p}) <= Cardinality(T \ {x})
            BY <1>0, <4>1, FS_Subset
          <6>3. Cardinality((T \ {x}) \ {p}) <= n
            BY <1>0, <4>1, <6>1, <6>2
          <6> QED BY <1>3, <6>1, <6>3
        <5>6. f[x] \in Nat
          OBVIOUS
        <5>7. Sum((T \ {p}) \ {x}) = Sum((T \ {x}) \ {p})
          BY <5>4
        <5> HIDE DEF Takes
        <5> QED BY <4>0, <5>2, <5>3, <5>5, <5>6, <5>7
      <4> QED BY <4>0, <4>3, <4>4
    <3> QED BY <3>1, <3>2
  <2> QED BY <1>3, <2>1
<1>4. \A n \in Nat : n \in Holds
  <2> HIDE DEF Holds
  <2> QED BY <1>2, <1>3, EveryNumber
<1>5. ASSUME NEW T \in SUBSET U PROVE Takes(T)
  <2>1. Cardinality(T) \in Nat
    BY <1>0
  <2>2. Cardinality(T) \in Holds /\ Cardinality(T) <= Cardinality(T)
    BY <1>4, <2>1
  <2> QED BY <2>2
<1> QED BY <1>5 DEF Sum

\* Each element that a set lacks is worth c at least.
LEMMA SumOfTheRest ==
  ASSUME NEW f, NEW U, IsFiniteSet(U), NEW c \in Nat,
         \A x \in U : f[x] \in Nat /\ f[x] >= c
  PROVE  \A S \in SUBSET U :
           /\ Cardinality(S) \in Nat /\ Cardinality(U) - Cardinality(S) \in Nat
           /\ SumFunctionOnSet(f, U)
                >= SumFunctionOnSet(f, S) + (Cardinality(U) - Cardinality(S)) * c
<1> DEFINE Sum(T) == SumFunctionOnSet(f, T)
           Holds == { n \in Nat : \A S \in SUBSET U :
                        Cardinality(S) + n = Cardinality(U) => Sum(U) >= Sum(S) + n * c }
<1>0. \A T \in SUBSET U : /\ IsFiniteSet(T) /\ Cardinality(T) \in Nat
                          /\ Cardinality(T) <= Cardinality(U)
                          /\ Cardinality(T) = Cardinality(U) => T = U
  BY FS_Subset, FS_CardinalityType
<1>1. \A T \in SUBSET U : Sum(T) \in Nat /\ \A x \in T : Sum(T) = f[x] + Sum(T \ {x})
  BY SumTakesAny
<1> HIDE DEF Sum
<1>2. 0 \in Holds
  <2>1. ASSUME NEW S \in SUBSET U, Cardinality(S) + 0 = Cardinality(U)
        PROVE  Sum(U) >= Sum(S) + 0 * c
    <3>1. S = U
      BY <1>0, <2>1
    <3>2. Sum(U) \in Nat /\ 0 * c = 0
      BY <1>1
    <3> QED BY <3>1, <3>2
  <2> QED BY <2>1
<1>3. ASSUME NEW n \in Nat, n \in Holds PROVE n + 1 \in Holds
  <2>1. ASSUME NEW S \in SUBSET U, Cardinality(S) + (n + 1) = Cardinality(U)
        PROVE  Sum(U) >= Sum(S) + (n + 1) * c
    <3>1. PICK x \in U : x \notin S
      <4>1. S # U
        BY <1>0, <2>1
      <4> QED BY <4>1
    <3> DEFINE T == S \cup {x}
    <3>2. T \in SUBSET U /\ x \in T /\ T \ {x} = S
      BY <3>1
    <3>3. Cardinality(T) = Cardinality(S) + 1
      BY <1>0, <3>1, FS_AddElement
    <3> HIDE DEF T
    <3>4. Sum(T) = f[x] + Sum(S) /\ Sum(T) \in Nat /\ Sum(S) \in Nat /\ Sum(U) \in Nat
      BY <1>1, <3>2
    <3>5. Sum(U) >= Sum(T) + n * c
      <4>1. Cardinality(T) + n = Cardinality(U)
        BY <1>0, <2>1, <3>2, <3>3
      <4> QED BY <1>3, <3>2, <4>1
    <3>6. (n + 1) * c = n * c + 1 * c /\ 1 * c = c /\ n * c \in Nat
      BY NatTimes, TimesSum
    <3>7. f[x] >= c /\ f[x] \in Nat
      OBVIOUS
    <3> QED BY <3>4, <3>5, <3>6, <3>7
  <2> QED BY <1>3, <2>1
<1>4. \A n \in Nat : n \in Holds
  <2> HIDE DEF Holds
  <2> QED BY <1>2, <1>3, EveryNumber
<1>5. ASSUME NEW S \in SUBSET U
      PROVE  /\ Cardinality(S) \in Nat /\ Cardinality(U) - Cardinality(S) \in Nat
             /\ Sum(U) >= Sum(S) + (Cardinality(U) - Cardinality(S)) * c
  <2>1. /\ Cardinality(S) \in Nat /\ Cardinality(U) \in Nat
        /\ Cardinality(S) <= Cardinality(U)
    BY <1>0
  <2>2. /\ Cardinality(U) - Cardinality(S) \in Nat
        /\ Cardinality(S) + (Cardinality(U) - Cardinality(S)) = Cardinality(U)
    BY <2>1
  <2> QED BY <1>4, <2>1, <2>2
<1> QED BY <1>5 DEF Sum

-----------------------------------------------------------------------------
(* CoinSelection: completeness *)

\* An input costs 58 virtual bytes at most.
LEMMA MoreInputs ==
  ASSUME NEW n \in Nat, NEW k \in Nat, NEW outs \in Nat, NEW rate \in Nat
  PROVE  /\ EstimateFee(n, outs, rate) \in Nat /\ EstimateFee(n + k, outs, rate) \in Nat
         /\ EstimateFee(n + k, outs, rate) <= EstimateFee(n, outs, rate) + k * (58 * rate)
<1>1. /\ VBytes(n, outs) \in Nat /\ VBytes(n + k, outs) \in Nat
      /\ VBytes(n + k, outs) <= VBytes(n, outs) + 58 * k
  BY DEF VBytes
<1>2. VBytes(n + k, outs) * rate <= (VBytes(n, outs) + 58 * k) * rate
  <2>1. PICK m \in Nat : VBytes(n, outs) + 58 * k = VBytes(n + k, outs) + m
    <3>1. (VBytes(n, outs) + 58 * k) - VBytes(n + k, outs) \in Nat
      BY <1>1
    <3> QED BY <1>1, <3>1
  <2>2. (VBytes(n + k, outs) + m) * rate = VBytes(n + k, outs) * rate + m * rate
    BY <1>1, TimesSum
  <2>3. m * rate \in Nat /\ VBytes(n + k, outs) * rate \in Nat
    BY <1>1, NatTimes
  <2> QED BY <2>1, <2>2, <2>3
<1>3. (VBytes(n, outs) + 58 * k) * rate = VBytes(n, outs) * rate + (58 * k) * rate
  <2>1. 58 * k \in Nat
    OBVIOUS
  <2> QED BY <1>1, <2>1, TimesSum
<1>4. (58 * k) * rate = k * (58 * rate)
  OBVIOUS
<1>5. VBytes(n, outs) * rate \in Nat /\ VBytes(n + k, outs) * rate \in Nat
  BY <1>1, NatTimes
<1> QED BY <1>2, <1>3, <1>4, <1>5 DEF EstimateFee

\* What is taken is summed, and as long as the loop runs it does not pay.
ShortInv ==
  /\ accumulated = SumFunctionOnSet(sorted, 1..taken)
  /\ status # "success" /\ taken > 0
       => accumulated < target + EstimateFee(taken, nOut, feeRate)
  /\ status = "insufficient_funds" => taken = Len(sorted)

LEMMA CoinsAreNumbers ==
  ASSUME CoinTypeOK
  PROVE  /\ \A x \in 1..Len(sorted) : sorted[x] \in Nat
         /\ Len(sorted) \in Nat /\ IsFiniteSet(1..Len(sorted))
         /\ Cardinality(1..Len(sorted)) = Len(sorted)
<1>1. \A x \in 1..Len(sorted) : sorted[x] \in CoinValues
  BY DEF CoinTypeOK
<1>2. Len(sorted) \in Nat
  BY DEF CoinTypeOK
<1>3. \A n \in Nat : IsFiniteSet(1..n) /\ Cardinality(1..n) = n
  <2>1. ASSUME NEW n \in Nat PROVE IsFiniteSet(1..n) /\ Cardinality(1..n) = n
    BY FS_Interval
  <2> QED BY <2>1
<1>4. \A x \in 1..Len(sorted) : sorted[x] \in Nat
  BY <1>1, CoinAssumption
<1> QED BY <1>2, <1>3, <1>4

LEMMA ShortStep == CoinTypeOK /\ ShortInv /\ [CoinNext]_coinVars => ShortInv'
<1> SUFFICES ASSUME CoinTypeOK, ShortInv, [CoinNext]_coinVars PROVE ShortInv'
  OBVIOUS
<1>1. ASSUME Push PROVE accumulated' = SumFunctionOnSet(sorted', 1..taken')
  <2>1. /\ taken' \in 1..Len(sorted) /\ taken' = taken + 1 /\ taken \in Nat
        /\ sorted' = sorted /\ accumulated' = accumulated + sorted[taken']
        /\ accumulated \in Nat
    BY <1>1, PushTypes DEF Push, inputs, CoinTypeOK
  <2>2. ASSUME NEW f, NEW U, IsFiniteSet(U), \A x \in U : f[x] \in Nat,
               NEW T, T \subseteq U, NEW x \in T
        PROVE  /\ SumFunctionOnSet(f, T) = f[x] + SumFunctionOnSet(f, T \ {x})
               /\ SumFunctionOnSet(f, T \ {x}) \in Nat /\ f[x] \in Nat
    <3>1. T \in SUBSET U /\ T \ {x} \in SUBSET U
      BY <2>2
    <3> QED BY <2>2, <3>1, SumTakesAny
  <2>3. 1..taken' \subseteq 1..Len(sorted) /\ taken' \in 1..taken'
    BY <2>1, CoinsAreNumbers
  <2>4. (1..taken') \ {taken'} = 1..taken
    BY <2>1
  <2>5. SumFunctionOnSet(sorted, 1..taken') = sorted[taken'] + SumFunctionOnSet(sorted, 1..taken)
    <3> DEFINE U == 1..Len(sorted)
               T == 1..taken'
    <3>1. IsFiniteSet(U) /\ \A x \in U : sorted[x] \in Nat
      BY CoinsAreNumbers
    <3>2. T \subseteq U /\ taken' \in T
      BY <2>3
    <3> HIDE DEF U, T
    <3>3. SumFunctionOnSet(sorted, T) = sorted[taken'] + SumFunctionOnSet(sorted, T \ {taken'})
      BY <2>2, <3>1, <3>2
    <3>4. T \ {taken'} = 1..taken
      BY <2>4 DEF T
    <3> QED BY <3>3, <3>4 DEF T
  <2>6. sorted[taken'] \in Nat
    BY <2>1, CoinsAreNumbers
  <2> QED BY <2>1, <2>5, <2>6 DEF ShortInv
<1>2. CASE TakeNotEnough
  <2>1. Push /\ ~Enough /\ status' = status /\ status = "running"
    BY <1>2 DEF TakeNotEnough, Push
  <2>2. /\ taken' = taken + 1 /\ target' = target /\ nOut' = nOut /\ feeRate' = feeRate
        /\ accumulated' \in Nat
    BY <2>1, PushTypes DEF inputs
  <2>3. EstimateFee(taken, nOut, feeRate)' = FeeNoChange
    BY <2>2 DEF FeeNoChange
  <2>4. accumulated' < target + FeeNoChange
    BY <2>1, <2>2, FeeTypes DEF Enough
  <2> QED BY <1>1, <2>1, <2>2, <2>3, <2>4 DEF ShortInv
<1>3. CASE TakeExact \/ TakeFolded \/ TakeWithChange
  <2>1. Push /\ status' = "success"
    BY <1>3 DEF TakeExact, TakeFolded, TakeWithChange
  <2> QED BY <1>1, <2>1 DEF ShortInv
<1>4. CASE Exhausted
  BY <1>4 DEF Exhausted, ShortInv, inputs
<1>5. CASE UNCHANGED coinVars
  BY <1>5 DEF coinVars, inputs, ShortInv
<1> QED BY <1>2, <1>3, <1>4, <1>5 DEF CoinNext

LEMMA ShortIsComplete == CoinTypeOK /\ ShortInv => CompleteWhenEconomical
<1> SUFFICES ASSUME CoinTypeOK, ShortInv, status = "insufficient_funds",
                    \A k \in 1..Len(sorted) : sorted[k] >= 58 * feeRate,
                    NEW S \in SUBSET (1..Len(sorted)), S # {},
                    SumFunctionOnSet(sorted, S)
                      >= target + EstimateFee(Cardinality(S), nOut, feeRate)
             PROVE  FALSE
  BY DEF CompleteWhenEconomical, Affordable
<1> DEFINE U == 1..Len(sorted)
           size == Cardinality(S)
           rest == Len(sorted) - size
           all == SumFunctionOnSet(sorted, U)
           some == SumFunctionOnSet(sorted, S)
<1>1. Len(sorted) \in Nat /\ Len(sorted) > 0 /\ IsFiniteSet(U) /\ Cardinality(U) = Len(sorted)
  <2>1. PICK x \in S : x \in 1..Len(sorted)
    OBVIOUS
  <2>2. Len(sorted) \in Nat
    BY CoinsAreNumbers
  <2>3. Len(sorted) > 0
    BY <2>1, <2>2
  <2> QED BY <2>3, CoinsAreNumbers
<1>2. target \in Nat /\ nOut \in Nat /\ feeRate \in Nat /\ 58 * feeRate \in Nat
  BY CoinAssumption DEF CoinTypeOK
<1>3. /\ accumulated = all /\ taken = Len(sorted)
      /\ accumulated < target + EstimateFee(Len(sorted), nOut, feeRate)
  BY <1>1 DEF ShortInv
<1>4. /\ size \in Nat /\ rest \in Nat
      /\ all >= some + rest * (58 * feeRate)
      /\ all \in Nat /\ some \in Nat
  <2>1. ASSUME NEW f, NEW V, IsFiniteSet(V), NEW c \in Nat,
               \A x \in V : f[x] \in Nat /\ f[x] >= c, NEW T, T \subseteq V
        PROVE  /\ Cardinality(T) \in Nat /\ Cardinality(V) - Cardinality(T) \in Nat
               /\ SumFunctionOnSet(f, V)
                    >= SumFunctionOnSet(f, T) + (Cardinality(V) - Cardinality(T)) * c
               /\ SumFunctionOnSet(f, V) \in Nat /\ SumFunctionOnSet(f, T) \in Nat
    <3>1. V \in SUBSET V /\ T \in SUBSET V
      BY <2>1
    <3>2. SumFunctionOnSet(f, V) \in Nat /\ SumFunctionOnSet(f, T) \in Nat
      BY <2>1, <3>1, SumTakesAny
    <3> QED BY <2>1, <3>1, <3>2, SumOfTheRest
  <2>2. \A x \in U : sorted[x] \in Nat /\ sorted[x] >= 58 * feeRate
    BY CoinsAreNumbers
  <2>3. S \subseteq U
    OBVIOUS
  <2> HIDE DEF U
  <2> QED BY <1>1, <1>2, <2>1, <2>2, <2>3
<1>5. size + rest = Len(sorted)
  BY <1>1, <1>4
<1> HIDE DEF size, rest, all, some
<1>6. /\ EstimateFee(size, nOut, feeRate) \in Nat
      /\ EstimateFee(Len(sorted), nOut, feeRate) \in Nat
      /\ EstimateFee(Len(sorted), nOut, feeRate)
           <= EstimateFee(size, nOut, feeRate) + rest * (58 * feeRate)
  BY <1>2, <1>4, <1>5, MoreInputs
<1>7. rest * (58 * feeRate) \in Nat
  BY <1>2, <1>4, NatTimes
<1>8. some >= target + EstimateFee(size, nOut, feeRate)
  BY DEF some, size
<1> QED BY <1>2, <1>3, <1>4, <1>6, <1>7, <1>8

\* Where every coin is worth more than the fee of spending it, the selection that
\* takes the coins smallest first, and never gives one back, fails only if no set of
\* them pays.
THEOREM EconomicIsComplete == CoinSpec => []CompleteWhenEconomical
<1>1. CoinInit => ShortInv
  <2> SUFFICES ASSUME CoinInit PROVE SumFunctionOnSet(sorted, 1..0) = 0
    BY DEF CoinInit, ShortInv
  <2>1. IsFiniteSet({}) /\ 1..0 = {}
    BY FS_EmptySet
  <2>2. \A f : SumFunctionOnSet(f, {}) = 0
    BY <2>1, SumOfOne
  <2> QED BY <2>1, <2>2
<1> QED BY <1>1, ShortStep, ShortIsComplete, CoinTypeCorrect, PTL DEF CoinSpec

-----------------------------------------------------------------------------
(* SensitiveOpGate *)

\* The gate once confirmed has answered whoever waited.
ConfirmedHasAnswered == confirmed => ~waiting

AnswerInv == NobodyIsLeftWaiting /\ ConfirmedHasAnswered

\* A warning on the screen, or a frame that will show one, still has its PIN.
WarningShown == IF step = "warning" THEN 1 ELSE 0
PinsCover == confirms + frames + WarningShown <= rights

(***************************************************************************)
(* Types                                                                   *)
(***************************************************************************)

LEMMA GateInitTypes == GateInit => GateTypeOK
<1> SUFFICES ASSUME GateInit PROVE GateTypeOK
  OBVIOUS
<1>1. isLocked \in BOOLEAN /\ confirmed \in BOOLEAN /\ waiting \in BOOLEAN
  BY DEF GateInit
<1>2. calls \in [InFlight -> [stage : {"idle", "reading", "verifying"},
                             right : BOOLEAN, isOpen : BOOLEAN]]
  BY DEF GateInit, Idle
<1> QED BY <1>1, <1>2, GateAssumption DEF GateInit, GateTypeOK, LockTypeOK

\* Closing a dialog, or confirming, keeps the types of what it touches.
LEMMA CloseTypes ==
  ASSUME GateTypeOK, Close
  PROVE  /\ step' \in {"idle", "rePin", "warning", "gone"}
         /\ waiting' \in BOOLEAN
         /\ UNCHANGED <<confirmed, confirms>>
<1>1. waiting' \in BOOLEAN
  BY DEF Close, GateTypeOK
<1> QED BY <1>1 DEF Close, GateTypeOK

LEMMA ConfirmTypes ==
  ASSUME GateTypeOK, Confirm
  PROVE  /\ confirmed' \in BOOLEAN /\ waiting' \in BOOLEAN
         /\ step' \in {"idle", "rePin", "warning", "gone"}
         /\ confirms' \in Nat
<1>1. confirmed' \in BOOLEAN /\ waiting' \in BOOLEAN
  BY DEF Confirm
<1> QED BY <1>1 DEF Confirm, GateTypeOK

LEMMA CallTypes ==
  ASSUME GateTypeOK, NEW n \in InFlight,
         ReadHash(n) \/ Matched(n) \/ Mismatched(n)
         \/ \E right \in BOOLEAN : Submit(n, right)
  PROVE  calls' \in [InFlight -> [stage : {"idle", "reading", "verifying"},
                                  right : BOOLEAN, isOpen : BOOLEAN]]
<1>1. Idle \in [stage : {"idle", "reading", "verifying"},
               right : BOOLEAN, isOpen : BOOLEAN]
  BY DEF Idle
<1>2. CASE ReadHash(n)
  BY <1>1, <1>2 DEF ReadHash, GateTypeOK
<1>3. CASE Matched(n) \/ Mismatched(n)
  <2>1. calls' = [calls EXCEPT ![n] = Idle]
    BY <1>3 DEF Matched, Mismatched
  <2> QED BY <1>1, <2>1 DEF GateTypeOK
<1>4. ASSUME NEW right \in BOOLEAN, Submit(n, right)
      PROVE  calls' \in [InFlight -> [stage : {"idle", "reading", "verifying"},
                                     right : BOOLEAN, isOpen : BOOLEAN]]
  BY <1>4 DEF Submit, GateTypeOK
<1> QED BY <1>2, <1>3, <1>4

LEMMA GateStepTypes ==
  ASSUME GateTypeOK, [GateNext]_gateVars
  PROVE  GateTypeOK'
<1>0. tier' = tier
  BY DEF GateNext, gateVars
<1> USE GateAssumption, <1>0 DEF gate, history, lockVars
<1>1. CASE trigger
  <2>1. confirmed' \in BOOLEAN /\ waiting' \in BOOLEAN
    BY <1>1 DEF trigger
  <2>2. /\ step' = "rePin" /\ session' \in 0..MaxSessions
        /\ UNCHANGED <<lockVars, isOpen, wrongAttempts, calls, frames, confirms,
                       rights, pins>>
    BY <1>1 DEF trigger, GateTypeOK
  <2> QED BY <2>1, <2>2 DEF GateTypeOK, LockTypeOK
<1>2. ASSUME NEW n \in InFlight, NEW right \in BOOLEAN, Submit(n, right)
      PROVE  GateTypeOK'
  BY <1>2, CallTypes DEF Submit, GateTypeOK, LockTypeOK
<1>3. ASSUME NEW n \in InFlight, ReadHash(n)
      PROVE  GateTypeOK'
  BY <1>3, CallTypes DEF ReadHash, GateTypeOK, LockTypeOK
<1>4. ASSUME NEW n \in InFlight, Matched(n)
      PROVE  GateTypeOK'
  <2>1. CASE calls[n].isOpen /\ tier = "explain"
    <3>1. /\ frames' = frames + 1 /\ rights' = rights + 1
          /\ UNCHANGED <<step, confirmed, waiting, confirms>>
          /\ UNCHANGED <<lockVars, isOpen, wrongAttempts, session, pins>>
      BY <1>4, <2>1 DEF Matched
    <3> QED BY <1>4, <3>1, CallTypes DEF GateTypeOK, LockTypeOK
  <2>2. CASE ~(calls[n].isOpen /\ tier = "explain")
    <3>1. Confirm /\ UNCHANGED frames
      BY <1>4, <2>2 DEF Matched
    <3>2. /\ rights' \in Nat
          /\ UNCHANGED <<lockVars, isOpen, wrongAttempts, session, pins>>
      BY <1>4 DEF Matched, GateTypeOK
    <3> QED BY <1>4, <3>1, <3>2, CallTypes, ConfirmTypes DEF GateTypeOK, LockTypeOK
  <2> QED BY <2>1, <2>2
<1>5. ASSUME NEW n \in InFlight, Mismatched(n)
      PROVE  GateTypeOK'
  <2>1. LockTypeOK'
    BY <1>5 DEF Mismatched, recordFailedAttempt, GateTypeOK, LockTypeOK
  <2>2. /\ step' \in {"idle", "rePin", "warning", "gone"}
        /\ waiting' \in BOOLEAN
        /\ UNCHANGED <<confirmed, confirms>>
    BY <1>5, CloseTypes DEF Mismatched, GateTypeOK
  <2>3. /\ wrongAttempts' \in Nat
        /\ UNCHANGED <<isOpen, frames, session, rights, pins>>
    BY <1>5 DEF Mismatched, GateTypeOK
  <2> QED BY <1>5, <2>1, <2>2, <2>3, CallTypes DEF GateTypeOK
<1>6. CASE DismissRePin
  BY <1>6, CloseTypes DEF DismissRePin, GateTypeOK, LockTypeOK
<1>7. CASE Frame
  BY <1>7, CloseTypes DEF Frame, GateTypeOK, LockTypeOK
<1>8. CASE onWarningConfirm
  BY <1>8, ConfirmTypes DEF onWarningConfirm, GateTypeOK, LockTypeOK
<1>9. CASE DismissWarning
  BY <1>9, CloseTypes DEF DismissWarning, GateTypeOK, LockTypeOK
<1>10. CASE ToggleNetwork
  BY <1>10, CloseTypes DEF ToggleNetwork, GateTypeOK, LockTypeOK
<1>11. CASE LockNow
  BY <1>11 DEF LockNow, lock, GateTypeOK, LockTypeOK
<1>12. CASE Tick
  BY <1>12 DEF Tick, CooldownEnds, GateTypeOK, LockTypeOK
<1>13. CASE UNCHANGED gateVars
  BY <1>13 DEF gateVars, GateTypeOK, LockTypeOK
<1> QED
  BY <1>1, <1>2, <1>3, <1>4, <1>5, <1>6, <1>7, <1>8, <1>9, <1>10, <1>11, <1>12,
     <1>13 DEF GateNext, Dialogs, Around

\* The gate and the lock store it shares keep their types.
THEOREM GateTypeCorrect == GateSpec => []GateTypeOK
BY GateInitTypes, GateStepTypes, PTL DEF GateSpec

(***************************************************************************)
(* Whoever waits is answered                                               *)
(***************************************************************************)

LEMMA AnswerStep ==
  ASSUME AnswerInv, [GateNext]_gateVars
  PROVE  AnswerInv'
<1> USE DEF AnswerInv, NobodyIsLeftWaiting, ConfirmedHasAnswered, gate, history
<1>1. CASE trigger
  BY <1>1 DEF trigger
<1>2. ASSUME NEW n \in InFlight, NEW right \in BOOLEAN, Submit(n, right)
      PROVE  AnswerInv'
  BY <1>2 DEF Submit
<1>3. ASSUME NEW n \in InFlight, ReadHash(n)
      PROVE  AnswerInv'
  BY <1>3 DEF ReadHash
<1>4. ASSUME NEW n \in InFlight, Matched(n)
      PROVE  AnswerInv'
  BY <1>4 DEF Matched, Confirm
<1>5. ASSUME NEW n \in InFlight, Mismatched(n)
      PROVE  AnswerInv'
  BY <1>5 DEF Mismatched, Close
<1>6. CASE DismissRePin
  BY <1>6 DEF DismissRePin, Close
<1>7. CASE Frame
  BY <1>7 DEF Frame, Close
<1>8. CASE onWarningConfirm
  BY <1>8 DEF onWarningConfirm, Confirm
<1>9. CASE DismissWarning
  BY <1>9 DEF DismissWarning, Close
<1>10. CASE ToggleNetwork
  BY <1>10 DEF ToggleNetwork, Close
<1>11. CASE LockNow
  BY <1>11 DEF LockNow
<1>12. CASE Tick
  BY <1>12 DEF Tick
<1>13. CASE UNCHANGED gateVars
  BY <1>13 DEF gateVars
<1> QED
  BY <1>1, <1>2, <1>3, <1>4, <1>5, <1>6, <1>7, <1>8, <1>9, <1>10, <1>11, <1>12,
     <1>13 DEF GateNext, Dialogs, Around

\* Once the dialogs are closed nobody waits for the gate, whatever answers of
\* earlier sessions arrive in between.
THEOREM WaitersAnswered == GateSpec => []NobodyIsLeftWaiting
<1>1. GateInit => AnswerInv
  BY DEF GateInit, AnswerInv, NobodyIsLeftWaiting, ConfirmedHasAnswered
<1>2. AnswerInv => NobodyIsLeftWaiting
  BY DEF AnswerInv
<1> QED BY <1>1, <1>2, AnswerStep, PTL DEF GateSpec

(***************************************************************************)
(* Every confirmation has its PIN                                          *)
(***************************************************************************)

LEMMA PinsStep ==
  ASSUME GateTypeOK, PinsCover, [GateNext]_gateVars
  PROVE  PinsCover'
<1> USE DEF PinsCover, WarningShown, GateTypeOK, gate, history
<1>1. CASE trigger
  BY <1>1 DEF trigger
<1>2. ASSUME NEW n \in InFlight, NEW right \in BOOLEAN, Submit(n, right)
      PROVE  PinsCover'
  BY <1>2 DEF Submit
<1>3. ASSUME NEW n \in InFlight, ReadHash(n)
      PROVE  PinsCover'
  BY <1>3 DEF ReadHash
<1>4. ASSUME NEW n \in InFlight, Matched(n)
      PROVE  PinsCover'
  BY <1>4 DEF Matched, Confirm
<1>5. ASSUME NEW n \in InFlight, Mismatched(n)
      PROVE  PinsCover'
  BY <1>5 DEF Mismatched, Close
<1>6. CASE DismissRePin
  BY <1>6 DEF DismissRePin, Close
<1>7. CASE Frame
  BY <1>7 DEF Frame, Close
<1>8. CASE onWarningConfirm
  BY <1>8 DEF onWarningConfirm, Confirm
<1>9. CASE DismissWarning
  BY <1>9 DEF DismissWarning, Close
<1>10. CASE ToggleNetwork
  BY <1>10 DEF ToggleNetwork, Close
<1>11. CASE LockNow
  BY <1>11 DEF LockNow
<1>12. CASE Tick
  BY <1>12 DEF Tick
<1>13. CASE UNCHANGED gateVars
  BY <1>13 DEF gateVars
<1> QED
  BY <1>1, <1>2, <1>3, <1>4, <1>5, <1>6, <1>7, <1>8, <1>9, <1>10, <1>11, <1>12,
     <1>13 DEF GateNext, Dialogs, Around

\* The sensitive operation runs at most once for every right PIN: frames that
\* run late and warnings shown over a reopened dialog never add one.
THEOREM ConfirmedByPin == GateSpec => []EveryConfirmHasItsPin
<1>1. GateInit => PinsCover
  BY DEF GateInit, PinsCover, WarningShown
<1>2. GateTypeOK /\ PinsCover => EveryConfirmHasItsPin
  BY DEF PinsCover, WarningShown, GateTypeOK, EveryConfirmHasItsPin
<1> QED BY <1>1, <1>2, GateTypeCorrect, GateInitTypes, GateStepTypes, PinsStep, PTL DEF GateSpec

-----------------------------------------------------------------------------
(* SendForm *)

\* Only a wallet that holds a seed is ever prepared, or about to be.
SeedInv == init.signer \/ init.stage = "discovery" => kind = "seed"

\* Past the amount screen the form holds the amount that passed it.
AmountInv == screen \in {"fee", "review"} => amount = checked /\ amount > 0

\* An amount the user may have typed while a signing was held back.
MayDrift == platform = "mobile" /\ drifted

\* The run of a signing has closed over a payment of the wallet's; one that is
\* held back will close over one, and no desktop screen changes the form below it.
SigningInv ==
  /\ signing.tx # NoTx => /\ signing.tx.recipient \in Good
                          /\ signing.tx.amount > 0 \/ MayDrift
                          /\ kind = "seed"
  /\ signing.status = "paused" =>
       /\ amount > 0 \/ MayDrift
       /\ platform = "desktop" => screen \in {"review", "left"}

FormInv == SeedInv /\ AmountInv /\ SigningInv

(***************************************************************************)
(* The form: types                                                         *)
(***************************************************************************)

\* What each field of the form may hold.
FieldTypes ==
  /\ screen \in {"address", "amount", "fee", "review", "left"}
  /\ recipient \in Addresses /\ amount \in Amounts /\ checked \in Amounts
  /\ fee \in Fees /\ fee.subtract \in BOOLEAN
  /\ scanner \in [asking : BOOLEAN, visible : BOOLEAN]
  /\ signing \in [status : Statuses, tx : Tx \cup {NoTx}]

LEMMA FormInitTypes == Init => TypeOK
<1> SUFFICES ASSUME Init PROVE TypeOK
  OBVIOUS
<1>1. fee \in Fees /\ fee.subtract \in BOOLEAN
  BY DEF Init, Fees
<1>2. scanner \in [asking : BOOLEAN, visible : BOOLEAN]
  BY DEF Init
<1>3. init \in [stage : Stages, error : BOOLEAN, signer : BOOLEAN]
  BY DEF Init, Stages
<1>4. signing \in [status : Statuses, tx : Tx \cup {NoTx}]
  BY DEF Init, Statuses
<1>5. known \in Balances
  BY FormAssumption DEF Init
<1> QED BY <1>1, <1>2, <1>3, <1>4, <1>5, FormAssumption DEF Init, TypeOK, Addresses

\* The rate that is signed with is the oracle's, a custom one, 1 or the fallback.
LEMMA RateTypes ==
  ASSUME TypeOK
  PROVE  activeFeeRate \in Rates \cup {1, FALLBACK_RATE}
<1>1. fee.custom \in Rates \cup {0, 1} /\ live \in Rates \cup {0}
  BY DEF TypeOK, Fees
<1> QED BY <1>1 DEF activeFeeRate

\* What a run closes over is a payment or nothing.
LEMMA ClosureTypes ==
  ASSUME TypeOK
  PROVE  SigningClosure \in Tx \cup {NoTx}
BY RateTypes DEF SigningClosure, TypeOK, Tx

LEMMA SignTypes ==
  ASSUME TypeOK, prepareSigned \/ ResumeSigning \/ Signed \/ SigningFails
  PROVE  signing' \in [status : Statuses, tx : Tx \cup {NoTx}]
<1>1. CASE prepareSigned
  BY <1>1, ClosureTypes DEF prepareSigned, Running, Statuses
<1>2. CASE ResumeSigning
  BY <1>2, ClosureTypes DEF ResumeSigning, Running, Statuses
<1>3. CASE Signed
  BY <1>3 DEF Signed, TypeOK, Statuses
<1>4. CASE SigningFails
  BY <1>4 DEF SigningFails, Statuses
<1> QED BY <1>1, <1>2, <1>3, <1>4

LEMMA UserTypes ==
  ASSUME TypeOK, UserStep
  PROVE  FieldTypes'
<1> USE DEF TypeOK, FieldTypes, form
<1>0. UNCHANGED fee => (fee \in Fees /\ fee.subtract \in BOOLEAN)'
  BY DEF Fees
<1>a. UNCHANGED scanner => scanner' \in [asking : BOOLEAN, visible : BOOLEAN]
  OBVIOUS
<1>1. ASSUME NEW a \in Addresses, NEW sats \in Amounts, PasteUri(a, sats)
      PROVE  FieldTypes'
  BY <1>0, <1>1 DEF PasteUri
<1>2. ASSUME NEW a \in Addresses, setRecipientAddress(a) \/ DesktopAddressNext(a)
      PROVE  FieldTypes'
  BY <1>0, <1>2 DEF setRecipientAddress, DesktopAddressNext
<1>3. ASSUME NEW a \in Addresses, handleQRScanned(a)
      PROVE  FieldTypes'
  BY <1>0, <1>3 DEF handleQRScanned
<1>4. CASE OpenScanner \/ closeScanner
  BY <1>0, <1>4 DEF OpenScanner, closeScanner
<1>5. CASE PermissionAnswered
  BY <1>0, <1>5 DEF PermissionAnswered
<1>6. CASE MobileAddressNext \/ MobileAmountNext \/ MobileFeeNext
  BY <1>0, <1>6 DEF MobileAddressNext, MobileAmountNext, MobileFeeNext
<1>7. ASSUME NEW sats \in Amounts, EnterAmount(sats) \/ DesktopAmountNext(sats)
      PROVE  FieldTypes'
  BY <1>0, <1>7 DEF EnterAmount, DesktopAmountNext
<1>8. CASE setSubtractFeeFromAmount
  <2>1. fee' = [fee EXCEPT !.subtract = ~@]
        /\ UNCHANGED <<screen, recipient, amount, checked, scanner, signing>>
    BY <1>8 DEF setSubtractFeeFromAmount
  <2>2. (fee \in Fees /\ fee.subtract \in BOOLEAN)'
    BY <2>1 DEF Fees
  <2> QED BY <2>1, <2>2
<1>9. CASE EnterFee
  BY <1>9 DEF EnterFee, Fees
<1>10. ASSUME NEW f \in Fees, DesktopFeeNext(f)
       PROVE  FieldTypes'
  BY <1>10 DEF DesktopFeeNext, Fees
<1>11. CASE DesktopSign \/ MobileConfirm \/ Retry
  <2>1. prepareSigned /\ UNCHANGED <<screen, form, scanner>>
    BY <1>11 DEF DesktopSign, MobileConfirm, Retry
  <2>2. signing' \in [status : Statuses, tx : Tx \cup {NoTx}]
    BY <2>1, SignTypes
  <2> QED BY <1>0, <1>a, <2>1, <2>2
<1>12. CASE Back \/ Leave
  BY <1>0, <1>12 DEF Back, Leave
<1> QED
  BY <1>1, <1>2, <1>3, <1>4, <1>5, <1>6, <1>7, <1>8, <1>9, <1>10, <1>11, <1>12
  DEF UserStep

LEMMA FormTypeStep == TypeOK /\ [Next]_vars => TypeOK'
<1> SUFFICES ASSUME TypeOK, [Next]_vars PROVE TypeOK'
  OBVIOUS
<1>0. UNCHANGED form => (fee \in Fees /\ fee.subtract \in BOOLEAN)'
  BY DEF TypeOK, Fees, form
<1>1. CASE TypeRead \/ Discovered \/ WalletUpdated
  <2>1. init' \in [stage : Stages, error : BOOLEAN, signer : BOOLEAN]
    BY <1>1 DEF TypeRead, Discovered, WalletUpdated, TypeOK, Stages
  <2>2. /\ UNCHANGED <<platform, kind, screen, form, scanner, coins, live, known,
                       online, mutation>>
        /\ balanceLoading' \in BOOLEAN
    BY <1>1 DEF TypeRead, Discovered, WalletUpdated, TypeOK, outside
  <2> QED BY <1>0, <2>1, <2>2 DEF TypeOK, form, mutation
<1>2. CASE Chain \/ BalanceSettles \/ RatesArrive \/ Connection
  <2>1. UNCHANGED <<platform, kind, screen, form, scanner, init, mutation>>
    BY <1>2 DEF Chain, BalanceSettles, RatesArrive, Connection
  <2>2. /\ coins' \in Balances /\ known' \in Balances
        /\ live' \in Rates \cup {0}
        /\ online' \in BOOLEAN /\ balanceLoading' \in BOOLEAN
    BY <1>2 DEF Chain, BalanceSettles, RatesArrive, Connection, TypeOK
  <2> QED BY <1>0, <2>1, <2>2 DEF TypeOK, form, mutation
<1>3. CASE User
  <2>1. FieldTypes'
    BY <1>3, UserTypes DEF User
  <2>2. drifted' \in BOOLEAN
    BY <1>3 DEF User, TypeOK
  <2> QED BY <1>3, <2>1, <2>2 DEF User, Rest, TypeOK, FieldTypes, outside
<1>4. CASE UNCHANGED vars
  BY <1>0, <1>4 DEF vars, TypeOK, form, outside, mutation
<1>5. CASE ResumeSigning \/ SigningEnds
  <2>1. UNCHANGED <<platform, kind, screen, form, scanner, outside, init, drifted>>
    BY <1>5 DEF ResumeSigning, SigningEnds, Signed, SigningFails
  <2>2. signing' \in [status : Statuses, tx : Tx \cup {NoTx}]
    BY <1>5, SignTypes DEF SigningEnds
  <2> QED BY <1>0, <2>1, <2>2 DEF TypeOK, form, outside
<1> QED BY <1>1, <1>2, <1>3, <1>4, <1>5 DEF Next

\* Every field of the form, its scanner, its preparation and what it signed keep
\* their types.
THEOREM FormTypeCorrect == Spec => []TypeOK
BY FormInitTypes, FormTypeStep, PTL DEF Spec

(***************************************************************************)
(* The form: what is reviewed and what is signed                           *)
(***************************************************************************)

\* A step of the user that starts no signing: a signing that is held back takes
\* note of a new amount, which the desktop has no screen for.
LEMMA SigningKept ==
  ASSUME FormInv, Rest, UNCHANGED signing,
         drifted' = (drifted \/ (signing.status = "paused" /\ amount' # amount)),
         platform \in {"mobile", "desktop"},
         platform = "desktop" /\ screen \in {"review", "left"} =>
           screen' \in {"review", "left"} /\ amount' = amount
  PROVE  SigningInv'
BY DEF FormInv, SigningInv, MayDrift, Rest

\* What a run closes over on an unchanged form is payable if the form's amount is.
LEMMA ClosureIsPayable ==
  ASSUME FormInv, SigningClosure # NoTx
  PROVE  /\ SigningClosure.recipient \in Good /\ SigningClosure.amount = amount
         /\ kind = "seed"
BY DEF FormInv, SeedInv, SigningClosure, validateRecipientAddress

\* A signing that starts on the review screen.
LEMMA SigningStarts ==
  ASSUME TypeOK, FormInv, Rest, screen = "review", prepareSigned,
         UNCHANGED <<screen, form>>
  PROVE  SigningInv'
<1>1. amount' = amount /\ amount > 0 /\ kind' = kind /\ screen' = "review"
  BY DEF FormInv, AmountInv, form, Rest
<1>2. CASE online
  <2>1. signing' = Running
    BY <1>2 DEF prepareSigned
  <2>2. signing'.tx = SigningClosure /\ signing'.status = "running"
    BY <2>1 DEF Running
  <2> QED BY <1>1, <2>2, ClosureIsPayable DEF SigningInv
<1>3. CASE ~online
  <2>1. signing' = [status |-> "paused", tx |-> NoTx]
    BY <1>3 DEF prepareSigned
  <2> QED BY <1>1, <2>1 DEF SigningInv
<1> QED BY <1>2, <1>3

LEMMA FormUserStep ==
  ASSUME TypeOK, FormInv, User
  PROVE  FormInv'
<1>0. SeedInv' /\ Rest
  BY DEF FormInv, SeedInv, User, Rest
<1> USE DEF FormInv, AmountInv, form
<1>k. UNCHANGED signing =>
        drifted' = (drifted \/ (signing.status = "paused" /\ amount' # amount))
  BY DEF User
<1>p. platform \in {"mobile", "desktop"}
  BY DEF TypeOK
<1>1. ASSUME NEW a \in Addresses, NEW sats \in Amounts, PasteUri(a, sats)
      PROVE  FormInv'
  BY <1>0, <1>k, <1>p, <1>1, SigningKept DEF PasteUri
<1>2. ASSUME NEW a \in Addresses,
             setRecipientAddress(a) \/ DesktopAddressNext(a) \/ handleQRScanned(a)
      PROVE  FormInv'
  BY <1>0, <1>k, <1>p, <1>2, SigningKept
     DEF setRecipientAddress, DesktopAddressNext, handleQRScanned
<1>3. CASE OpenScanner \/ closeScanner \/ PermissionAnswered
  BY <1>0, <1>k, <1>p, <1>3, SigningKept DEF OpenScanner, closeScanner, PermissionAnswered
<1>4. CASE MobileAddressNext \/ MobileFeeNext
  BY <1>0, <1>k, <1>p, <1>4, SigningKept DEF MobileAddressNext, MobileFeeNext
<1>5. CASE MobileAmountNext
  BY <1>0, <1>k, <1>p, <1>5, SigningKept DEF MobileAmountNext, validateAmount
<1>6. ASSUME NEW sats \in Amounts, EnterAmount(sats) \/ DesktopAmountNext(sats)
      PROVE  FormInv'
  BY <1>0, <1>k, <1>p, <1>6, SigningKept DEF EnterAmount, DesktopAmountNext, validateAmount
<1>7. CASE setSubtractFeeFromAmount \/ EnterFee
  BY <1>0, <1>k, <1>p, <1>7, SigningKept DEF setSubtractFeeFromAmount, EnterFee
<1>8. ASSUME NEW f \in Fees, DesktopFeeNext(f)
      PROVE  FormInv'
  BY <1>0, <1>k, <1>p, <1>8, SigningKept DEF DesktopFeeNext
<1>9. CASE DesktopSign \/ MobileConfirm \/ Retry
  <2>1. /\ screen = "review" /\ prepareSigned
        /\ UNCHANGED <<screen, form>>
    BY <1>9 DEF DesktopSign, MobileConfirm, Retry
  <2>2. AmountInv'
    BY <2>1
  <2>3. SigningInv'
    BY <1>0, <2>1, SigningStarts
  <2> QED BY <1>0, <2>2, <2>3
<1>10. CASE Back \/ Leave
  BY <1>0, <1>k, <1>p, <1>10, SigningKept DEF Back, Leave
<1> QED
  BY <1>1, <1>2, <1>3, <1>4, <1>5, <1>6, <1>7, <1>8, <1>9, <1>10 DEF User, UserStep

LEMMA FormStep == TypeOK /\ FormInv /\ [Next]_vars => FormInv'
<1> SUFFICES ASSUME TypeOK, FormInv, [Next]_vars PROVE FormInv'
  OBVIOUS
<1>1. CASE TypeRead \/ Discovered \/ WalletUpdated
  <2>1. SeedInv'
    BY <1>1 DEF TypeRead, Discovered, WalletUpdated, FormInv, SeedInv, TypeOK
  <2>2. UNCHANGED <<platform, kind, screen, form, mutation>>
    BY <1>1 DEF TypeRead, Discovered, WalletUpdated
  <2> QED BY <2>1, <2>2 DEF FormInv, AmountInv, SigningInv, MayDrift, form, mutation
<1>2. CASE Chain \/ BalanceSettles \/ RatesArrive \/ Connection
  <2>1. UNCHANGED <<platform, kind, screen, form, init, mutation>>
    BY <1>2 DEF Chain, BalanceSettles, RatesArrive, Connection
  <2> QED BY <2>1 DEF FormInv, SeedInv, AmountInv, SigningInv, MayDrift, form, mutation
<1>3. CASE User
  BY <1>3, FormUserStep
<1>4. CASE UNCHANGED vars
  BY <1>4 DEF vars, FormInv, SeedInv, AmountInv, SigningInv, MayDrift, form, mutation
<1>5. CASE ResumeSigning
  <2>1. /\ signing.status = "paused" /\ signing' = Running
        /\ UNCHANGED <<platform, kind, screen, form, init, drifted>>
    BY <1>5 DEF ResumeSigning
  <2>2. signing'.tx = SigningClosure /\ signing'.status = "running"
    BY <2>1 DEF Running
  <2>3. amount > 0 \/ MayDrift
    BY <2>1 DEF FormInv, SigningInv
  <2>4. SigningInv'
    BY <2>1, <2>2, <2>3, ClosureIsPayable DEF SigningInv, MayDrift, form
  <2> QED BY <2>1, <2>4 DEF FormInv, SeedInv, AmountInv, form
<1>6. CASE SigningEnds
  <2>1. /\ UNCHANGED <<platform, kind, screen, form, init, drifted>>
        /\ signing'.status # "paused" /\ signing'.tx \in {signing.tx, NoTx}
    BY <1>6 DEF SigningEnds, Signed, SigningFails, TypeOK
  <2>2. SigningInv'
    BY <2>1 DEF FormInv, SigningInv, MayDrift
  <2> QED BY <2>1, <2>2 DEF FormInv, SeedInv, AmountInv, form
<1> QED BY <1>1, <1>2, <1>3, <1>4, <1>5, <1>6 DEF Next

LEMMA FormInvariant == Spec => []FormInv
<1>1. Init => FormInv
  BY DEF Init, FormInv, SeedInv, AmountInv, SigningInv
<1> QED BY <1>1, FormStep, FormTypeCorrect, PTL DEF Spec

\* For any addresses, amounts, rates and balances, whatever was pasted or scanned,
\* however often the preparation started over and however long a signing waited:
\* what is signed pays a valid recipient from a wallet that holds a seed, and a
\* positive amount unless it was typed over a signing that was held back.
THEOREM SignedStaysPayable == Spec => []SignedIsPayable
<1>1. FormInv => SignedIsPayable
  BY DEF FormInv, SigningInv, MayDrift, SignedIsPayable, signed
<1> QED BY <1>1, FormInvariant, PTL

\* The amount on the review screen is the one that passed the amount screen.
THEOREM ReviewedStaysChecked == Spec => []ReviewedWasChecked
<1>1. FormInv => ReviewedWasChecked
  BY DEF FormInv, AmountInv, ReviewedWasChecked
<1> QED BY <1>1, FormInvariant, PTL
=============================================================================
