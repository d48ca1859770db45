--------------------------- MODULE CoinSelection ---------------------------
(***************************************************************************)
(* The coin selection of packages/core/src/tx.ts (selectUtxos), one action *)
(* per iteration of its loop, and the fee the draft reports for the        *)
(* selection (packages/services/src/transaction/preview.ts).               *)
(*                                                                         *)
(* A coin is its value. The code sorts the coins first: a state starts     *)
(* from the sorted list, and every ascending list is the sort of some      *)
(* input. The outputs are their number and their total.                    *)
(***************************************************************************)
EXTENDS Integers, Sequences, FiniteSets, Functions

CONSTANTS
  CoinValues,     \* values a coin may have, in satoshis
  MaxCoins,       \* how many coins the wallet may hold (bound)
  Targets,        \* totals the recipients may be owed
  OutputCounts,   \* how many recipients a draft may have
  FeeRates        \* fee rates, in satoshis per virtual byte

ASSUME CoinAssumption ==
  /\ CoinValues \subseteq Nat \ {0}
  /\ Targets \subseteq Nat \ {0}
  /\ OutputCounts \subseteq Nat \ {0}
  /\ FeeRates \subseteq Nat \ {0}
  /\ MaxCoins \in Nat

VARIABLES
  sorted,         \* the coins, smallest first
  target,         \* targetTotal
  nOut,           \* outputs.length
  feeRate,
  taken,          \* selected.length: the first `taken` coins of sorted
  accumulated,
  status,         \* "running", "success" or "insufficient_funds"
  change

inputs == <<sorted, target, nOut, feeRate>>
coinVars == <<inputs, taken, accumulated, status, change>>

DUST_THRESHOLD == 294

\* Weights are halves of a virtual byte, so that they are integers:
\* 10.5 + 57.5 per input + 43 per output, rounded up.
VBytes(nIn, outs) == (21 + 115 * nIn + 86 * outs + 1) \div 2

EstimateFee(nIn, outs, rate) == VBytes(nIn, outs) * rate

-----------------------------------------------------------------------------

AscendingSeqs ==
  UNION { { s \in [1..n -> CoinValues] : \A k \in 1..(n - 1) : s[k] <= s[k + 1] }
          : n \in 0..MaxCoins }

CoinInit ==
  /\ sorted \in AscendingSeqs
  /\ target \in Targets
  /\ nOut \in OutputCounts
  /\ feeRate \in FeeRates
  /\ taken = 0
  /\ accumulated = 0
  /\ status = "running"
  /\ change = 0

(***************************************************************************)
(* One iteration: push the next coin, then decide.                         *)
(***************************************************************************)

Push ==
  /\ status = "running"
  /\ taken < Len(sorted)
  /\ taken' = taken + 1
  /\ accumulated' = accumulated + sorted[taken + 1]
  /\ UNCHANGED inputs

FeeNoChange == EstimateFee(taken + 1, nOut, feeRate)
FeeWithChange == EstimateFee(taken + 1, nOut + 1, feeRate)

Enough == accumulated' >= target + FeeNoChange

\* Seeded fault: the change is what is left before its own output is paid for.
ChangeIfKeptUnpaid == accumulated' - target - FeeNoChange

\* changeWithFee: what is left once the change output itself is paid for.
ChangeIfKept == accumulated' - target - FeeWithChange

TakeNotEnough ==
  /\ Push
  /\ ~Enough
  /\ UNCHANGED <<status, change>>

TakeExact ==
  /\ Push
  /\ Enough
  /\ accumulated' = target + FeeNoChange
  /\ status' = "success"
  /\ change' = 0

\* Dust, negative included, is left to the miner.
TakeFolded ==
  /\ Push
  /\ Enough
  /\ accumulated' # target + FeeNoChange
  /\ ChangeIfKept < DUST_THRESHOLD
  /\ status' = "success"
  /\ change' = 0

TakeWithChange ==
  /\ Push
  /\ Enough
  /\ accumulated' # target + FeeNoChange
  /\ ChangeIfKept >= DUST_THRESHOLD
  /\ status' = "success"
  /\ change' = ChangeIfKept

\* Seeded fault: the loop stops one coin early.
ExhaustedEarly ==
  /\ status = "running"
  /\ taken + 1 >= Len(sorted)
  /\ status' = "insufficient_funds"
  /\ UNCHANGED <<inputs, taken, accumulated, change>>

Exhausted ==
  /\ status = "running"
  /\ taken = Len(sorted)
  /\ status' = "insufficient_funds"
  /\ UNCHANGED <<inputs, taken, accumulated, change>>

CoinNext ==
  \/ TakeNotEnough
  \/ TakeExact
  \/ TakeFolded
  \/ TakeWithChange
  \/ Exhausted

CoinSpec == CoinInit /\ [][CoinNext]_coinVars

-----------------------------------------------------------------------------

CoinTypeOK ==
  /\ sorted \in Seq(CoinValues)
  /\ target \in Targets /\ nOut \in OutputCounts /\ feeRate \in FeeRates
  /\ taken \in 0..Len(sorted)
  /\ accumulated \in Nat
  /\ status \in {"running", "success", "insufficient_funds"}
  /\ change \in Nat

Actual == EstimateFee(taken, IF change > 0 THEN nOut + 1 ELSE nOut, feeRate)

\* The fee the loop settled on.
SelectionFee == accumulated - target - change

\* A selection pays at least the rate the user chose for the transaction that
\* is really built (the change output counted), exactly that when there is
\* change, which then is no dust, and without change it overpays by less than a
\* change output and the dust it would have held (tx.ts: estimate, re-estimate,
\* fold).
FeeIsFair ==
  status = "success" =>
    /\ SelectionFee >= Actual
    /\ change > 0 => SelectionFee = Actual /\ change >= DUST_THRESHOLD
    /\ change = 0 =>
         SelectionFee < EstimateFee(taken, nOut + 1, feeRate) + DUST_THRESHOLD

Affordable(S) ==
  /\ S # {}
  /\ SumFunctionOnSet(sorted, S)
       >= target + EstimateFee(Cardinality(S), nOut, feeRate)

\* When every coin is worth more than the fee of spending it, the selection
\* fails only if no set of the coins could pay.
CompleteWhenEconomical ==
  (status = "insufficient_funds"
     /\ \A k \in 1..Len(sorted) : sorted[k] >= 58 * feeRate)
  => \A S \in SUBSET (1..Len(sorted)) : ~Affordable(S)
=============================================================================
