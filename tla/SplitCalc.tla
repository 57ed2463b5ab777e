------------------------------ MODULE SplitCalc ------------------------------
(***************************************************************************)
(* The share calculation of backend/pkg/splitcalc/split.go.                *)
(*                                                                         *)
(* Money enters the program as a float64 in yuan and leaves a share as a   *)
(* whole number of cents.  Here an input amount is an integer number of    *)
(* 1/Sub cents (Sub = 1: inputs are whole cents; Sub = 10: tenths of a     *)
(* cent are accepted, as the request validation `gt=0' accepts them), and  *)
(* a rounded amount is an integer number of cents.                         *)
(*                                                                         *)
(* Arithmetic on the rationals n/d that the code rounds is exact, except   *)
(* on a tie (n/d is k + 1/2 cents): there the binary value of v*100+0.5    *)
(* may fall on either side of the integer, so which ties fall towards zero *)
(* is the parameter TiesDown.  The column `Ratio' of a share is only       *)
(* displayed and is left out.                                              *)
(***************************************************************************)
EXTENDS Integers, Sequences, SequencesExt

CONSTANTS
    Sub,             \* input units per cent
    TiesDown(_, _)   \* TiesDown(n, d): the float for n/d loses its tie

ASSUME SubAssumption == Sub \in Nat \ {0}

SplitTypes == {"equal", "ratio", "amount"}

\* Go's int64(x) conversion of the rational n/d: truncation towards zero.
Trunc(n, d) == IF n >= 0 THEN n \div d ELSE -((-n) \div d)

TowardZero(k) == IF k > 0 THEN k - 1 ELSE IF k < 0 THEN k + 1 ELSE 0

\* round2 of n/d cents, in cents: int64(v*100 + 0.5).  A negative value is
\* truncated towards zero after the half is added, so -1 becomes 0.
Round2(n, d) ==
    LET k   == Trunc(2 * n + d, 2 * d)
        tie == (2 * n + d) % (2 * d) = 0
    IN  IF tie /\ TiesDown(n, d) THEN TowardZero(k) ELSE k

SumOf(s) == FoldLeft(LAMBDA a, b : a + b, 0, s)

-----------------------------------------------------------------------------

\* What has been allocated after the first k shares of base (line 62, 82).
Allocated(base, k) ==
    FoldLeft(LAMBDA acc, b : Round2(acc + b, 1), 0, SubSeq(base, 1, k))

\* Mutant: the last participant does not absorb the rounding remainder.
Cut_NoAbsorb(total, base) == base

\* Mutant: the remainder misses the share before the last one.
Cut_StaleAllocated(total, base) ==
    [base EXCEPT ![Len(base)] =
        Round2(total - Sub * Allocated(base, Len(base) - 2), Sub)]

\* The loop of the equal and ratio modes: everyone gets his rounded base,
\* the last participant what is left of the total.
Cut(total, base) ==
    [base EXCEPT ![Len(base)] =
        Round2(total - Sub * Allocated(base, Len(base) - 1), Sub)]

\* Mutant: the divisor counts one participant too many.
EqualBase_OneShort(total, ps) ==
    [i \in 1..Len(ps) |-> Round2(total, Sub * (Len(ps) + 1))]

EqualBase(total, ps) == [i \in 1..Len(ps) |-> Round2(total, Sub * Len(ps))]

SumRatio(ps) == SumOf([i \in 1..Len(ps) |-> ps[i].ratio])

\* Mutant: the ratio of the next participant is used.
RatioBase_Shifted(total, ps) ==
    [i \in 1..Len(ps) |->
        Round2(total * ps[(i % Len(ps)) + 1].ratio, Sub * SumRatio(ps))]

RatioBase(total, ps) ==
    [i \in 1..Len(ps) |-> Round2(total * ps[i].ratio, Sub * SumRatio(ps))]

AmountShares(ps) == [i \in 1..Len(ps) |-> Round2(ps[i].amount, Sub)]

SumAmount(ps) == SumOf([i \in 1..Len(ps) |-> ps[i].amount])

-----------------------------------------------------------------------------

\* The early returns with ErrInvalidSplit.
InvalidSplit(total, splitType, ps) ==
    \/ total <= 0
    \/ ps = << >>
    \/ splitType \notin SplitTypes
    \/ splitType = "ratio" /\ \E i \in 1..Len(ps) : ps[i].ratio < 0
    \/ splitType = "ratio" /\ SumRatio(ps) <= 0
    \/ splitType = "amount" /\ \E i \in 1..Len(ps) : ps[i].amount < 0

\* The early return with ErrSumMismatch.
SumMismatch(total, splitType, ps) ==
    splitType = "amount" /\ Round2(SumAmount(ps), Sub) # Round2(total, Sub)

\* CalculateShares: the error it returns, or the share of each participant.
CalculateShares(total, splitType, ps) ==
    IF InvalidSplit(total, splitType, ps)
    THEN [err |-> "invalid", amounts |-> << >>]
    ELSE IF SumMismatch(total, splitType, ps)
    THEN [err |-> "mismatch", amounts |-> << >>]
    ELSE [err |-> "none", amounts |->
            CASE splitType = "equal"  -> Cut(total, EqualBase(total, ps))
              [] splitType = "ratio"  -> Cut(total, RatioBase(total, ps))
              [] splitType = "amount" -> AmountShares(ps)]
=============================================================================
