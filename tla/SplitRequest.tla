---------------------------- MODULE SplitRequest ----------------------------
(***************************************************************************)
(* Split requests as ExpenseService.calcShares builds them: a step appends *)
(* a participant.  The properties compare what CalculateShares makes of    *)
(* the request so far with a fair split of it.                             *)
(***************************************************************************)
EXTENDS SplitCalc

CONSTANTS MaxTotal, MaxParticipants, Ratios, Amounts

ASSUME RequestAssumption == /\ MaxTotal \in Nat /\ MaxParticipants \in Nat
                            /\ Ratios \subseteq Int /\ Amounts \subseteq Int

VARIABLES total, splitType, participants
request == << total, splitType, participants >>

EmptyRequest == /\ total \in 1..MaxTotal
                /\ splitType \in SplitTypes
                /\ participants = << >>

\* participants = append(participants, ...), of what the split type reads.
AddParticipant ==
    /\ Len(participants) < MaxParticipants
    /\ \E r \in (IF splitType = "ratio" THEN Ratios ELSE {0}),
          a \in (IF splitType = "amount" THEN Amounts ELSE {0}) :
            participants' = Append(participants, [ratio |-> r, amount |-> a])
    /\ UNCHANGED << total, splitType >>

RequestSpec == EmptyRequest /\ [][AddParticipant]_request

Result  == CalculateShares(total, splitType, participants)
Shares  == Result.amounts
Ok      == Result.err = "none"
N       == Len(participants)
Cents   == Round2(total, Sub)
\* What the participants before the last one are given.
Before  == SumOf(SubSeq(Shares, 1, N - 1))
-----------------------------------------------------------------------------
\* split.go:43 promises that the shares add up to the total.  What
\* CalculateShares achieves: the total, or one cent more when the remainder of
\* the last participant is negative.
CutWithinACent == Ok => SumOf(Shares) \in {Cents, Cents + 1}

\* The sum is exact, and nobody's share is negative, exactly when the shares
\* before the last one do not exceed the total (never in the amount mode).
ExactIffCovered ==
    Ok => /\ (SumOf(Shares) = Cents) <=> (Before <= Cents)
          /\ (Before <= Cents) => \A i \in 1..N : Shares[i] >= 0

\* In an equal split nobody but the last pays more than half a cent away from
\* total/N, and the last is at most N/2 cents (one more when negative) away.
FairCut ==
    Ok /\ splitType = "equal" =>
        /\ \A i \in 1..N-1 :
              LET off == 2 * (N * Shares[i] - total) IN off <= N /\ -off <= N
        /\ LET off == 2 * (N * Shares[N] - total)
           IN  off <= N * (N + 2) /\ -off <= N * N

\* In a ratio split a participant with the larger ratio never pays less than
\* one with a smaller ratio (the last participant, who absorbs, excepted).
RatioOrder ==
    Ok /\ splitType = "ratio" =>
        \A i, j \in 1..N-1 :
            participants[i].ratio >= participants[j].ratio => Shares[i] >= Shares[j]
=============================================================================
