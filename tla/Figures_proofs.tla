--------------------------- MODULE Figures_proofs ---------------------------
(***************************************************************************)
(* Theorems about what computes figures: the two functions of the package  *)
(* splitcalc, and the reports that sum up what is stored.                  *)
(*                                                                         *)
(* The loop of OptimizeTransfers, for every finite set of people and all   *)
(* balances in whole cents.  LoopInv of Transfers_proofs is the invariant: *)
(* nobody who is still to be matched is through (so that each transfer     *)
(* moves money), what each person in the lists has paid or got and what is *)
(* still open add up to his balance, and what is open in the two lists     *)
(* differs by the balances' sum and the cents of those not listed.         *)
(*                                                                         *)
(* CalculateShares, for requests in whole cents of any size and however    *)
(* ties fall: SharesAddUp of Transfers_proofs gives the sum, and what      *)
(* round2 keeps of a quotient (it is at most half a cent off, and keeps    *)
(* the order) gives what each participant pays.                            *)
(*                                                                         *)
(* The reports, for every table of expenses, any page size and any number  *)
(* of requests and writers.  ReportInv is the invariant: as long as nobody *)
(* has written, what a request has read is what it would read now, and a   *)
(* client that lists has the rows of exactly the pages it has read.        *)
(***************************************************************************)
EXTENDS TransferPlan, SplitRequest, GroupReport, Transfers_proofs

LoopIInv == balance \in Balances /\ LoopInv(balance, m)

LEMMA Whole == ASSUME NEW b \in Balances PROVE WholeBalances(b) /\ DOMAIN b = People
BY PeopleAssumption, BalancesAssumption DEF WholeBalances

\* The loop starts with the debtors and creditors, none of them through.
LEMMA InitLoop == FillLists => LoopIInv
BY Whole, LoopStarts DEF FillLists, LoopIInv

\* An iteration transfers the smaller open amount and keeps the invariant.
LEMMA IterateLoop == LoopIInv /\ [Iterate]_loopVars => LoopIInv'
<1> SUFFICES ASSUME LoopIInv, [Iterate]_loopVars PROVE LoopIInv' OBVIOUS
<1>1. balance' = balance /\ balance \in Balances BY DEF LoopIInv, Iterate, loopVars
<1>2. LoopInv(balance, m')
  <2>1. CASE Iterate
    <3>1. WholeBalances(balance) /\ LoopInv(balance, m) /\ More(m) /\ m' = Match(m)
      BY <2>1, Whole DEF LoopIInv, Iterate
    <3> QED BY <3>1, LoopGoesOn
  <2>2. CASE UNCHANGED loopVars BY <2>2 DEF loopVars, LoopIInv
  <2> QED BY <2>1, <2>2
<1> QED BY <1>1, <1>2 DEF LoopIInv

\* The invariant of the loop.
THEOREM LoopInvariance == LoopSpec => []LoopIInv
BY InitLoop, IterateLoop, PTL DEF LoopSpec

LEMMA LoopPlan == LoopIInv => PlanInv
<1> SUFFICES ASSUME LoopIInv PROVE PlanInv OBVIOUS
<1>1. DOMAIN balance = People BY Whole DEF LoopIInv
<1>2. LoopTypeOK
  <2>1. m \in LoopState(People) BY <1>1 DEF LoopIInv, LoopInv
  <2> QED BY <2>1 DEF LoopIInv, LoopTypeOK, LoopState, Entry, Transfer, Listing, Payments
<1>3. Counted BY DEF LoopIInv, LoopInv, Counted, CountsDown
<1> QED BY <1>2, <1>3 DEF PlanInv

\* Nobody who is still to be matched is through, and each iteration has finished
\* somebody.
THEOREM PlanInvariance == LoopSpec => []PlanInv
BY LoopPlan, LoopInvariance, PTL

\* No amount in the lists becomes negative and every transfer moves money.
THEOREM LoopTypeCorrect == LoopSpec => []LoopTypeOK
<1>1. PlanInv => LoopTypeOK
  BY DEF PlanInv
<1> QED
  BY <1>1, PlanInvariance, PTL

\* There are fewer transfers than debtors and creditors.
THEOREM FewerTransfersThanPeople == LoopSpec => []FewTransfers
<1>1. PlanInv => FewTransfers
  <2> SUFFICES ASSUME PlanInv, m.transfers # << >> PROVE FewTransfers
    BY DEF FewTransfers
  <2>1. /\ Len(m.transfers) \in Nat \ {0} /\ Len(m.debtors) \in Nat
        /\ Len(m.creditors) \in Nat /\ m.i \in Nat \ {0} /\ m.j \in Nat \ {0}
    <3>1. /\ m.debtors \in Seq(Entry) /\ m.creditors \in Seq(Entry)
          /\ m.transfers \in Seq(Transfer) /\ m.i \in Nat \ {0} /\ m.j \in Nat \ {0}
      BY DEF PlanInv, LoopTypeOK
    <3> QED
      BY <3>1
  <2>2. /\ m.i <= Len(m.debtors) + 1 /\ m.j <= Len(m.creditors) + 1
        /\ Len(m.transfers) <= m.i + m.j - 2
        /\ m.i = Len(m.debtors) + 1 /\ m.j = Len(m.creditors) + 1
              /\ Len(m.transfers) > 0
              => Len(m.transfers) < Len(m.debtors) + Len(m.creditors)
    BY DEF PlanInv, Counted
  <2> DEFINE nt == Len(m.transfers)
             nd == Len(m.debtors)
             nc == Len(m.creditors)
  <2>3. nt < nd + nc
    <3> HIDE DEF nt, nd, nc
    <3>1. /\ nt \in Nat \ {0} /\ nd \in Nat /\ nc \in Nat
          /\ m.i \in Nat \ {0} /\ m.j \in Nat \ {0}
      BY <2>1 DEF nt, nd, nc
    <3>2. /\ m.i <= nd + 1 /\ m.j <= nc + 1 /\ nt <= m.i + m.j - 2
          /\ m.i = nd + 1 /\ m.j = nc + 1 /\ nt > 0 => nt < nd + nc
      BY <2>2 DEF nt, nd, nc
    <3> QED
      BY <3>1, <3>2
  <2> QED
    BY <2>3 DEF FewTransfers
<1> QED
  BY <1>1, PlanInvariance, PTL

\* No debtor pays more than he owes, no creditor gets more than he is due, and
\* nobody both pays and gets.
THEOREM NobodyPaysTooMuch == LoopSpec => []NobodyOverpays
<1>1. LoopIInv => NobodyOverpays
  <2> SUFFICES ASSUME LoopIInv PROVE NobodyOverpays OBVIOUS
  <2>1. /\ WholeBalances(balance) /\ DOMAIN balance = People
        /\ LoopInv(balance, m) /\ Books(balance, m)
    BY Whole DEF LoopIInv, LoopInv
  <2>2. \A u : Sent(u) = SentBy(m.transfers, u) /\ Received(u) = ReceivedBy(m.transfers, u)
    BY DEF Sent, Received, SentBy, ReceivedBy
  <2>3. \A u \in People : Sent(u) = 0 \/ Received(u) = 0
    BY <2>1, <2>2, NobodyMore
  <2> QED BY <2>1, <2>2, <2>3 DEF Books, NobodyOverpays
<1> QED
  BY <1>1, LoopInvariance, PTL

\* When the balances cancel, every listed debtor is settled at the end and what
\* the creditors still miss are the cents of those who owe one cent.
THEOREM EveryoneSettled == LoopSpec => []SettlesAllButCents
<1>1. LoopIInv => SettlesAllButCents
  <2> SUFFICES ASSUME LoopIInv, Done, ZeroSum
               PROVE  Open(m.debtors) = 0 /\ Open(m.creditors) = Cardinality(OneCent)
    BY DEF SettlesAllButCents
  <2>1. /\ WholeBalances(balance) /\ DOMAIN balance = People
        /\ LoopInv(balance, m) /\ ~More(m)
    BY Whole DEF LoopIInv, Done
  <2> DEFINE D == OpenIn(m.debtors)  C == OpenIn(m.creditors)
  <2>2. /\ D \in Nat /\ C \in Nat /\ (D = 0 \/ C = 0)
        /\ C - D = SumFunctionOnSet(balance, People) + Cardinality(OneCentDebtors(balance))
    BY <2>1, LoopEnds
  <2>3. OneCentDebtors(balance) = OneCent BY <2>1 DEF OneCent, OneCentDebtors
  <2>4. Cardinality(OneCent) \in Nat
    <3>1. OneCent \in SUBSET People BY DEF OneCent
    <3> QED BY <3>1, PeopleAssumption, FS_Subset, FS_CardinalityType
  <2>5. \A list : Open(list) = OpenIn(list) BY DEF Open, OpenIn
  <2> HIDE DEF D, C
  <2>6. D = 0 /\ C = Cardinality(OneCent) BY <2>2, <2>3, <2>4 DEF ZeroSum
  <2> QED BY <2>5, <2>6 DEF D, C
<1> QED
  BY <1>1, LoopInvariance, PTL
-----------------------------------------------------------------------------
\* What round2 does to a quotient: q is the nearest integer, and a tie may be lost.
Rounds(s, q, n, d) ==
    /\ s \in Nat /\ q \in Nat
    /\ (2 * d) * q <= 2 * n + d /\ 2 * n + d < (2 * d) * q + 2 * d
    /\ s = q \/ (s = q - 1 /\ (2 * d) * q = 2 * n + d)

LEMMA Quotient ==
    ASSUME NEW a \in Nat, NEW b \in Nat \ {0}
    PROVE  /\ a \div b \in Nat /\ b * (a \div b) <= a /\ a < b * (a \div b) + b
           /\ a % b = 0 => b * (a \div b) = a
BY Z3

LEMMA Rounding ==
    ASSUME NEW n \in Nat, NEW d \in Nat \ {0}
    PROVE  \E q : Rounds(Round2(n, d), q, n, d)
<1> DEFINE a == 2 * n + d
           b == 2 * d
           q == a \div b
<1>1. a \in Nat /\ b \in Nat \ {0} /\ a >= 0 OBVIOUS
<1>2. Trunc(a, b) = q BY <1>1 DEF Trunc
<1>3. Round2(n, d) = IF a % b = 0 /\ TiesDown(n, d) THEN TowardZero(q) ELSE q
  BY <1>2 DEF Round2
<1> HIDE DEF a, b
<1>4. /\ q \in Nat /\ b * q <= a /\ a < b * q + b
      /\ a % b = 0 => b * q = a
  BY <1>1, Quotient
<1> HIDE DEF q
<1>5. Round2(n, d) = q \/ (Round2(n, d) = q - 1 /\ b * q = a)
  <2>1. q # 0 => TowardZero(q) = q - 1 BY <1>4 DEF TowardZero
  <2>2. q = 0 => TowardZero(q) = q BY DEF TowardZero
  <2> QED BY <1>3, <1>4, <2>1, <2>2
<1>6. Round2(n, d) \in Nat BY Round2Natural
<1> QED BY <1>4, <1>5, <1>6 DEF Rounds, a, b

\* A rounded quotient is at most half a cent off,
LEMMA RoundsNear ==
    ASSUME NEW n \in Nat, NEW d \in Nat \ {0}, NEW s, s = Round2(n, d)
    PROVE  LET off == 2 * (d * s - n) IN off \in Int /\ off <= d /\ -off <= d
<1>1. PICK q : Rounds(s, q, n, d) BY Rounding
<1>2. s \in Nat /\ q \in Nat BY <1>1 DEF Rounds
<1> DEFINE P == d * s
           Q == d * q
<1>3. P \in Int /\ Q \in Int /\ (2 * d) * q = 2 * Q BY <1>2, Z3
<1>4. s = q - 1 => P = Q - d BY <1>2, Z3
<1>5. s = q => P = Q OBVIOUS
<1>6. /\ 2 * Q <= 2 * n + d /\ 2 * n + d < 2 * Q + 2 * d
      /\ s = q \/ (s = q - 1 /\ 2 * Q = 2 * n + d)
  BY <1>1, <1>3 DEF Rounds
<1> HIDE DEF P, Q
<1>7. P = Q \/ (P = Q - d /\ 2 * Q = 2 * n + d) BY <1>4, <1>5, <1>6
<1>8. LET off == 2 * (P - n) IN off \in Int /\ off <= d /\ -off <= d
  BY <1>3, <1>6, <1>7
<1> QED BY <1>8 DEF P

\* and of two quotients the larger one stays so.
LEMMA RoundsInOrder ==
    ASSUME NEW n \in Nat, NEW k \in Nat, n <= k, NEW d \in Nat \ {0}
    PROVE  Round2(n, d) <= Round2(k, d)
<1>1. CASE n = k
  <2>1. Round2(n, d) \in Nat BY Round2Natural
  <2> QED BY <1>1, <2>1
<1>2. CASE n < k
  <2>1. PICK p : Rounds(Round2(n, d), p, n, d) BY Rounding
  <2>2. PICK q : Rounds(Round2(k, d), q, k, d) BY Rounding
  <2> DEFINE b == 2 * d
             s == Round2(n, d)
             t == Round2(k, d)
  <2>3. /\ s \in Nat /\ p \in Nat /\ t \in Nat /\ q \in Nat /\ b \in Nat \ {0}
        /\ b * p <= 2 * n + d /\ 2 * k + d < b * q + b
        /\ s <= p
        /\ t = q \/ (t = q - 1 /\ b * q = 2 * k + d)
    BY <2>1, <2>2 DEF Rounds
  <2> HIDE DEF b, s, t
  <2>4. b * p < b * q + b BY <1>2, <2>3
  <2>5. p < q + 1
    <3>1. b * p < b * (q + 1) BY <2>3, <2>4, Z3
    <3> QED BY <2>3, <3>1, Z3
  <2>6. b * q = 2 * k + d => p < q
    <3>1. b * q = 2 * k + d => b * p < b * q BY <1>2, <2>3
    <3> QED BY <2>3, <3>1, Z3
  <2>7. s <= t BY <2>3, <2>5, <2>6
  <2> QED BY <2>7 DEF s, t
<1> QED BY <1>1, <1>2


\* A part of a sum of natural numbers that cancels: used with the shares of all
\* but the last of n participants.
LEMMA Scaled ==
    ASSUME NEW n \in Nat \ {0}, NEW c \in Int, NEW t \in Int, NEW x \in Int,
           x = t - (n - 1) * c
    PROVE  n * x - t = (n - 1) * (t - n * c)
BY Z3

LEMMA Multiples ==
    ASSUME NEW k \in Nat, NEW x \in Int, NEW y \in Int, x <= y
    PROVE  k * x \in Int /\ k * x <= k * y
BY Z3
-----------------------------------------------------------------------------
Participant == [ratio : Ratios \cup {0}, amount : Amounts \cup {0}]

Building == /\ total \in 1 .. MaxTotal /\ splitType \in SplitTypes
            /\ participants \in Seq(Participant)

LEMMA Built == RequestSpec => []Building
<1>1. EmptyRequest => Building BY DEF EmptyRequest, Building
<1>2. Building /\ [AddParticipant]_request => Building'
  <2> SUFFICES ASSUME Building, [AddParticipant]_request PROVE Building' OBVIOUS
  <2>1. CASE AddParticipant
    <3>1. PICK r \in Ratios \cup {0}, a \in Amounts \cup {0} :
             participants' = Append(participants, [ratio |-> r, amount |-> a])
      BY <2>1 DEF AddParticipant
    <3>2. [ratio |-> r, amount |-> a] \in Participant BY DEF Participant
    <3>3. total' = total /\ splitType' = splitType BY <2>1 DEF AddParticipant
    <3> QED BY <3>1, <3>2, <3>3 DEF Building
  <2>2. CASE UNCHANGED request BY <2>2 DEF request, Building
  <2> QED BY <2>1, <2>2
<1> QED BY <1>1, <1>2, PTL DEF RequestSpec

\* What SharesAddUp says of a request.
LEMMA Divided ==
    ASSUME Sub = 1, Building, Ok
    PROVE  /\ total \in Nat \ {0} /\ N \in Nat \ {0} /\ Cents = total
           /\ Divides(Shares, N, total)
           /\ Before = AllButLast(Shares) /\ Before \in Int
           /\ SumOf(Shares) \in {total, total + 1}
<1>1. total \in Nat \ {0}
  <2>1. MaxTotal \in Nat BY RequestAssumption
  <2> QED BY <2>1 DEF Building
<1>2. N \in Nat \ {0}
  <2>1. participants # << >> BY DEF Ok, Result, CalculateShares, InvalidSplit
  <2> QED BY <2>1 DEF Building, N
<1>3. Cents = total BY <1>1, Round2Cents DEF Cents
<1>4. InCents(Participant)
  <2>1. Ratios \cup {0} \subseteq Int /\ Amounts \cup {0} \subseteq Int BY RequestAssumption
  <2>2. \A p \in Participant : p.ratio \in Ratios \cup {0} /\ p.amount \in Amounts \cup {0}
    BY DEF Participant
  <2> QED BY <2>1, <2>2 DEF InCents
<1>5. Divides(Shares, N, total)
  <2>1. /\ total \in Int /\ participants \in Seq(Participant)
        /\ Result = CalculateShares(total, splitType, participants) /\ Result.err = "none"
    BY <1>1 DEF Building, Ok, Result
  <2> HIDE DEF Result
  <2>2. Divides(Result.amounts, Len(participants), total) BY <1>4, <2>1, SharesAddUp
  <2> QED BY <2>2 DEF Shares, N
<1>6. Before = AllButLast(Shares) BY <1>5 DEF Before, AllButLast, Divides
<1>7. AllButLast(Shares) \in Int /\ SumOf(Shares) \in {total, total + 1}
  <2>1. total \in Int BY <1>1
  <2> HIDE DEF Shares, N
  <2> QED BY <1>2, <1>5, <2>1, SharesWithinACent
<1> QED BY <1>1, <1>2, <1>3, <1>5, <1>6, <1>7

\* The shares add up to the total or to one cent more.
THEOREM NothingGetsLost ==
    ASSUME Sub = 1
    PROVE  RequestSpec => []CutWithinACent
<1>1. Building => CutWithinACent BY Divided DEF CutWithinACent
<1> QED BY <1>1, Built, PTL

\* They add up to the total, none of them negative, unless those before the last
\* exceed it.
THEOREM ExactUnlessExceeded ==
    ASSUME Sub = 1
    PROVE  RequestSpec => []ExactIffCovered
<1>1. Building => ExactIffCovered
  <2> SUFFICES ASSUME Building, Ok
               PROVE  /\ (SumOf(Shares) = Cents) <=> (Before <= Cents)
                      /\ (Before <= Cents) => \A i \in 1 .. N : Shares[i] >= 0
    BY DEF ExactIffCovered
  <2>1. /\ total \in Nat /\ Cents = total /\ Divides(Shares, N, total)
        /\ Before = AllButLast(Shares) /\ Before \in Int
    BY Divided
  <2> HIDE DEF Cents, Before, Shares, N
  <2>2. /\ Before <= total => SumOf(Shares) = total /\ \A k \in 1 .. N : Shares[k] \in Nat
        /\ Before > total => SumOf(Shares) = total + 1
    BY <2>1 DEF Divides
  <2>3. total + 1 # total /\ (Before <= total \/ Before > total) BY <2>1
  <2>4. SumOf(Shares) = total <=> Before <= total BY <2>2, <2>3
  <2>5. Before <= total => \A k \in 1 .. N : Shares[k] >= 0 BY <2>2
  <2> QED BY <2>1, <2>4, <2>5
<1> QED BY <1>1, Built, PTL

\* All but the last participant pay what their base is.
LEMMA CutKeeps ==
    ASSUME NEW n \in Nat, NEW base, Len(base) = n, NEW t
    PROVE  \A k \in 1 .. n - 1 : Cut(t, base)[k] = base[k]
BY DEF Cut

\* In an equal split nobody but the last is more than half a cent away from
\* total/N, and the last at most N/2 cents, or one more when negative.
THEOREM EqualSplitsAreFair ==
    ASSUME Sub = 1
    PROVE  RequestSpec => []FairCut
<1>1. Building => FairCut
  <2> SUFFICES ASSUME Building, Ok, splitType = "equal"
               PROVE  /\ \A i \in 1 .. N - 1 :
                            LET off == 2 * (N * Shares[i] - total) IN off <= N /\ -off <= N
                      /\ LET off == 2 * (N * Shares[N] - total)
                         IN  off <= N * (N + 2) /\ -off <= N * N
    BY DEF FairCut
  <2> DEFINE c == Round2(total, N)
             e == 2 * (N * c - total)
             last == Shares[N]
  <2>1. /\ total \in Nat \ {0} /\ N \in Nat \ {0} /\ Divides(Shares, N, total)
        /\ SumOf(Shares) \in {total, total + 1}
    BY Divided
  <2>2. c \in Nat BY <2>1, Round2Natural
  <2>3. e \in Int /\ e <= N /\ -e <= N
    <3>1. total \in Nat BY <2>1
    <3> HIDE DEF N
    <3> QED BY <2>1, <3>1, RoundsNear
  <2>4. \A k \in 1 .. N - 1 : Shares[k] = c
    <3>1. Shares = Cut(total, EqualBase(total, participants))
      BY DEF Ok, Shares, Result, CalculateShares
    <3>2. EqualBase(total, participants) = [k \in 1 .. N |-> c] BY <2>1 DEF EqualBase, N
    <3> HIDE DEF Shares, N, c
    <3>3. Len([k \in 1 .. N |-> c]) = N BY <2>1
    <3>4. \A k \in 1 .. N - 1 : Cut(total, [j \in 1 .. N |-> c])[k] = [j \in 1 .. N |-> c][k]
      BY <2>1, <3>3, CutKeeps
    <3>5. \A k \in 1 .. N - 1 : k \in 1 .. N BY <2>1
    <3> QED BY <3>1, <3>2, <3>4, <3>5
  <2> HIDE DEF Shares, N, c
  <2>5. \A i \in 1 .. N - 1 :
           LET off == 2 * (N * Shares[i] - total) IN off <= N /\ -off <= N
    BY <2>3, <2>4
  <2>6. last = total - (N - 1) * c \/ last = (total + 1) - (N - 1) * c
    <3> DEFINE s == SubSeq(Shares, 1, N - 1)
    <3>1. Shares \in Seq(Int) /\ Len(Shares) = N BY <2>1 DEF Divides
    <3>2. /\ N - 1 \in Nat /\ DOMAIN s = 1 .. N - 1 /\ DOMAIN Shares = 1 .. (N - 1) + 1
          /\ \A k \in 1 .. N - 1 : s[k] = Shares[k]
      BY <2>1, <3>1
    <3>3. \A k \in 1 .. N - 1 : s[k] = c BY <2>4, <3>2
    <3>4. last \in Int /\ (N - 1) + 1 = N BY <2>1, <3>1
    <3> HIDE DEF s, last
    <3>5. SumOf(s) = (N - 1) * c
      <4>1. c \in Int BY <2>2
      <4> QED BY <3>2, <3>3, <4>1, SumConstant
    <3>6. SumOf(Shares) = SumOf(s) + Shares[(N - 1) + 1]
      <4>1. \A k \in 1 .. N - 1 : Shares[k] = s[k] BY <3>2
      <4> QED BY <3>2, <4>1, SumMore
    <3>7. (N - 1) * c \in Int BY <2>1, <2>2
    <3>8. SumOf(Shares) = (N - 1) * c + last BY <3>4, <3>5, <3>6 DEF last
    <3> QED BY <2>1, <3>4, <3>7, <3>8
  <2>7. PICK x \in Int : x = total - (N - 1) * c BY <2>1, <2>2
  <2> DEFINE d == total - N * c
  <2>8. N * x - total = (N - 1) * d
    <3>1. c \in Int /\ total \in Int BY <2>1, <2>2
    <3> QED BY <2>1, <2>7, <3>1, Scaled
  <2>9. d \in Int /\ 2 * d <= N /\ -N <= 2 * d
    <3>1. N * c \in Int BY <2>1, <2>2
    <3> QED BY <2>1, <2>3, <3>1
  <2> DEFINE K == N - 1
             P == K * d
             NN == N * N
             NL == N * last
  <2>10. P \in Int /\ 2 * P <= NN - N /\ -(NN - N) <= 2 * P /\ NN \in Int
    <3>1. K \in Nat /\ 2 * d \in Int /\ -N \in Int /\ N \in Int BY <2>1, <2>9
    <3> HIDE DEF K, d
    <3>2. K * (2 * d) <= K * N /\ K * (-N) <= K * (2 * d) BY <2>9, <3>1, Multiples
    <3>3. K * (2 * d) = 2 * (K * d) /\ K * d \in Int BY <2>9, <3>1, Z3
    <3>4. K * (-N) = -(K * N) BY <3>1, Z3
    <3>5. K * N = N * N - N /\ N * N \in Int BY <2>1, Z3 DEF K
    <3> QED BY <3>2, <3>3, <3>4, <3>5
  <2>11. NL = N * x \/ NL = N * x + N
    <3>1. last = x \/ last = x + 1 BY <2>1, <2>2, <2>6, <2>7
    <3>2. N * (x + 1) = N * x + N BY <2>1, <2>7, Z3
    <3> HIDE DEF last
    <3> QED BY <3>1, <3>2
  <2>12. N * x \in Int /\ N * x - total = P BY <2>1, <2>7, <2>8
  <2>13. N * (N + 2) = NN + 2 * N BY <2>1, Z3
  <2> HIDE DEF P, NN, NL, d, last
  <2>14. 2 * (NL - total) <= NN + 2 * N /\ -(2 * (NL - total)) <= NN
    <3>1. PICK y \in Int : y = N * x BY <2>12
    <3>2. 2 * (y - total) = 2 * P BY <2>12, <3>1
    <3>3. NL = y \/ NL = y + N BY <2>11, <3>1
    <3> QED BY <2>1, <2>10, <3>1, <3>2, <3>3
  <2>15. 2 * (N * last - total) <= N * (N + 2) /\ -(2 * (N * last - total)) <= N * N
    BY <2>13, <2>14 DEF NL, NN
  <2> QED BY <2>5, <2>15 DEF last
<1> QED BY <1>1, Built, PTL

\* In a ratio split nobody pays less than somebody with a smaller ratio, except
\* for the last participant, who absorbs what is left.
THEOREM RatiosKeepTheirOrder ==
    ASSUME Sub = 1
    PROVE  RequestSpec => []RatioOrder
<1>1. Building => RatioOrder
  <2> SUFFICES ASSUME Building, Ok, splitType = "ratio", NEW i \in 1 .. N - 1,
                      NEW j \in 1 .. N - 1, participants[i].ratio >= participants[j].ratio
               PROVE  Shares[i] >= Shares[j]
    BY DEF RatioOrder
  <2> DEFINE R == SumRatio(participants)
             base == RatioBase(total, participants)
             p == participants[i].ratio
             q == participants[j].ratio
  <2>1. total \in Nat \ {0} /\ N \in Nat \ {0} BY Divided
  <2>2. Shares = Cut(total, base) BY DEF Ok, Shares, Result, CalculateShares
  <2>3. i \in 1 .. N /\ j \in 1 .. N BY <2>1
  <2>4. \A k \in 1 .. N : participants[k].ratio \in Nat
    <3>1. \A k \in 1 .. N : participants[k] \in Participant BY DEF Building, N
    <3>2. Ratios \cup {0} \subseteq Int BY RequestAssumption
    <3>3. \A k \in 1 .. N : participants[k].ratio \in Int BY <3>1, <3>2 DEF Participant
    <3>4. \A k \in 1 .. N : ~(participants[k].ratio < 0)
      BY DEF Ok, Result, CalculateShares, InvalidSplit, N
    <3> QED BY <3>3, <3>4
  <2>5. R \in Nat \ {0}
    <3> DEFINE v == [k \in 1 .. N |-> participants[k].ratio]
    <3>1. DOMAIN v = 1 .. N /\ \A k \in 1 .. N : v[k] \in Int BY <2>4
    <3>2. ~(R <= 0) BY DEF Ok, Result, CalculateShares, InvalidSplit
    <3>3. R = SumOf(v) BY DEF SumRatio, N
    <3> HIDE DEF v, R, N
    <3>4. SumOf(v) \in Int BY <2>1, <3>1, SumType
    <3> QED BY <3>2, <3>3, <3>4
  <2>6. base = [k \in 1 .. N |-> Round2(total * participants[k].ratio, R)]
    <3>1. Sub * R = R BY <2>5
    <3> QED BY <3>1 DEF RatioBase, N
  <2>7. Shares[i] = Round2(total * p, R) /\ Shares[j] = Round2(total * q, R)
    <3> HIDE DEF Shares, N, R, base
    <3>1. Len(base) = N BY <2>1, <2>6
    <3>2. Shares[i] = base[i] /\ Shares[j] = base[j] BY <2>1, <2>2, <3>1, CutKeeps
    <3> QED BY <2>3, <2>6, <3>2
  <2> HIDE DEF R, base, N
  <2>8. p \in Nat /\ q \in Nat /\ q <= p BY <2>3, <2>4
  <2> HIDE DEF p, q
  <2>9. total * p \in Nat /\ total * q \in Nat /\ total * q <= total * p
    <3>1. total \in Nat BY <2>1
    <3>2. total * p \in Nat /\ total * q \in Nat BY <2>8, <3>1
    <3> QED BY <2>8, <3>1, <3>2, Multiples
  <2>10. Round2(total * q, R) <= Round2(total * p, R) BY <2>5, <2>9, RoundsInOrder
  <2>11. Round2(total * q, R) \in Nat /\ Round2(total * p, R) \in Nat
    BY <2>5, <2>9, Round2Natural
  <2> QED BY <2>7, <2>10, <2>11
<1> QED BY <1>1, Built, PTL
-----------------------------------------------------------------------------
\* The reports.  A request asks for one page after the other and has got the
\* rows of those it has read, each at most once a page; as long as nobody writes,
\* what it has read is what it would read now.  Where no two expenses were paid
\* at one moment, all orders the database may choose are one, and an expense's
\* place in it is the number of those paid no earlier.

\* The pages a request has got the rows of.
PagesRead(p, g) == IF p \in {"next", "respond"} THEN g.page ELSE g.page - 1

\* Only a listing client asks for a second page, and no page holds a row twice.
InTurn(o, p, g) ==
    /\ p = "idle" => g = NoReport
    /\ p \in {"category", "month", "total"} => o = "stats"
    /\ p \in {"members", "paid", "owed"} => o \in {"stats", "balances"}
    /\ p \in {"count", "find"} => o \in {"list", "export"}
    /\ p = "next" => o = "list" /\ g.page * PageSize < g.listed
    /\ o # "list" => g.page = 1
    /\ \A e \in Expenses : g.rows[e] <= PagesRead(p, g)

MembersNow == {u \in Users : member[u] = "active"}

\* The sums and members a request has read are those it would read now.
FiguresHold(o, p, g) ==
    /\ o = "stats" =>
          /\ p \in {"month", "total", "members", "paid", "owed", "respond"}
                => g.category = SumByCategory
          /\ p \in {"total", "members", "paid", "owed", "respond"} => g.recent = SumByMonth
          /\ p \in {"members", "paid", "owed", "respond"} => g.total = TotalByGroup
    /\ o \in {"stats", "balances"} =>
          /\ p \in {"paid", "owed", "respond"} => g.members = MembersNow
          /\ p \in {"owed", "respond"} => g.paid = SumPaid
          /\ p = "respond" => g.owed = SumOwed

Rank(e)      == Cardinality({d \in Live : ledger[d].paidAt >= ledger[e].paidAt})
FirstRows(n) == [e \in Expenses |-> IF e \in Live /\ Rank(e) <= n THEN 1 ELSE 0]
AllRows      == [e \in Expenses |-> IF e \in Live THEN 1 ELSE 0]
NoRows       == [e \in Expenses |-> 0]
NoTwoAtOnce  == \A d, e \in Live : d # e => ledger[d].paidAt # ledger[e].paidAt

\* A client has the rows of the pages it has read, and asks on while it has been
\* told of more.
PagesHold(o, p, g) ==
    /\ o = "list" =>
          /\ NoTwoAtOnce /\ p \in {"exists", "count", "find", "next", "respond"}
                => g.rows = FirstRows(PagesRead(p, g) * PageSize)
          /\ p \in {"find", "next"} => g.listed = Cardinality(Live)
          /\ p = "respond" => Cardinality(Live) <= g.page * PageSize
    /\ o = "export" =>
          /\ p \in {"exists", "count", "find"} => g.rows = NoRows
          /\ p = "respond" /\ Cardinality(Live) <= ExportSize => g.rows = AllRows

ReportInv ==
    /\ TypeOK
    /\ \A r \in Requests :
          /\ InTurn(op[r], pc[r], got[r])
          /\ quiet[r] => /\ FiguresHold(op[r], pc[r], got[r])
                         /\ PagesHold(op[r], pc[r], got[r])

LedgerOK == ledger \in [Expenses -> Entries \cup {None}]

\* The fields of an expense that a report reads.
LEMMA Fields ==
    ASSUME LedgerOK, NEW e \in Live
    PROVE  /\ e \in Expenses /\ ledger[e].payer \in Users /\ ledger[e].amount \in Nat
           /\ ledger[e].shares \in [Users -> Int] /\ ledger[e].category \in Categories
           /\ ledger[e].paidAt \in Int
BY EntriesAssumption DEF LedgerOK, Live, Active

LEMMA LiveIsFinite ==
    /\ Live \in SUBSET Expenses /\ IsFiniteSet(Live)
    /\ Cardinality(Live) \in Nat /\ Cardinality(Expenses) \in Nat
    /\ Cardinality(Live) <= Cardinality(Expenses)
<1>1. Live \in SUBSET Expenses BY DEF Live, Active
<1> QED BY <1>1, TableAssumption, FS_Subset, FS_CardinalityType

\* AmountOf and ShareOf are sums over the expenses.
LEMMA AmountIs ==
    ASSUME LedgerOK, NEW es \in SUBSET Live, NEW f, \A e \in es : f[e] = ledger[e].amount
    PROVE  AmountOf(es) \in Nat /\ AmountOf(es) = SumFunctionOnSet(f, es)
<1> DEFINE h == [e \in es |-> ledger[e].amount]
<1>1. IsFiniteSet(es) BY LiveIsFinite, FS_Subset
<1>2. AmountOf(es) = SumFunctionOnSet(h, es) BY DEF AmountOf, SumFunction
<1>3. \A e \in es : h[e] \in Nat /\ h[e] = f[e] BY Fields
<1> HIDE DEF h
<1>4. \A e \in es : h[e] \in Int /\ h[e] = f[e] BY <1>3
<1>5. SumFunctionOnSet(h, es) = SumFunctionOnSet(f, es) BY <1>1, <1>4, SetSumSame
<1>6. SumFunctionOnSet(h, es) \in Nat BY <1>1, <1>3, SetSumNat
<1> QED BY <1>2, <1>5, <1>6

LEMMA ShareIs ==
    ASSUME LedgerOK, NEW es \in SUBSET Live, NEW u \in Users,
           NEW f, \A e \in es : f[e] = ledger[e].shares[u]
    PROVE  ShareOf(u, es) \in Int /\ ShareOf(u, es) = SumFunctionOnSet(f, es)
<1> DEFINE h == [e \in es |-> ledger[e].shares[u]]
<1>1. IsFiniteSet(es) BY LiveIsFinite, FS_Subset
<1>2. ShareOf(u, es) = SumFunctionOnSet(h, es) BY DEF ShareOf, SumFunction
<1>3. \A e \in es : h[e] \in Int /\ h[e] = f[e] BY Fields
<1> HIDE DEF h
<1>4. SumFunctionOnSet(h, es) = SumFunctionOnSet(f, es) BY <1>1, <1>3, SetSumSame
<1>5. SumFunctionOnSet(h, es) \in Int BY <1>1, <1>3, SetSumType
<1> QED BY <1>2, <1>4, <1>5

LEMMA FiguresTyped ==
    ASSUME LedgerOK
    PROVE  /\ SumByCategory \in [Categories -> Nat] /\ SumByMonth \in Nat
           /\ TotalByGroup \in Nat /\ SumPaid \in [Users -> Nat] /\ SumOwed \in [Users -> Int]
           /\ MembersNow \in SUBSET Users
<1>1. \A es \in SUBSET Live : AmountOf(es) \in Nat
  <2> SUFFICES ASSUME NEW es \in SUBSET Live PROVE AmountOf(es) \in Nat OBVIOUS
  <2> DEFINE f == [e \in es |-> ledger[e].amount]
  <2>1. \A e \in es : f[e] = ledger[e].amount OBVIOUS
  <2> HIDE DEF f
  <2> QED BY <2>1, AmountIs
<1>2. \A u \in Users : ShareOf(u, Live) \in Int
  <2> SUFFICES ASSUME NEW u \in Users PROVE ShareOf(u, Live) \in Int OBVIOUS
  <2> DEFINE f == [e \in Live |-> ledger[e].shares[u]]
  <2>1. \A e \in Live : f[e] = ledger[e].shares[u] OBVIOUS
  <2> HIDE DEF f
  <2> QED BY <2>1, ShareIs
<1>3. SumByCategory \in [Categories -> Nat]
  <2>1. \A c \in Categories : AmountOf({e \in Live : ledger[e].category = c}) \in Nat BY <1>1
  <2> QED BY <2>1 DEF SumByCategory
<1>4. SumByMonth \in Nat /\ TotalByGroup \in Nat BY <1>1 DEF SumByMonth, TotalByGroup
<1>5. SumPaid \in [Users -> Nat]
  <2>1. \A u \in Users : AmountOf({e \in Live : ledger[e].payer = u}) \in Nat BY <1>1
  <2> QED BY <2>1 DEF SumPaid
<1>6. SumOwed \in [Users -> Int] BY <1>2 DEF SumOwed
<1>7. MembersNow \in SUBSET Users BY DEF MembersNow
<1> QED BY <1>3, <1>4, <1>5, <1>6, <1>7

\* Every active expense has a place.
LEMMA Ranks == ASSUME LedgerOK, NEW e \in Live PROVE Rank(e) \in 1 .. Cardinality(Live)
<1> DEFINE D == {d \in Live : ledger[d].paidAt >= ledger[e].paidAt}
<1>1. D \in SUBSET Live /\ e \in D BY Fields
<1>2. Rank(e) = Cardinality(D) BY DEF Rank
<1> HIDE DEF D
<1>3. Cardinality(D) \in Nat /\ Cardinality(D) # 0 /\ Cardinality(D) <= Cardinality(Live)
  <2>1. IsFiniteSet(D) /\ D # {} BY <1>1, LiveIsFinite, FS_Subset
  <2> QED BY <1>1, <2>1, LiveIsFinite, FS_Subset, FS_CardinalityType, FS_EmptySet
<1> QED BY <1>2, <1>3, LiveIsFinite

LEMMA NoPages == ASSUME LedgerOK PROVE FirstRows(0) = NoRows
BY Ranks, LiveIsFinite DEF FirstRows, NoRows

LEMMA AllPages ==
    ASSUME LedgerOK, NEW n \in Nat, Cardinality(Live) <= n
    PROVE  FirstRows(n) = AllRows
BY Ranks, LiveIsFinite DEF FirstRows, AllRows

\* An order of the database's choice lists every active expense, each once.
LEMMA OrderIsComplete ==
    ASSUME LedgerOK, NEW order \in PaidAtOrders, NEW n, n = Cardinality(Live)
    PROVE  /\ DOMAIN order = 1 .. n /\ \A i \in 1 .. n : order[i] \in Live
           /\ \A i, j \in 1 .. n : order[i] = order[j] => i = j
           /\ \A e \in Live : \E i \in 1 .. n : order[i] = e
<1>1. /\ order \in [1 .. n -> Live]
      /\ \A i, j \in 1 .. n : order[i] = order[j] => i = j
  BY DEF PaidAtOrders
<1>2. n \in Nat BY LiveIsFinite
<1>3. Cardinality(1 .. n) = n /\ IsFiniteSet(1 .. n) BY <1>2, FS_Interval
<1>4. order \in Injection(1 .. n, Live) BY <1>1 DEF Injection, IsInjective
<1>5. order \in Surjection(1 .. n, Live)
  BY <1>3, <1>4, LiveIsFinite, FS_Injection
<1> QED BY <1>1, <1>5 DEF Surjection

\* The i-th is the one that i expenses, itself among them, were paid no earlier
\* than.
LEMMA RankIsPlace ==
    ASSUME LedgerOK, NoTwoAtOnce, NEW order \in PaidAtOrders,
           NEW i \in 1 .. Cardinality(Live)
    PROVE  Rank(order[i]) = i
<1>1. PICK n \in Nat : n = Cardinality(Live) BY LiveIsFinite
<1>2. i \in 1 .. n /\ i \in Nat BY <1>1
<1> DEFINE D == {d \in Live : ledger[d].paidAt >= ledger[order[i]].paidAt}
<1>3. /\ DOMAIN order = 1 .. n /\ \A j \in 1 .. n : order[j] \in Live
      /\ \A j, k \in 1 .. n : order[j] = order[k] => j = k
      /\ \A e \in Live : \E j \in 1 .. n : order[j] = e
  BY <1>1, OrderIsComplete
<1>4. \A j, k \in 1 .. n : j < k => ledger[order[j]].paidAt >= ledger[order[k]].paidAt
  BY <1>3 DEF PaidAtOrders
<1>5. \A d \in Live : ledger[d].paidAt \in Int BY Fields
<1>6. \A j \in 1 .. i : order[j] \in D
  <2> SUFFICES ASSUME NEW j \in 1 .. i PROVE order[j] \in D OBVIOUS
  <2>1. j \in 1 .. n /\ (j = i \/ j < i) BY <1>2
  <2> QED BY <1>2, <1>3, <1>4, <1>5, <2>1
<1>7. \A d \in D : \E j \in 1 .. i : order[j] = d
  <2> SUFFICES ASSUME NEW d \in D PROVE \E j \in 1 .. i : order[j] = d OBVIOUS
  <2>1. PICK j \in 1 .. n : order[j] = d BY <1>3
  <2>2. CASE j <= i BY <2>1, <2>2, <1>2
  <2>3. CASE i < j
    <3>1. ledger[order[i]].paidAt >= ledger[d].paidAt BY <1>2, <1>4, <2>1, <2>3
    <3>2. ledger[order[i]].paidAt = ledger[d].paidAt BY <1>2, <1>3, <1>5, <3>1
    <3>3. order[i] = d BY <1>2, <1>3, <3>2 DEF NoTwoAtOnce
    <3> QED BY <1>2, <1>3, <2>1, <2>3, <3>3
  <2> QED BY <1>2, <2>2, <2>3
<1> DEFINE f == [j \in 1 .. i |-> order[j]]
<1>8. f \in Injection(1 .. i, D)
  <2>1. f \in [1 .. i -> D]
    <3> HIDE DEF D
    <3> QED BY <1>6
  <2>2. \A j, k \in 1 .. i : f[j] = f[k] => j = k BY <1>2, <1>3
  <2> HIDE DEF f, D
  <2> QED BY <2>1, <2>2 DEF Injection, IsInjective
<1>9. f \in Surjection(1 .. i, D)
  <2>1. \A d \in D : \E j \in 1 .. i : f[j] = d
    <3> HIDE DEF D
    <3> QED BY <1>7
  <2>2. f \in [1 .. i -> D] BY <1>8 DEF Injection
  <2> HIDE DEF f, D
  <2> QED BY <2>1, <2>2 DEF Surjection
<1>10. Cardinality(D) = i
  <2>1. IsFiniteSet(1 .. i) /\ Cardinality(1 .. i) = i BY <1>2, FS_Interval
  <2> HIDE DEF f, D
  <2> QED BY <1>8, <1>9, <2>1, FS_Surjection
<1> QED BY <1>10 DEF Rank

LEMMA NextPageIs == ASSUME NEW k \in Nat \ {0}, NEW s \in Nat
                    PROVE  k * s \in Nat /\ (k - 1) * s \in Nat /\ (k - 1) * s <= k * s
<1>1. k * s = (k - 1) * s + s BY Z3
<1>2. \A j, l \in Nat : j * l \in Nat OBVIOUS
<1>3. k * s \in Nat /\ (k - 1) * s \in Nat
  <2>1. k \in Nat /\ k - 1 \in Nat OBVIOUS
  <2> QED BY <1>2, <2>1
<1> QED BY <1>1, <1>3

\* A page has the expenses at its places, whatever order the database chooses.
LEMMA PageIs ==
    ASSUME LedgerOK, NoTwoAtOnce, NEW order \in PaidAtOrders,
           NEW k \in Nat \ {0}, NEW size \in Nat, NEW e \in Expenses
    PROVE  e \in Page(order, k, size)
              <=> (e \in Live /\ (k - 1) * size < Rank(e) /\ Rank(e) <= k * size)
<1>1. PICK n \in Nat : n = Cardinality(Live) BY LiveIsFinite
<1>2. PICK lo \in Nat, hi \in Nat : lo = (k - 1) * size /\ hi = k * size BY NextPageIs
<1>3. /\ DOMAIN order = 1 .. n /\ \A j \in 1 .. n : order[j] \in Live
      /\ \A d \in Live : \E j \in 1 .. n : order[j] = d
  BY <1>1, OrderIsComplete
<1>4. \A j \in 1 .. n : Rank(order[j]) = j BY <1>1, RankIsPlace
<1>5. e \in Page(order, k, size) <=> \E j \in 1 .. n : order[j] = e /\ lo < j /\ j <= hi
  BY <1>2, <1>3 DEF Page
<1>6. ASSUME NEW j \in 1 .. n, order[j] = e, lo < j, j <= hi
      PROVE  e \in Live /\ lo < Rank(e) /\ Rank(e) <= hi
  BY <1>3, <1>4, <1>6
<1>7. ASSUME e \in Live, lo < Rank(e), Rank(e) <= hi
      PROVE  \E j \in 1 .. n : order[j] = e /\ lo < j /\ j <= hi
  <2>1. PICK j \in 1 .. n : order[j] = e BY <1>3, <1>7
  <2> QED BY <1>4, <1>7, <2>1
<1> QED BY <1>2, <1>5, <1>6, <1>7

\* One page that is large enough has them all, ties or not.
LEMMA LargePageIs ==
    ASSUME LedgerOK, NEW order \in PaidAtOrders, NEW size \in Nat,
           Cardinality(Live) <= size
    PROVE  Page(order, 1, size) = Live
<1>1. PICK n \in Nat : n = Cardinality(Live) BY LiveIsFinite
<1>2. /\ DOMAIN order = 1 .. n /\ \A j \in 1 .. n : order[j] \in Live
      /\ \A d \in Live : \E j \in 1 .. n : order[j] = d
  BY <1>1, OrderIsComplete
<1>3. (1 - 1) * size = 0 /\ 1 * size = size BY Z3
<1>4. Page(order, 1, size) = {order[i] : i \in {j \in 1 .. n : 0 < j /\ j <= size}}
  BY <1>2, <1>3 DEF Page
<1>5. {j \in 1 .. n : 0 < j /\ j <= size} = 1 .. n BY <1>1
<1> QED BY <1>2, <1>4, <1>5

\* The rows of one page more.
LEMMA OnePageMore ==
    ASSUME LedgerOK, NoTwoAtOnce, NEW order \in PaidAtOrders,
           NEW k \in Nat \ {0}, NEW e \in Expenses
    PROVE  FirstRows(k * PageSize)[e] =
              FirstRows((k - 1) * PageSize)[e]
                 + (IF e \in Page(order, k, PageSize) THEN 1 ELSE 0)
<1>1. PICK lo \in Nat, hi \in Nat :
         lo = (k - 1) * PageSize /\ hi = k * PageSize /\ lo <= hi
  BY NextPageIs, PageAssumption
<1>2. e \in Page(order, k, PageSize) <=> (e \in Live /\ lo < Rank(e) /\ Rank(e) <= hi)
  BY <1>1, PageIs, PageAssumption
<1>3. \A n : FirstRows(n)[e] = IF e \in Live /\ Rank(e) <= n THEN 1 ELSE 0
  BY DEF FirstRows
<1>4. FirstRows(hi)[e] = FirstRows(lo)[e] + (IF e \in Page(order, k, PageSize) THEN 1 ELSE 0)
  <2>1. CASE e \in Live
    <3>1. PICK x \in Nat : x = Rank(e) BY <2>1, Ranks
    <3>2. (e \in Page(order, k, PageSize)) <=> (lo < x /\ x <= hi) BY <1>2, <2>1, <3>1
    <3>3. /\ FirstRows(hi)[e] = IF x <= hi THEN 1 ELSE 0
          /\ FirstRows(lo)[e] = IF x <= lo THEN 1 ELSE 0
      BY <1>3, <2>1, <3>1
    <3> QED BY <1>1, <3>2, <3>3
  <2>2. CASE e \notin Live BY <1>2, <1>3, <2>2
  <2> QED BY <2>1, <2>2
<1> QED BY <1>1, <1>4

LEMMA PageNumbers ==
    ASSUME NEW g \in Readings
    PROVE  /\ g.page \in Nat \ {0} /\ g.listed \in Nat
           /\ \A e \in Expenses : g.rows[e] \in Nat
           /\ \A e \in Expenses : g.page <= Cardinality(Expenses)
<1>1. PICK n \in Nat : n = Cardinality(Expenses) BY LiveIsFinite
<1>2. g.page \in {1} \cup 1 .. n /\ g.listed \in 0 .. n /\ g.rows \in [Expenses -> 0 .. n]
  BY <1>1 DEF Readings
<1>3. ASSUME NEW e \in Expenses PROVE n # 0 BY <1>1, TableAssumption, FS_EmptySet
<1> QED BY <1>1, <1>2, <1>3

\* What an action of a request makes of its label and readings keeps the
\* invariant: o is its operation, p the label and g what it has read before.
Fits(o, p, g) == p \in Labels /\ g \in Readings /\ InTurn(o, p, g)
Holds(o, p, g) == FiguresHold(o, p, g) /\ PagesHold(o, p, g)

\* Before the first read, and after the reply.
LEMMA NothingRead ==
    ASSUME LedgerOK, NEW o \in Ops, NEW p \in {"idle", "exists", "done"}
    PROVE  Fits(o, p, NoReport) /\ Holds(o, p, NoReport)
<1> DEFINE g == NoReport
<1>1. g.page = 1 /\ g.rows = NoRows /\ g.listed = 0 BY DEF NoReport, NoRows
<1>2. g \in Readings
  <2>1. PICK n \in Nat : n = Cardinality(Expenses) BY LiveIsFinite
  <2>2. 0 \in 0 .. n BY <2>1
  <2> QED BY <2>1, <2>2 DEF NoReport, Readings
<1>3. p \in Labels /\ PagesRead(p, g) = 0 BY <1>1 DEF Labels, PagesRead
<1> HIDE DEF g
<1>4. InTurn(o, p, g)
  <2>1. \A e \in Expenses : g.rows[e] <= PagesRead(p, g) BY <1>1, <1>3 DEF NoRows
  <2>2. p = "idle" => g = NoReport BY DEF g
  <2> QED BY <1>1, <2>1, <2>2 DEF InTurn
<1>5. FiguresHold(o, p, g) BY DEF FiguresHold
<1>6. PagesHold(o, p, g)
  <2>1. 0 * PageSize = 0 BY PageAssumption, Z3
  <2>2. g.rows = FirstRows(PagesRead(p, g) * PageSize) BY <1>1, <1>3, <2>1, NoPages
  <2> QED BY <1>1, <2>2 DEF PagesHold
<1> QED BY <1>2, <1>3, <1>4, <1>5, <1>6 DEF Fits, Holds, g

\* The membership check, before each page.
LEMMA FirstReadFits ==
    ASSUME NEW o \in Ops, NEW g, Fits(o, "exists", g)
    PROVE  /\ Fits(o, FirstRead[o], g)
           /\ Holds(o, "exists", g) => Holds(o, FirstRead[o], g)
<1> DEFINE p == FirstRead[o]
<1>1. /\ o = "stats" => p = "category"
      /\ o = "balances" => p = "members"
      /\ o \in {"list", "export"} => p = "count"
      /\ o \in {"stats", "balances", "list", "export"}
  BY DEF FirstRead, Ops
<1> HIDE DEF p
<1>2. PagesRead(p, g) = PagesRead("exists", g) BY <1>1 DEF PagesRead
<1>3. Fits(o, p, g) BY <1>1, <1>2 DEF Fits, InTurn, Labels
<1>4. ASSUME Holds(o, "exists", g) PROVE Holds(o, p, g)
  <2>1. FiguresHold(o, p, g) BY <1>1 DEF FiguresHold
  <2>2. PagesHold(o, p, g) BY <1>1, <1>2, <1>4 DEF Holds, PagesHold
  <2> QED BY <2>1, <2>2 DEF Holds
<1> QED BY <1>3, <1>4 DEF p

\* The reads of the statistics and the balances: each adds one figure, that of
\* this moment, and none changes the rows or the page.
SameRows(g, h) == h.page = g.page /\ h.rows = g.rows /\ h.listed = g.listed

LEMMA FigureFits ==
    ASSUME NEW o, NEW p, NEW q, NEW g, NEW h, h \in Readings, SameRows(g, h),
           p \in {"category", "month", "total", "members", "paid", "owed"},
           q \in {"month", "total", "members", "paid", "owed", "respond"},
           q \in {"month", "total"} => p \in {"category", "month", "total"},
           Fits(o, p, g)
    PROVE  Fits(o, q, h) /\ o \in {"stats", "balances"}
<1>1. o \in {"stats", "balances"} BY DEF Fits, InTurn
<1>2. g \in Readings /\ h \in Readings BY DEF Fits
<1>3. \A e \in Expenses : h.rows[e] <= PagesRead(q, h)
  <2> SUFFICES ASSUME NEW e \in Expenses PROVE h.rows[e] <= PagesRead(q, h) OBVIOUS
  <2>1. PICK k \in Nat, n \in Nat : k = g.page /\ n = g.rows[e] BY <1>2, PageNumbers
  <2>2. n <= k - 1 BY <2>1 DEF Fits, InTurn, PagesRead
  <2>3. PagesRead(q, h) \in {k, k - 1} BY <2>1 DEF PagesRead, SameRows
  <2> QED BY <2>1, <2>2, <2>3 DEF SameRows
<1>4. InTurn(o, q, h) BY <1>1, <1>3 DEF Fits, InTurn, SameRows
<1> QED BY <1>1, <1>2, <1>4 DEF Fits, Labels

LEMMA FiguresFit ==
    ASSUME LedgerOK, NEW o \in Ops, NEW g
    PROVE  /\ Fits(o, "category", g) =>
                LET h == [g EXCEPT !.category = SumByCategory]
                IN  Fits(o, "month", h) /\ (Holds(o, "category", g) => Holds(o, "month", h))
           /\ Fits(o, "month", g) =>
                LET h == [g EXCEPT !.recent = SumByMonth]
                IN  Fits(o, "total", h) /\ (Holds(o, "month", g) => Holds(o, "total", h))
           /\ Fits(o, "total", g) =>
                LET h == [g EXCEPT !.total = TotalByGroup]
                IN  Fits(o, "members", h) /\ (Holds(o, "total", g) => Holds(o, "members", h))
           /\ Fits(o, "members", g) =>
                LET h == [g EXCEPT !.members = MembersNow]
                IN  Fits(o, "paid", h) /\ (Holds(o, "members", g) => Holds(o, "paid", h))
           /\ Fits(o, "paid", g) =>
                LET h == [g EXCEPT !.paid = SumPaid]
                IN  Fits(o, "owed", h) /\ (Holds(o, "paid", g) => Holds(o, "owed", h))
           /\ Fits(o, "owed", g) =>
                LET h == [g EXCEPT !.owed = SumOwed]
                IN  Fits(o, "respond", h) /\ (Holds(o, "owed", g) => Holds(o, "respond", h))
<1>1. ASSUME Fits(o, "category", g), NEW h, h = [g EXCEPT !.category = SumByCategory]
      PROVE  Fits(o, "month", h) /\ (Holds(o, "category", g) => Holds(o, "month", h))
  <2>1. g \in Readings BY <1>1 DEF Fits
  <2>2. h \in Readings /\ SameRows(g, h) BY <1>1, <2>1, FiguresTyped DEF Readings, SameRows
  <2>3. Fits(o, "month", h) BY <1>1, <2>2, FigureFits
  <2>4. o = "stats" BY <1>1 DEF Fits, InTurn
  <2>5. h.category = SumByCategory BY <1>1, <2>1 DEF Readings
  <2> QED BY <2>3, <2>4, <2>5 DEF Holds, FiguresHold, PagesHold
<1>2. ASSUME Fits(o, "month", g), NEW h, h = [g EXCEPT !.recent = SumByMonth]
      PROVE  Fits(o, "total", h) /\ (Holds(o, "month", g) => Holds(o, "total", h))
  <2>1. g \in Readings BY <1>2 DEF Fits
  <2>2. h \in Readings /\ SameRows(g, h) BY <1>2, <2>1, FiguresTyped DEF Readings, SameRows
  <2>3. Fits(o, "total", h) BY <1>2, <2>2, FigureFits
  <2>4. o = "stats" BY <1>2 DEF Fits, InTurn
  <2>5. h.category = g.category /\ h.recent = SumByMonth BY <1>2, <2>1 DEF Readings
  <2> QED BY <2>3, <2>4, <2>5 DEF Holds, FiguresHold, PagesHold
<1>3. ASSUME Fits(o, "total", g), NEW h, h = [g EXCEPT !.total = TotalByGroup]
      PROVE  Fits(o, "members", h) /\ (Holds(o, "total", g) => Holds(o, "members", h))
  <2>1. g \in Readings BY <1>3 DEF Fits
  <2>2. h \in Readings /\ SameRows(g, h) BY <1>3, <2>1, FiguresTyped DEF Readings, SameRows
  <2>3. Fits(o, "members", h) BY <1>3, <2>2, FigureFits
  <2>4. o = "stats" BY <1>3 DEF Fits, InTurn
  <2>5. h.category = g.category /\ h.recent = g.recent /\ h.total = TotalByGroup
    BY <1>3, <2>1 DEF Readings
  <2> QED BY <2>3, <2>4, <2>5 DEF Holds, FiguresHold, PagesHold
<1>4. ASSUME Fits(o, "members", g), NEW h, h = [g EXCEPT !.members = MembersNow]
      PROVE  Fits(o, "paid", h) /\ (Holds(o, "members", g) => Holds(o, "paid", h))
  <2>1. g \in Readings BY <1>4 DEF Fits
  <2>2. h \in Readings /\ SameRows(g, h) BY <1>4, <2>1, FiguresTyped DEF Readings, SameRows
  <2>3. Fits(o, "paid", h) /\ o \in {"stats", "balances"} BY <1>4, <2>2, FigureFits
  <2>4. /\ h.category = g.category /\ h.recent = g.recent /\ h.total = g.total
        /\ h.members = MembersNow
    BY <1>4, <2>1 DEF Readings
  <2> QED BY <2>3, <2>4 DEF Holds, FiguresHold, PagesHold
<1>5. ASSUME Fits(o, "paid", g), NEW h, h = [g EXCEPT !.paid = SumPaid]
      PROVE  Fits(o, "owed", h) /\ (Holds(o, "paid", g) => Holds(o, "owed", h))
  <2>1. g \in Readings BY <1>5 DEF Fits
  <2>2. h \in Readings /\ SameRows(g, h) BY <1>5, <2>1, FiguresTyped DEF Readings, SameRows
  <2>3. Fits(o, "owed", h) /\ o \in {"stats", "balances"} BY <1>5, <2>2, FigureFits
  <2>4. /\ h.category = g.category /\ h.recent = g.recent /\ h.total = g.total
        /\ h.members = g.members /\ h.paid = SumPaid
    BY <1>5, <2>1 DEF Readings
  <2> QED BY <2>3, <2>4 DEF Holds, FiguresHold, PagesHold
<1>6. ASSUME Fits(o, "owed", g), NEW h, h = [g EXCEPT !.owed = SumOwed]
      PROVE  Fits(o, "respond", h) /\ (Holds(o, "owed", g) => Holds(o, "respond", h))
  <2>1. g \in Readings BY <1>6 DEF Fits
  <2>2. h \in Readings /\ SameRows(g, h) BY <1>6, <2>1, FiguresTyped DEF Readings, SameRows
  <2>3. Fits(o, "respond", h) /\ o \in {"stats", "balances"} BY <1>6, <2>2, FigureFits
  <2>4. /\ h.category = g.category /\ h.recent = g.recent /\ h.total = g.total
        /\ h.members = g.members /\ h.paid = g.paid /\ h.owed = SumOwed
    BY <1>6, <2>1 DEF Readings
  <2> QED BY <2>3, <2>4 DEF Holds, FiguresHold, PagesHold
<1> QED BY <1>1, <1>2, <1>3, <1>4, <1>5, <1>6

\* Count, and the listing client's way to the next page.
LEMMA CountFits ==
    ASSUME LedgerOK, NEW o \in Ops, NEW g, Fits(o, "count", g),
           NEW h, h = [g EXCEPT !.listed = Cardinality(Live)]
    PROVE  Fits(o, "find", h) /\ (Holds(o, "count", g) => Holds(o, "find", h))
<1>1. g \in Readings BY DEF Fits
<1>2. h \in Readings
  <2>1. Cardinality(Live) \in 0 .. Cardinality(Expenses) BY LiveIsFinite
  <2> QED BY <1>1, <2>1 DEF Readings
<1>3. h.page = g.page /\ h.rows = g.rows /\ h.listed = Cardinality(Live)
  BY <1>1 DEF Readings
<1>4. PagesRead("find", h) = PagesRead("count", g) BY <1>3 DEF PagesRead
<1>5. InTurn(o, "find", h) BY <1>3, <1>4 DEF Fits, InTurn
<1>6. Holds(o, "count", g) => Holds(o, "find", h)
  BY <1>3, <1>4 DEF Holds, FiguresHold, PagesHold
<1> QED BY <1>2, <1>5, <1>6 DEF Fits, Labels

LEMMA NextPageFits ==
    ASSUME NEW o \in Ops, NEW g, Fits(o, "next", g),
           NEW h, h = [g EXCEPT !.page = @ + 1]
    PROVE  Fits(o, "exists", h) /\ (Holds(o, "next", g) => Holds(o, "exists", h))
<1>1. g \in Readings BY DEF Fits
<1>2. PICK k \in Nat \ {0}, n \in Nat, l \in Nat :
         g.page = k /\ n = Cardinality(Expenses) /\ g.listed = l /\ l <= n
  BY <1>1, LiveIsFinite, PageNumbers DEF Readings
<1>3. k * PageSize < l BY <1>2 DEF Fits, InTurn
<1>4. k < n
  <2>1. PICK s \in Nat \ {0} : s = PageSize BY PageAssumption
  <2>2. k * 1 <= k * s /\ k * 1 = k BY <1>2, <2>1, Multiples
  <2>3. k * s \in Nat BY <2>1, NextPageIs
  <2> QED BY <1>2, <1>3, <2>1, <2>2, <2>3
<1>5. h \in Readings
  <2>1. k + 1 \in 1 .. n BY <1>2, <1>4
  <2> QED BY <1>1, <1>2, <2>1 DEF Readings
<1>6. h.page = k + 1 /\ h.rows = g.rows /\ h.listed = g.listed BY <1>1, <1>2 DEF Readings
<1>7. PagesRead("exists", h) = k /\ PagesRead("next", g) = k BY <1>2, <1>6 DEF PagesRead
<1>8. InTurn(o, "exists", h) /\ o = "list" BY <1>6, <1>7 DEF Fits, InTurn
<1>9. Holds(o, "next", g) => Holds(o, "exists", h)
  BY <1>6, <1>7, <1>8 DEF Holds, FiguresHold, PagesHold
<1> QED BY <1>5, <1>8, <1>9 DEF Fits, Labels

\* Find: the rows of one page more, the last one when the client has been told of
\* no others.
LEMMA FindFits ==
    ASSUME LedgerOK, NEW o \in Ops, NEW g, Fits(o, "find", g),
           NEW order \in PaidAtOrders,
           NEW size, size = IF o = "export" THEN ExportSize ELSE PageSize,
           NEW page, page = Page(order, g.page, size),
           NEW h, h = [g EXCEPT !.rows =
                         [e \in Expenses |-> g.rows[e] + (IF e \in page THEN 1 ELSE 0)]],
           NEW q, q = IF o = "list" /\ g.page * PageSize < g.listed THEN "next" ELSE "respond"
    PROVE  Fits(o, q, h) /\ (Holds(o, "find", g) => Holds(o, q, h))
<1>1. g \in Readings /\ o \in {"list", "export"} BY DEF Fits, InTurn
<1>2. PICK k \in Nat \ {0}, n \in Nat : g.page = k /\ n = Cardinality(Expenses)
  BY <1>1, LiveIsFinite, PageNumbers
<1>3. /\ \A e \in Expenses : g.rows[e] \in Nat /\ g.rows[e] <= k - 1
      /\ \A e \in Expenses : k <= n
  BY <1>1, <1>2, PageNumbers DEF Fits, InTurn, PagesRead
<1> DEFINE rows == [e \in Expenses |-> g.rows[e] + (IF e \in page THEN 1 ELSE 0)]
<1>4. h.rows = rows /\ h.page = k /\ h.listed = g.listed BY <1>1, <1>2 DEF Readings
<1>5. \A e \in Expenses : rows[e] \in 0 .. n /\ rows[e] <= k
  <2> SUFFICES ASSUME NEW e \in Expenses PROVE rows[e] \in 0 .. n /\ rows[e] <= k OBVIOUS
  <2>1. PICK x \in Nat : x = g.rows[e] /\ x <= k - 1 /\ k <= n BY <1>3
  <2>2. rows[e] = x + 1 \/ rows[e] = x BY <2>1
  <2> HIDE DEF rows
  <2> QED BY <1>2, <2>1, <2>2
<1>6. h \in Readings
  <2>1. rows \in [Expenses -> 0 .. n]
    <3>1. DOMAIN rows = Expenses /\ rows = [e \in Expenses |-> rows[e]] OBVIOUS
    <3> HIDE DEF rows
    <3> QED BY <1>5, <3>1
  <2> HIDE DEF rows
  <2>2. h = [g EXCEPT !.rows = rows] BY DEF rows
  <2> QED BY <1>1, <1>2, <2>1, <2>2 DEF Readings
<1>7. q \in {"next", "respond"} /\ PagesRead(q, h) = k BY <1>4 DEF PagesRead
<1>8. InTurn(o, q, h)
  <2>1. \A e \in Expenses : h.rows[e] <= PagesRead(q, h) BY <1>4, <1>5, <1>7
  <2>2. q = "next" => o = "list" /\ h.page * PageSize < h.listed BY <1>2, <1>4
  <2>3. o # "list" => h.page = 1 BY <1>2, <1>4 DEF Fits, InTurn
  <2> QED BY <1>7, <2>1, <2>2, <2>3 DEF InTurn
<1>9. Fits(o, q, h) BY <1>6, <1>7, <1>8 DEF Fits, Labels
<1>10. ASSUME Holds(o, "find", g) PROVE Holds(o, q, h)
  <2>1. FiguresHold(o, q, h) BY <1>1 DEF FiguresHold
  <2>2. PagesRead("find", g) = k - 1 BY <1>2 DEF PagesRead
  <2>3. CASE o = "list"
    <3>1. /\ NoTwoAtOnce => g.rows = FirstRows((k - 1) * PageSize)
          /\ g.listed = Cardinality(Live)
      BY <1>10, <2>2, <2>3 DEF Holds, PagesHold
    <3>2. ASSUME NoTwoAtOnce PROVE rows = FirstRows(k * PageSize)
      <4>1. size = PageSize /\ page = Page(order, k, PageSize) BY <1>2, <2>3
      <4>2. \A e \in Expenses : rows[e] = FirstRows(k * PageSize)[e]
        BY <1>2, <3>1, <3>2, <4>1, OnePageMore
      <4>3. FirstRows(k * PageSize) = [e \in Expenses |-> FirstRows(k * PageSize)[e]]
        BY DEF FirstRows
      <4> QED BY <4>2, <4>3
    <3>3. q = "respond" => Cardinality(Live) <= k * PageSize
      <4>1. PICK l \in Nat, d \in Nat : l = Cardinality(Live) /\ d = k * PageSize
        BY <1>2, LiveIsFinite, NextPageIs, PageAssumption
      <4> QED BY <1>2, <2>3, <3>1, <4>1
    <3> HIDE DEF rows
    <3>4. PagesHold(o, q, h) BY <1>4, <1>7, <2>3, <3>1, <3>2, <3>3 DEF PagesHold
    <3> QED BY <2>1, <3>4 DEF Holds
  <2>4. CASE o = "export"
    <3>1. q = "respond" /\ k = 1 BY <1>2, <2>4 DEF Fits, InTurn
    <3>2. g.rows = NoRows BY <1>10, <2>4 DEF Holds, PagesHold
    <3>3. ASSUME Cardinality(Live) <= ExportSize PROVE rows = AllRows
      <4>1. page = Live BY <1>2, <2>4, <3>1, <3>3, LargePageIs, PageAssumption
      <4> QED BY <3>2, <4>1 DEF NoRows, AllRows
    <3> HIDE DEF rows
    <3>4. PagesHold(o, q, h) BY <1>4, <2>4, <3>1, <3>3 DEF PagesHold
    <3> QED BY <2>1, <3>4 DEF Holds
  <2> QED BY <1>1, <2>3, <2>4
<1> QED BY <1>9, <1>10

\* Every action of a request moves it on to a label and readings that fit.
Moves(r, q, h) == /\ pc' = [pc EXCEPT ![r] = q] /\ got' = [got EXCEPT ![r] = h]
                  /\ UNCHANGED << envVars, op, caller >>
                  /\ quiet' \in {quiet, [quiet EXCEPT ![r] = TRUE]}

GoesOn(r) ==
    \E q, h : /\ Moves(r, q, h) /\ Fits(op[r], q, h)
              /\ quiet'[r] => Holds(op[r], q, h)

LEMMA StepFits == ASSUME ReportInv, NEW r \in Requests, Step(r) PROVE GoesOn(r)
<1> DEFINE o == op[r]
           g == got[r]
<1>1. /\ LedgerOK /\ o \in Ops /\ pc[r] \in Labels /\ g \in Readings /\ quiet[r] \in BOOLEAN
      /\ pc \in [Requests -> Labels] /\ got \in [Requests -> Readings]
      /\ quiet \in [Requests -> BOOLEAN]
  BY DEF ReportInv, TypeOK, Ledger!LedgerTypeOK, LedgerOK
<1>2. Fits(o, pc[r], g) /\ (quiet[r] => Holds(o, pc[r], g))
  BY <1>1 DEF ReportInv, Fits, Holds
<1>3. ASSUME NEW q, NEW h, Goto(r, q), got' = [got EXCEPT ![r] = h],
             Fits(o, q, h), Holds(o, pc[r], g) => Holds(o, q, h)
      PROVE  GoesOn(r)
  <2>1. Moves(r, q, h) BY <1>3 DEF Goto, Moves
  <2>2. quiet' = quiet BY <1>3 DEF Goto
  <2> QED BY <1>2, <1>3, <2>1, <2>2 DEF GoesOn
<1>4. ASSUME Answer(r) PROVE GoesOn(r)
  <2>1. Goto(r, "done") /\ got' = [got EXCEPT ![r] = NoReport] BY <1>4 DEF Answer
  <2>2. Fits(o, "done", NoReport) /\ Holds(o, "done", NoReport) BY <1>1, NothingRead
  <2> HIDE DEF o, g
  <2> QED BY <1>3, <2>1, <2>2
<1>5. CASE Receive(r)
  <2>1. g = NoReport BY <1>2, <1>5 DEF Receive, Fits, InTurn
  <2>2. /\ pc' = [pc EXCEPT ![r] = "exists"] /\ got' = got
        /\ UNCHANGED << envVars, op, caller >> /\ quiet' = [quiet EXCEPT ![r] = TRUE]
    BY <1>5 DEF Receive
  <2>3. got' = [got EXCEPT ![r] = NoReport] BY <1>1, <2>1, <2>2
  <2>4. Moves(r, "exists", NoReport) BY <2>2, <2>3 DEF Moves
  <2>5. Fits(o, "exists", NoReport) /\ Holds(o, "exists", NoReport) BY <1>1, NothingRead
  <2> QED BY <2>4, <2>5 DEF GoesOn
<1>6. CASE CheckMember(r)
  <2>1. CASE Answer(r) BY <2>1, <1>4
  <2>2. CASE Goto(r, FirstRead[o]) /\ UNCHANGED got
    <3>1. pc[r] = "exists" BY <1>6 DEF CheckMember
    <3>2. /\ Fits(o, FirstRead[o], g)
          /\ Holds(o, "exists", g) => Holds(o, FirstRead[o], g)
      BY <1>1, <1>2, <3>1, FirstReadFits
    <3>3. got' = [got EXCEPT ![r] = g] BY <1>1, <2>2
    <3> HIDE DEF o, g
    <3> QED BY <1>3, <2>2, <3>1, <3>2, <3>3
  <2> QED BY <1>6, <2>1, <2>2 DEF CheckMember
<1>7. CASE ReadCategories(r)
  <2> DEFINE h == [g EXCEPT !.category = SumByCategory]
  <2>1. pc[r] = "category" /\ Goto(r, "month") /\ got' = [got EXCEPT ![r] = h]
    BY <1>7 DEF ReadCategories
  <2>2. Fits(o, "month", h) /\ (Holds(o, "category", g) => Holds(o, "month", h))
    BY <1>1, <1>2, <2>1, FiguresFit
  <2> HIDE DEF o, g, h
  <2> QED BY <1>3, <2>1, <2>2
<1>8. CASE ReadMonths(r)
  <2> DEFINE h == [g EXCEPT !.recent = SumByMonth]
  <2>1. pc[r] = "month" /\ Goto(r, "total") /\ got' = [got EXCEPT ![r] = h]
    BY <1>8 DEF ReadMonths
  <2>2. Fits(o, "total", h) /\ (Holds(o, "month", g) => Holds(o, "total", h))
    BY <1>1, <1>2, <2>1, FiguresFit
  <2> HIDE DEF o, g, h
  <2> QED BY <1>3, <2>1, <2>2
<1>9. CASE ReadTotal(r)
  <2> DEFINE h == [g EXCEPT !.total = TotalByGroup]
  <2>1. pc[r] = "total" /\ Goto(r, "members") /\ got' = [got EXCEPT ![r] = h]
    BY <1>9 DEF ReadTotal
  <2>2. Fits(o, "members", h) /\ (Holds(o, "total", g) => Holds(o, "members", h))
    BY <1>1, <1>2, <2>1, FiguresFit
  <2> HIDE DEF o, g, h
  <2> QED BY <1>3, <2>1, <2>2
<1>10. CASE ReadMembers(r)
  <2> DEFINE h == [g EXCEPT !.members = MembersNow]
  <2>1. pc[r] = "members" /\ Goto(r, "paid") /\ got' = [got EXCEPT ![r] = h]
    BY <1>10 DEF ReadMembers, MembersNow
  <2>2. Fits(o, "paid", h) /\ (Holds(o, "members", g) => Holds(o, "paid", h))
    BY <1>1, <1>2, <2>1, FiguresFit
  <2> HIDE DEF o, g, h
  <2> QED BY <1>3, <2>1, <2>2
<1>11. CASE ReadPaid(r)
  <2> DEFINE h == [g EXCEPT !.paid = SumPaid]
  <2>1. pc[r] = "paid" /\ Goto(r, "owed") /\ got' = [got EXCEPT ![r] = h]
    BY <1>11 DEF ReadPaid
  <2>2. Fits(o, "owed", h) /\ (Holds(o, "paid", g) => Holds(o, "owed", h))
    BY <1>1, <1>2, <2>1, FiguresFit
  <2> HIDE DEF o, g, h
  <2> QED BY <1>3, <2>1, <2>2
<1>12. CASE ReadOwed(r)
  <2> DEFINE h == [g EXCEPT !.owed = SumOwed]
  <2>1. pc[r] = "owed" /\ Goto(r, "respond") /\ got' = [got EXCEPT ![r] = h]
    BY <1>12 DEF ReadOwed
  <2>2. Fits(o, "respond", h) /\ (Holds(o, "owed", g) => Holds(o, "respond", h))
    BY <1>1, <1>2, <2>1, FiguresFit
  <2> HIDE DEF o, g, h
  <2> QED BY <1>3, <2>1, <2>2
<1>13. CASE CountRows(r)
  <2> DEFINE h == [g EXCEPT !.listed = Cardinality(Live)]
  <2>1. pc[r] = "count" /\ Goto(r, "find") /\ got' = [got EXCEPT ![r] = h]
    BY <1>13 DEF CountRows
  <2>2. Fits(o, "find", h) /\ (Holds(o, "count", g) => Holds(o, "find", h))
    BY <1>1, <1>2, <2>1, CountFits
  <2> HIDE DEF o, g, h
  <2> QED BY <1>3, <2>1, <2>2
<1>14. CASE FindRows(r)
  <2> DEFINE size == IF o = "export" THEN ExportSize ELSE PageSize
             q    == IF o = "list" /\ g.page * PageSize < g.listed THEN "next" ELSE "respond"
             rows(order) == [e \in Expenses |->
                g.rows[e] + (IF e \in Page(order, g.page, size) THEN 1 ELSE 0)]
  <2>1. PICK order \in PaidAtOrders : got' = [got EXCEPT ![r].rows = rows(order)]
    BY <1>14 DEF FindRows
  <2>2. pc[r] = "find" /\ Goto(r, q) BY <1>14 DEF FindRows
  <2> DEFINE h == [g EXCEPT !.rows = rows(order)]
  <2>3. got' = [got EXCEPT ![r] = h] BY <2>1
  <2>4. Fits(o, q, h) /\ (Holds(o, "find", g) => Holds(o, q, h))
    BY <1>1, <1>2, <2>2, FindFits
  <2> HIDE DEF o, g, h, q
  <2> QED BY <1>3, <2>2, <2>3, <2>4
<1>15. CASE NextPage(r)
  <2> DEFINE h == [g EXCEPT !.page = @ + 1]
  <2>1. pc[r] = "next" /\ Goto(r, "exists") /\ got' = [got EXCEPT ![r] = h]
    BY <1>15 DEF NextPage
  <2>2. Fits(o, "exists", h) /\ (Holds(o, "next", g) => Holds(o, "exists", h))
    BY <1>1, <1>2, <2>1, NextPageFits
  <2> HIDE DEF o, g, h
  <2> QED BY <1>3, <2>1, <2>2
<1>16. CASE Respond(r) \/ Fail(r) BY <1>4, <1>16 DEF Respond, Fail
<1> QED
  BY <1>5, <1>6, <1>7, <1>8, <1>9, <1>10, <1>11, <1>12, <1>13, <1>14, <1>15, <1>16 DEF Step

\* Nothing a request has read depends on who else reads.
LEMMA SameTables ==
    ASSUME UNCHANGED envVars, NEW o, NEW p, NEW g
    PROVE  /\ Fits(o, p, g)' <=> Fits(o, p, g)
           /\ Holds(o, p, g)' <=> Holds(o, p, g)
<1>1. ledger' = ledger /\ member' = member BY DEF envVars
<1>2. Live' = Live BY <1>1 DEF Live, Active
<1>3. \A es : AmountOf(es)' = AmountOf(es) BY <1>1 DEF AmountOf
<1>4. \A u, es : ShareOf(u, es)' = ShareOf(u, es) BY <1>1 DEF ShareOf
<1>5. Fits(o, p, g)' <=> Fits(o, p, g)
  BY DEF Fits, InTurn, Readings, PagesRead, NoReport
<1>6. /\ SumByCategory' = SumByCategory /\ SumByMonth' = SumByMonth
      /\ TotalByGroup' = TotalByGroup /\ SumPaid' = SumPaid /\ SumOwed' = SumOwed
      /\ MembersNow' = MembersNow
  BY <1>1, <1>2, <1>3, <1>4
  DEF SumByCategory, SumByMonth, TotalByGroup, SumPaid, SumOwed, MembersNow
<1>7. FiguresHold(o, p, g)' <=> FiguresHold(o, p, g) BY <1>6 DEF FiguresHold
<1>8. AllRows' = AllRows BY <1>2 DEF AllRows
<1>9. \A n : FirstRows(n)' = FirstRows(n) BY <1>1, <1>2 DEF FirstRows, Rank
<1>10. NoTwoAtOnce' <=> NoTwoAtOnce BY <1>1, <1>2 DEF NoTwoAtOnce
<1>11. PagesHold(o, p, g)' <=> PagesHold(o, p, g)
  BY <1>2, <1>8, <1>9, <1>10 DEF PagesHold, PagesRead, NoRows
<1> QED BY <1>5, <1>7, <1>11 DEF Holds

LEMMA InitReportInv == Init => ReportInv
<1> SUFFICES ASSUME Init PROVE ReportInv OBVIOUS
<1>1. LedgerOK /\ Ledger!LedgerTypeOK
  BY DEF Init, Ledger!Init, Ledger!LedgerTypeOK, LedgerOK
<1>2. member \in [Users -> Group!MemberStatus] BY DEF Init, Group!Init, Group!MemberStatus
<1>3. NoReport \in Readings
  <2>1. "stats" \in Ops BY DEF Ops
  <2> QED BY <1>1, <2>1, NothingRead DEF Fits
<1>4. TypeOK BY <1>1, <1>2, <1>3 DEF Init, TypeOK, Labels
<1>5. \A r \in Requests : Fits(op[r], pc[r], got[r]) /\ Holds(op[r], pc[r], got[r])
  <2> SUFFICES ASSUME NEW r \in Requests
               PROVE  Fits(op[r], pc[r], got[r]) /\ Holds(op[r], pc[r], got[r])
    OBVIOUS
  <2>1. op[r] \in Ops /\ pc[r] = "idle" /\ got[r] = NoReport BY DEF Init
  <2> QED BY <1>1, <2>1, NothingRead
<1> QED BY <1>4, <1>5 DEF ReportInv, Fits, Holds

\* A step of one request keeps what the invariant says of every request.
LEMMA RequestStep ==
    ASSUME ReportInv, NEW r \in Requests, Step(r)
    PROVE  ReportInv'
<1>0. GoesOn(r) BY StepFits
<1>1. PICK q, h : /\ Moves(r, q, h) /\ Fits(op[r], q, h)
                  /\ quiet'[r] => Holds(op[r], q, h)
  BY <1>0 DEF GoesOn
<1>2. TypeOK BY DEF ReportInv
<1>3. /\ UNCHANGED envVars /\ ledger' = ledger /\ member' = member
      /\ op' = op /\ caller' = caller
  BY <1>1 DEF Moves, envVars
<1>4. /\ pc' = [pc EXCEPT ![r] = q] /\ got' = [got EXCEPT ![r] = h]
      /\ quiet' \in {quiet, [quiet EXCEPT ![r] = TRUE]}
  BY <1>1 DEF Moves
<1>5. q \in Labels /\ h \in Readings BY <1>1 DEF Fits
<1>6. /\ pc' \in [Requests -> Labels] /\ got' \in [Requests -> Readings]
      /\ quiet' \in [Requests -> BOOLEAN]
  BY <1>2, <1>4, <1>5 DEF TypeOK
<1>7. TypeOK'
  <2>1. (Ledger!LedgerTypeOK)' BY <1>2, <1>3 DEF TypeOK, Ledger!LedgerTypeOK
  <2> QED BY <1>2, <1>3, <1>6, <2>1 DEF TypeOK, Labels, Readings, Ops, Group!MemberStatus
<1>8. ASSUME NEW x \in Requests
      PROVE  /\ Fits(op[x], pc'[x], got'[x])
             /\ quiet'[x] => Holds(op[x], pc'[x], got'[x])
  <2>1. CASE x = r
    <3>1. pc'[x] = q /\ got'[x] = h BY <1>2, <1>4, <2>1 DEF TypeOK
    <3> QED BY <1>1, <2>1, <3>1
  <2>2. CASE x # r
    <3>1. pc'[x] = pc[x] /\ got'[x] = got[x] /\ quiet'[x] = quiet[x]
      BY <1>2, <1>4, <2>2 DEF TypeOK
    <3>2. /\ Fits(op[x], pc[x], got[x])
          /\ quiet[x] => Holds(op[x], pc[x], got[x])
      BY <1>2 DEF ReportInv, Fits, Holds, TypeOK
    <3> QED BY <3>1, <3>2
  <2> QED BY <2>1, <2>2
<1>9. ASSUME NEW x \in Requests
      PROVE  /\ Fits(op[x], pc[x], got[x])'
             /\ (quiet[x] => Holds(op[x], pc[x], got[x]))'
  BY <1>3, <1>8, SameTables
<1> QED BY <1>7, <1>9 DEF ReportInv, Fits, Holds

\* Whoever writes ends the quiet of every request.
LEMMA WriteStep ==
    ASSUME ReportInv, GroupStep \/ LedgerStep
    PROVE  ReportInv'
<1>1. TypeOK BY DEF ReportInv
<1>2. /\ pc' = pc /\ op' = op /\ caller' = caller /\ got' = got
      /\ quiet' = [r \in Requests |-> FALSE]
  BY DEF GroupStep, LedgerStep, Disturb
<1>3. member' \in [Users -> Group!MemberStatus]
  <2>1. CASE GroupStep
    <3>1. CASE \E u \in Users : Group!Join(u) \/ Group!Leave(u)
      BY <1>1, <3>1 DEF TypeOK, Group!Join, Group!Leave, Group!MemberStatus
    <3>2. CASE Group!Close \/ Group!Reopen
      BY <1>1, <3>2 DEF TypeOK, Group!Close, Group!Reopen
    <3> QED BY <2>1, <3>1, <3>2 DEF GroupStep, Group!Next
  <2>2. CASE LedgerStep BY <1>1, <2>2 DEF LedgerStep, TypeOK
  <2> QED BY <2>1, <2>2
<1>4. ledger' \in [Expenses -> Entries \cup {None}]
  <2>1. ledger \in [Expenses -> Entries \cup {None}]
    BY <1>1 DEF TypeOK, Ledger!LedgerTypeOK
  <2>2. CASE LedgerStep
    <3>1. PICK e \in Expenses : Ledger!Add(e) \/ Ledger!Revise(e) \/ Ledger!Refund(e)
      BY <2>2 DEF LedgerStep, Ledger!Next
    <3>2. CASE Ledger!Add(e) \/ Ledger!Revise(e)
      <4>1. PICK x \in Entries : ledger' = [ledger EXCEPT ![e] = x]
        BY <3>2 DEF Ledger!Add, Ledger!Revise
      <4> QED BY <2>1, <4>1
    <3>3. CASE Ledger!Refund(e)
      <4>1. ledger[e] \in Entries BY <2>1, <3>3 DEF Ledger!Refund
      <4>2. [ledger[e] EXCEPT !.status = "refunded"] \in Entries
        BY <4>1, EntriesAssumption
      <4>3. ledger' = [ledger EXCEPT ![e] = [ledger[e] EXCEPT !.status = "refunded"]]
        BY <3>3 DEF Ledger!Refund
      <4> QED BY <2>1, <4>2, <4>3
    <3> QED BY <3>1, <3>2, <3>3
  <2>3. CASE GroupStep BY <2>1, <2>3 DEF GroupStep
  <2> QED BY <2>2, <2>3
<1>5. TypeOK'
  <2>1. (Ledger!LedgerTypeOK)' BY <1>4 DEF Ledger!LedgerTypeOK
  <2> QED BY <1>1, <1>2, <1>3, <2>1 DEF TypeOK, Labels, Readings, Ops, Group!MemberStatus
<1>6. \A r \in Requests : InTurn(op[r], pc[r], got[r])'
  BY <1>2 DEF ReportInv, InTurn, PagesRead, NoReport
<1>7. \A r \in Requests : ~quiet'[r] BY <1>2
<1> QED BY <1>5, <1>6, <1>7 DEF ReportInv

LEMMA NextReportInv == ReportInv /\ [Next]_vars => ReportInv'
<1> SUFFICES ASSUME ReportInv, [Next]_vars PROVE ReportInv' OBVIOUS
<1>1. CASE \E r \in Requests : Step(r) BY <1>1, RequestStep
<1>2. CASE GroupStep \/ LedgerStep BY <1>2, WriteStep
<1>3. CASE UNCHANGED vars
  <2>1. UNCHANGED envVars /\ UNCHANGED << pc, op, caller, got, quiet, ledger, member >>
    BY <1>3 DEF vars, envVars
  <2>2. TypeOK'
    <3>1. (Ledger!LedgerTypeOK)'
      BY <2>1 DEF ReportInv, TypeOK, Ledger!LedgerTypeOK
    <3> QED BY <2>1, <3>1 DEF ReportInv, TypeOK, Labels, Readings, Ops, Group!MemberStatus
  <2>3. ASSUME NEW x \in Requests
        PROVE  /\ Fits(op[x], pc[x], got[x])'
               /\ (quiet[x] => Holds(op[x], pc[x], got[x]))'
    BY <2>1, SameTables DEF ReportInv, Fits, Holds, TypeOK
  <2> QED BY <2>2, <2>3 DEF ReportInv, Fits, Holds
<1> QED BY <1>1, <1>2, <1>3 DEF Next

\* What a report has read, statement by statement and in no transaction, is what
\* it would read now, as long as nobody has written meanwhile.
THEOREM ReportInvariance == Spec => []ReportInv
BY InitReportInv, NextReportInv, PTL DEF Spec

\* The variables keep their types.
THEOREM ReportTypes == Spec => []TypeOK
<1>1. ReportInv => TypeOK BY DEF ReportInv
<1> QED BY <1>1, ReportInvariance, PTL

\* The sums by a key add up to the whole sum.
SumsBy(g, f, key, D, K) ==
    \A k \in K : g[k] = SumFunctionOnSet(f, {e \in D : key[e] = k})

LEMMA SumsByKey ==
    ASSUME NEW D, IsFiniteSet(D), NEW K, IsFiniteSet(K),
           NEW key, \A e \in D : key[e] \in K,
           NEW f, \A e \in D : f[e] \in Int,
           NEW g, SumsBy(g, f, key, D, K)
    PROVE  SumFunctionOnSet(g, K) = SumFunctionOnSet(f, D)
<1> DEFINE row    == [k \in K |-> [e \in D |-> IF key[e] = k THEN f[e] ELSE 0]]
           column == [e \in D |-> [k \in K |-> IF key[e] = k THEN f[e] ELSE 0]]
<1>1. Transposed(row, column, K, D) BY DEF Transposed
<1>2. \A k \in K : g[k] = SumFunctionOnSet(row[k], D)
  <2> SUFFICES ASSUME NEW k \in K PROVE g[k] = SumFunctionOnSet(row[k], D) OBVIOUS
  <2> DEFINE T == {e \in D : key[e] = k}
  <2>1. T \in SUBSET D /\ \A e \in T : f[e] \in Int OBVIOUS
  <2>2. \A e \in D : row[k][e] = IF e \in T THEN f[e] ELSE 0 OBVIOUS
  <2>3. g[k] = SumFunctionOnSet(f, T) BY DEF SumsBy
  <2>4. PICK h : h = row[k] OBVIOUS
  <2>5. \A e \in D : h[e] = IF e \in T THEN f[e] ELSE 0 BY <2>2, <2>4
  <2> HIDE DEF T, row
  <2>6. SumFunctionOnSet(f, T) = SumFunctionOnSet(h, D) BY <2>1, <2>5, SetSumFilter
  <2> QED BY <2>3, <2>4, <2>6
<1>3. \A e \in D : f[e] = SumFunctionOnSet(column[e], K)
  <2> SUFFICES ASSUME NEW e \in D PROVE f[e] = SumFunctionOnSet(column[e], K) OBVIOUS
  <2>1. PICK h : h = column[e] OBVIOUS
  <2>2. PICK k \in K : k = key[e] OBVIOUS
  <2>3. h[k] = f[e] /\ f[e] \in Int /\ \A x \in K \ {k} : h[x] = 0 BY <2>1, <2>2
  <2> HIDE DEF column
  <2>4. {k} \in SUBSET K OBVIOUS
  <2>5. \A x \in {k} : h[x] \in Int BY <2>3
  <2>6. SumFunctionOnSet(h, K) = SumFunctionOnSet(h, {k}) BY <2>3, <2>4, <2>5, SetSumWithin
  <2>7. SumFunctionOnSet(h, {k}) = h[k] BY <2>3, SetSumOne
  <2> QED BY <2>1, <2>3, <2>6, <2>7
<1> HIDE DEF row, column
<1> QED BY <1>1, <1>2, <1>3, SetSumSwap

Spent == [e \in Live |-> ledger[e].amount]

LEMMA TotalIs ==
    ASSUME LedgerOK
    PROVE  /\ TotalByGroup = SumFunctionOnSet(Spent, Live) /\ TotalByGroup \in Nat
           /\ \A e \in Live : Spent[e] = ledger[e].amount /\ Spent[e] \in Nat
           /\ \A es \in SUBSET Live : AmountOf(es) = SumFunctionOnSet(Spent, es)
<1>1. \A e \in Live : Spent[e] = ledger[e].amount /\ Spent[e] \in Nat
  BY Fields DEF Spent
<1>2. \A es \in SUBSET Live : AmountOf(es) = SumFunctionOnSet(Spent, es)
  <2> SUFFICES ASSUME NEW es \in SUBSET Live
               PROVE  AmountOf(es) = SumFunctionOnSet(Spent, es)
    OBVIOUS
  <2>1. \A e \in es : Spent[e] = ledger[e].amount BY <1>1
  <2> QED BY <2>1, AmountIs
<1> QED BY <1>1, <1>2, FiguresTyped DEF TotalByGroup

\* Every active expense has one category and one payer.
LEMMA CategoriesAddUp ==
    ASSUME LedgerOK PROVE SumFunctionOnSet(SumByCategory, Categories) = TotalByGroup
<1> DEFINE key == [e \in Live |-> ledger[e].category]
<1>1. \A e \in Live : key[e] \in Categories /\ Spent[e] \in Int BY Fields, TotalIs
<1>2. \A c \in Categories : {e \in Live : key[e] = c} = {e \in Live : ledger[e].category = c}
  OBVIOUS
<1>3. SumsBy(SumByCategory, Spent, key, Live, Categories)
  BY <1>2, TotalIs DEF SumByCategory, SumsBy
<1> HIDE DEF key
<1>4. SumFunctionOnSet(SumByCategory, Categories) = SumFunctionOnSet(Spent, Live)
  BY <1>1, <1>3, LiveIsFinite, TableAssumption, SumsByKey
<1> QED BY <1>4, TotalIs

LEMMA PayersAddUp ==
    ASSUME LedgerOK PROVE SumFunctionOnSet(SumPaid, Users) = TotalByGroup
<1> DEFINE key == [e \in Live |-> ledger[e].payer]
<1>1. \A e \in Live : key[e] \in Users /\ Spent[e] \in Int BY Fields, TotalIs
<1>2. \A u \in Users : {e \in Live : key[e] = u} = {e \in Live : ledger[e].payer = u}
  OBVIOUS
<1>3. SumsBy(SumPaid, Spent, key, Live, Users)
  BY <1>2, TotalIs DEF SumPaid, SumsBy
<1> HIDE DEF key
<1>4. SumFunctionOnSet(SumPaid, Users) = SumFunctionOnSet(Spent, Live)
  BY <1>1, <1>3, LiveIsFinite, TableAssumption, SumsByKey
<1> QED BY <1>4, TotalIs

\* What some of the users have paid.
LEMMA MembersPaid ==
    ASSUME LedgerOK, NEW M \in SUBSET Users
    PROVE  /\ SumFunctionOnSet(SumPaid, M) <= TotalByGroup
           /\ (\A e \in Live : ledger[e].payer \in M)
                 => SumFunctionOnSet(SumPaid, M) = TotalByGroup
<1>1. \A u \in Users : SumPaid[u] \in Nat BY FiguresTyped
<1>2. SumFunctionOnSet(SumPaid, M) <= SumFunctionOnSet(SumPaid, Users)
  BY <1>1, TableAssumption, SetSumPart
<1>3. ASSUME \A e \in Live : ledger[e].payer \in M
      PROVE  SumFunctionOnSet(SumPaid, Users) = SumFunctionOnSet(SumPaid, M)
  <2>1. \A u \in Users \ M : SumPaid[u] = 0
    <3> SUFFICES ASSUME NEW u \in Users \ M PROVE SumPaid[u] = 0 OBVIOUS
    <3>1. {e \in Live : ledger[e].payer = u} = {} BY <1>3
    <3>2. SumPaid[u] = SumFunctionOnSet(Spent, {}) BY <3>1, TotalIs DEF SumPaid
    <3> QED BY <3>2, SetSumEmpty
  <2>2. \A u \in M : SumPaid[u] \in Int BY <1>1
  <2> QED BY <2>1, <2>2, TableAssumption, SetSumWithin
<1> QED BY <1>2, <1>3, PayersAddUp

\* What some of the users owe, when they are all that owe anything and the
\* shares of each expense add up to its amount.
LEMMA MembersOwe ==
    ASSUME LedgerOK, NEW M \in SUBSET Users,
           \A e \in Live : SumFunctionOnSet(ledger[e].shares, Users) = ledger[e].amount,
           \A e \in Live : \A u \in Users \ M : ledger[e].shares[u] = 0
    PROVE  SumFunctionOnSet(SumOwed, M) = TotalByGroup
<1> DEFINE row    == [u \in Users |-> [e \in Live |-> ledger[e].shares[u]]]
           column == [e \in Live |-> ledger[e].shares]
<1>1. Transposed(row, column, Users, Live) BY Fields DEF Transposed
<1>2. \A u \in Users : SumOwed[u] \in Int /\ SumOwed[u] = SumFunctionOnSet(row[u], Live)
  <2> SUFFICES ASSUME NEW u \in Users
               PROVE  SumOwed[u] \in Int /\ SumOwed[u] = SumFunctionOnSet(row[u], Live)
    OBVIOUS
  <2>1. PICK f : f = row[u] OBVIOUS
  <2>2. \A e \in Live : f[e] = ledger[e].shares[u] BY <2>1
  <2> HIDE DEF row
  <2>3. SumOwed[u] = ShareOf(u, Live) BY DEF SumOwed
  <2>4. ShareOf(u, Live) \in Int /\ ShareOf(u, Live) = SumFunctionOnSet(f, Live)
    BY <2>2, ShareIs
  <2> QED BY <2>1, <2>3, <2>4
<1>3. \A e \in Live : Spent[e] = SumFunctionOnSet(column[e], Users) BY TotalIs
<1>4. \A u \in Users \ M : SumOwed[u] = 0
  <2> SUFFICES ASSUME NEW u \in Users \ M PROVE SumOwed[u] = 0 OBVIOUS
  <2>1. PICK f : f = row[u] OBVIOUS
  <2>2. \A e \in Live : f[e] = 0 BY <2>1
  <2> HIDE DEF row
  <2>3. SumFunctionOnSet(f, Live) = 0 BY <2>2, LiveIsFinite, SetSumZero
  <2> QED BY <1>2, <2>1, <2>3
<1> HIDE DEF row, column
<1>5. SumFunctionOnSet(SumOwed, Users) = SumFunctionOnSet(Spent, Live)
  BY <1>1, <1>2, <1>3, LiveIsFinite, TableAssumption, SetSumSwap
<1>6. SumFunctionOnSet(SumOwed, Users) = SumFunctionOnSet(SumOwed, M)
  BY <1>2, <1>4, TableAssumption, SetSumWithin
<1> QED BY <1>5, <1>6, TotalIs

\* The figures that GetGroupStats reads one after the other agree when nothing is
\* written meanwhile: the sums by category, by month and by member with the total.
THEOREM FiguresAgree == Spec => []StatsAgree
<1>1. ReportInv => StatsAgree
  <2> SUFFICES ASSUME ReportInv, NEW r \in Requests, Reports(r, {"stats"}), NEW g, g = got[r]
               PROVE  /\ SumOver(g.category, Categories) = g.total
                      /\ g.recent <= g.total
                      /\ (\A e \in Live : ledger[e].paidAt >= Start) => g.recent = g.total
                      /\ SumOver(g.paid, g.members) <= g.total
                      /\ (\A e \in Live : ledger[e].payer \in g.members) =>
                            SumOver(g.paid, g.members) = g.total
    BY DEF StatsAgree
  <2>1. LedgerOK BY DEF ReportInv, TypeOK, Ledger!LedgerTypeOK, LedgerOK
  <2>2. /\ g.category = SumByCategory /\ g.recent = SumByMonth /\ g.total = TotalByGroup
        /\ g.members = MembersNow /\ g.paid = SumPaid
    BY DEF ReportInv, FiguresHold, Reports
  <2>3. MembersNow \in SUBSET Users BY DEF MembersNow
  <2> DEFINE late == {e \in Live : ledger[e].paidAt >= Start}
  <2>4. late \in SUBSET Live /\ SumByMonth = AmountOf(late) BY DEF SumByMonth
  <2>5. (\A e \in Live : ledger[e].paidAt >= Start) => late = Live OBVIOUS
  <2> HIDE DEF late
  <2>6. g.recent <= g.total
    <3>1. \A e \in Live : Spent[e] \in Nat BY <2>1, TotalIs
    <3>2. SumFunctionOnSet(Spent, late) <= SumFunctionOnSet(Spent, Live)
      BY <2>4, <3>1, LiveIsFinite, SetSumPart
    <3> QED BY <2>1, <2>2, <2>4, <3>2, TotalIs
  <2>7. (\A e \in Live : ledger[e].paidAt >= Start) => g.recent = g.total
    BY <2>2, <2>4, <2>5 DEF TotalByGroup
  <2>8. SumOver(g.category, Categories) = g.total
    BY <2>1, <2>2, CategoriesAddUp DEF SumOver
  <2> QED BY <2>1, <2>2, <2>3, <2>6, <2>7, <2>8, MembersPaid DEF SumOver
<1> QED BY <1>1, ReportInvariance, PTL

\* The balances that GetGroupStats and Balances show cancel out when nothing is
\* written meanwhile and all expenses are split exactly among the members listed.
THEOREM BalancesCancel == Spec => []NetsCancel
<1>1. ReportInv => NetsCancel
  <2> SUFFICES ASSUME ReportInv, NEW r \in Requests, Reports(r, {"stats", "balances"}),
                      NEW g, g = got[r],
                      \A e \in Live :
                         SumOver(ledger[e].shares, Users) = ledger[e].amount,
                      \A e \in Live : \A u \in Users :
                         (ledger[e].payer = u \/ ledger[e].shares[u] # 0) => u \in g.members
               PROVE  SumOver(g.paid, g.members) = SumOver(g.owed, g.members)
    BY DEF NetsCancel
  <2>1. LedgerOK BY DEF ReportInv, TypeOK, Ledger!LedgerTypeOK, LedgerOK
  <2>2. g.members = MembersNow /\ g.paid = SumPaid /\ g.owed = SumOwed
    BY DEF ReportInv, FiguresHold, Reports
  <2>3. MembersNow \in SUBSET Users BY DEF MembersNow
  <2>4. \A e \in Live : ledger[e].payer \in MembersNow BY <2>1, <2>2, Fields
  <2>5. SumFunctionOnSet(SumPaid, MembersNow) = TotalByGroup
    BY <2>1, <2>3, <2>4, MembersPaid
  <2>6. \A e \in Live : SumFunctionOnSet(ledger[e].shares, Users) = ledger[e].amount
    BY DEF SumOver
  <2>7. \A e \in Live : \A u \in Users \ MembersNow : ledger[e].shares[u] = 0 BY <2>2
  <2>8. SumFunctionOnSet(SumOwed, MembersNow) = TotalByGroup
    BY <2>1, <2>3, <2>6, <2>7, MembersOwe
  <2> QED BY <2>2, <2>5, <2>8 DEF SumOver
<1> QED BY <1>1, ReportInvariance, PTL

\* Whoever reads all pages of List gets every active expense once when nothing is
\* written meanwhile, unless two were paid at one moment; so does one ExportCSV,
\* as long as its page is large enough.
THEOREM PagesAreComplete == Spec => []ListsAreComplete
<1>1. ReportInv => ListsAreComplete
  <2> SUFFICES ASSUME ReportInv, NEW r \in Requests, Reports(r, {"list", "export"})
               PROVE  \/ op[r] = "list" /\ ~NoTwoAtOnce
                      \/ op[r] = "export" /\ Cardinality(Live) > ExportSize
                      \/ got[r].rows = AllRows
    BY DEF ListsAreComplete, NoTwoAtOnce, AllRows
  <2>1. LedgerOK BY DEF ReportInv, TypeOK, Ledger!LedgerTypeOK, LedgerOK
  <2>2. pc[r] = "respond" /\ PagesHold(op[r], pc[r], got[r]) BY DEF ReportInv, Reports
  <2>3. CASE op[r] = "list" /\ NoTwoAtOnce
    <3>1. got[r] \in Readings BY DEF ReportInv, TypeOK
    <3>2. PICK k \in Nat \ {0} : k = got[r].page BY <3>1, PageNumbers
    <3>3. PICK n \in Nat : n = k * PageSize BY <3>2, NextPageIs, PageAssumption
    <3>4. got[r].rows = FirstRows(n) /\ Cardinality(Live) <= n
      BY <2>2, <2>3, <3>2, <3>3 DEF PagesHold, PagesRead
    <3> QED BY <2>1, <3>3, <3>4, AllPages
  <2>4. CASE op[r] = "export" /\ ~(Cardinality(Live) > ExportSize)
    <3>1. Cardinality(Live) <= ExportSize BY <2>4, LiveIsFinite, PageAssumption
    <3> QED BY <2>2, <2>4, <3>1 DEF PagesHold
  <2> QED BY <2>3, <2>4 DEF Reports
<1> QED BY <1>1, ReportInvariance, PTL
=============================================================================
