-------------------------- MODULE Transfers_proofs --------------------------
(***************************************************************************)
(* What the theorems about sums of money rest on, as lemmas: induction,    *)
(* sums over lists and over sets, what CalculateShares and the loop of     *)
(* OptimizeTransfers do with amounts in whole cents.                       *)
(***************************************************************************)
EXTENDS Transfers, FiniteSetTheorems, TLAPS

\* The least-number principle: the initial segments of Nat are finite sets,
\* which strict inclusion orders well.
LEMMA Least ==
    ASSUME NEW T, T \subseteq Nat, T # {}
    PROVE  \E x \in T : \A y \in T : ~(y < x)
<1> DEFINE R     == StrictSubsetOrdering(Nat)
           below == {0 .. k : k \in T}
<1>1. IsWellFoundedOn(R, FiniteSubsetsOf(Nat)) BY FS_StrictSubsetOrderingWellFounded
<1>2. below \subseteq FiniteSubsetsOf(Nat)
  <2>1. \A k \in T : IsFiniteSet(0 .. k) BY FS_Interval
  <2> QED BY <2>1 DEF FiniteSubsetsOf
<1>3. below # {} OBVIOUS
<1>4. PICK b \in below : \A c \in below : << c, b >> \notin R
  <2> HIDE DEF R, below
  <2> QED BY <1>1, <1>2, <1>3, WFMin
<1>5. PICK x \in T : b = 0 .. x OBVIOUS
<1>6. ASSUME NEW y \in T, y < x PROVE FALSE
  <2>1. 0 .. y \subseteq 0 .. x /\ 0 .. y # 0 .. x /\ 0 .. x \subseteq Nat BY <1>6
  <2>2. << 0 .. y, b >> \in R BY <1>5, <2>1 DEF StrictSubsetOrdering
  <2> QED BY <1>4, <2>2
<1> QED BY <1>6

\* Induction, with the set of the numbers that have the property.
LEMMA Induction ==
    ASSUME NEW S, 0 \in S, \A n \in Nat : n \in S => n + 1 \in S
    PROVE  Nat \subseteq S
<1> SUFFICES ASSUME Nat \ S # {} PROVE FALSE OBVIOUS
<1>1. PICK n \in Nat \ S : \A k \in Nat \ S : ~(k < n) BY Least
<1>2. n # 0 /\ n - 1 \in Nat /\ n - 1 < n /\ n = (n - 1) + 1 BY <1>1
<1> QED BY <1>1, <1>2

\* Induction over the subsets of a finite set, with the set of those that have
\* the property.
LEMMA SetInduction ==
    ASSUME NEW S, IsFiniteSet(S), NEW P, {} \in P,
           \A s \in SUBSET S : \A x \in S \ s : s \in P => s \cup {x} \in P
    PROVE  S \in P
<1> DEFINE K == {n \in Nat : \A s \in SUBSET S : Cardinality(s) = n => s \in P}
<1>1. 0 \in K
  <2>1. \A s \in SUBSET S : Cardinality(s) = 0 => s = {} BY FS_Subset, FS_EmptySet
  <2> QED BY <2>1
<1>2. ASSUME NEW n \in Nat, n \in K PROVE n + 1 \in K
  <2> SUFFICES ASSUME NEW s \in SUBSET S, Cardinality(s) = n + 1 PROVE s \in P OBVIOUS
  <2>1. IsFiniteSet(s) BY FS_Subset
  <2>2. PICK x \in s : TRUE BY <2>1, FS_EmptySet
  <2>3. Cardinality(s \ {x}) = n
    <3>1. Cardinality(s \ {x}) = Cardinality(s) - 1 BY <2>1, <2>2, FS_RemoveElement
    <3> QED BY <3>1
  <2>4. s \ {x} \in P BY <1>2, <2>3
  <2>5. (s \ {x}) \cup {x} = s BY <2>2
  <2> QED BY <2>2, <2>4, <2>5
<1>3. Nat \subseteq K
  <2> HIDE DEF K
  <2> QED BY <1>1, <1>2, Induction
<1>4. PICK n \in Nat : Cardinality(S) = n BY FS_CardinalityType
<1>5. n \in K
  <2> HIDE DEF K
  <2> QED BY <1>3
<1> QED BY <1>4, <1>5
-----------------------------------------------------------------------------
\* f is the fold of + over the indices in a set, the largest first.
Sums(f, s, D) == f = [x \in SUBSET D |-> IF x = {} THEN 0 ELSE f[x \ {Max(x)}] + s[Max(x)]]

LEMMA MaxIs ==
    ASSUME NEW x \in SUBSET Int, NEW k \in x, \A j \in x : j <= k
    PROVE  Max(x) = k
<1>1. k >= k /\ \A j \in x : k >= j OBVIOUS
<1>2. Max(x) \in x /\ \A j \in x : Max(x) >= j BY <1>1, Zenon DEF Max
<1>3. ASSUME NEW y \in x, \A j \in x : y >= j PROVE y = k
  <2>1. y \in Int /\ k \in Int /\ y >= k /\ y <= k BY <1>3
  <2> QED BY <2>1
<1> QED BY <1>2, <1>3, Zenon

\* There is such an f, for any number of indices; it is natural if s is.
LEMMA SumsExist ==
    ASSUME NEW s, NEW n \in Nat
    PROVE  \E f : /\ Sums(f, s, 1 .. n)
                  /\ (\A k \in 1 .. n : s[k] \in Nat) => \A x \in SUBSET (1 .. n) : f[x] \in Nat
<1> DEFINE natural(k) == \A j \in 1 .. k : s[j] \in Nat
           S == {k \in Nat : \E f : /\ Sums(f, s, 1 .. k)
                                    /\ natural(k) => \A x \in SUBSET (1 .. k) : f[x] \in Nat}
<1>1. 0 \in S
  <2> DEFINE f == [x \in {{}} |-> 0]
  <2>1. 1 .. 0 = {} /\ SUBSET {} = {{}} OBVIOUS
  <2>2. Sums(f, s, 1 .. 0) BY <2>1 DEF Sums
  <2>3. \A x \in SUBSET (1 .. 0) : f[x] \in Nat BY <2>1
  <2> HIDE DEF f, natural
  <2> QED BY <2>2, <2>3
<1>2. ASSUME NEW k \in Nat, k \in S PROVE k + 1 \in S
  <2>1. PICK f : /\ Sums(f, s, 1 .. k)
                 /\ natural(k) => \A x \in SUBSET (1 .. k) : f[x] \in Nat
    BY <1>2
  <2> DEFINE g == [x \in SUBSET (1 .. k + 1) |->
                     IF k + 1 \in x THEN f[x \ {k + 1}] + s[k + 1] ELSE f[x]]
  <2>2. ASSUME NEW x \in SUBSET (1 .. k + 1)
        PROVE  g[x] = IF x = {} THEN 0 ELSE g[x \ {Max(x)}] + s[Max(x)]
    <3>1. CASE k + 1 \in x
      <4>1. Max(x) = k + 1 BY <3>1, MaxIs
      <4>2. g[x \ {k + 1}] = f[x \ {k + 1}] OBVIOUS
      <4>3. g[x] = f[x \ {k + 1}] + s[k + 1] BY <3>1
      <4> HIDE DEF g
      <4> QED BY <3>1, <4>1, <4>2, <4>3
    <3>2. CASE k + 1 \notin x
      <4>1. x \in SUBSET (1 .. k) BY <3>2
      <4>2. f[x] = IF x = {} THEN 0 ELSE f[x \ {Max(x)}] + s[Max(x)]
        BY <2>1, <4>1 DEF Sums
      <4>3. x \ {Max(x)} \in SUBSET (1 .. k + 1) /\ k + 1 \notin x \ {Max(x)} BY <3>2
      <4>4. g[x] = f[x] /\ g[x \ {Max(x)}] = f[x \ {Max(x)}] BY <3>2, <4>3
      <4> HIDE DEF g
      <4> QED BY <4>2, <4>4
    <3> QED BY <3>1, <3>2
  <2>3. Sums(g, s, 1 .. k + 1)
    <3>1. g = [x \in SUBSET (1 .. k + 1) |-> g[x]] OBVIOUS
    <3> HIDE DEF g
    <3> QED BY <2>2, <3>1 DEF Sums
  <2>4. ASSUME natural(k + 1), NEW x \in SUBSET (1 .. k + 1) PROVE g[x] \in Nat
    <3>1. natural(k) /\ s[k + 1] \in Nat BY <2>4
    <3>2. x \ {k + 1} \in SUBSET (1 .. k) OBVIOUS
    <3>3. f[x \ {k + 1}] \in Nat BY <2>1, <3>1, <3>2
    <3>4. CASE k + 1 \in x BY <3>1, <3>3, <3>4
    <3>5. CASE k + 1 \notin x
      <4>1. x \ {k + 1} = x BY <3>5
      <4> QED BY <3>3, <3>5, <4>1
    <3> QED BY <3>4, <3>5
  <2> HIDE DEF g, natural
  <2> QED BY <2>3, <2>4
<1> HIDE DEF S
<1>3. Nat \subseteq S BY <1>1, <1>2, Induction
<1> QED BY <1>3 DEF S

\* SumOf by prefixes.
LEMMA SumByPrefixes ==
    ASSUME NEW s, NEW n \in Nat, DOMAIN s = 1 .. n
    PROVE  \E p : /\ p[0] = 0
                  /\ \A k \in 0 .. n - 1 : p[k + 1] = p[k] + s[k + 1]
                  /\ p[n] = SumOf(s)
<1> DEFINE F == CHOOSE f : Sums(f, s, 1 .. n)
           q == [k \in 0 .. n |-> F[1 .. k]]
<1>1. SumOf(s) = F[1 .. n] BY DEF SumOf, FoldLeft, MapThenFoldSet, Sums
<1>2. Sums(F, s, 1 .. n) BY SumsExist
<1> HIDE DEF F
<1>3. q[0] = 0
  <2>1. 1 .. 0 = {} /\ 0 \in 0 .. n OBVIOUS
  <2>2. F[{}] = 0 BY <1>2 DEF Sums
  <2> QED BY <2>1, <2>2
<1>4. ASSUME NEW k \in 0 .. n - 1 PROVE q[k + 1] = q[k] + s[k + 1]
  <2>1. /\ 1 .. k + 1 \in SUBSET (1 .. n) /\ 1 .. k + 1 # {}
        /\ k \in 0 .. n /\ k + 1 \in 0 .. n
    OBVIOUS
  <2>2. Max(1 .. k + 1) = k + 1
    <3>1. /\ 1 .. k + 1 \in SUBSET Int /\ k + 1 \in 1 .. k + 1
          /\ \A j \in 1 .. k + 1 : j <= k + 1
      OBVIOUS
    <3> QED BY <3>1, MaxIs
  <2>3. (1 .. k + 1) \ {k + 1} = 1 .. k OBVIOUS
  <2>4. F[1 .. k + 1] = F[1 .. k] + s[k + 1] BY <1>2, <2>1, <2>2, <2>3 DEF Sums
  <2> QED BY <2>1, <2>4
<1>5. q[n] = SumOf(s) BY <1>1
<1> HIDE DEF q
<1> QED BY <1>3, <1>4, <1>5

\* Whatever is summed up index by index is the sum.
LEMMA SumIs ==
    ASSUME NEW s, NEW n \in Nat, DOMAIN s = 1 .. n,
           NEW p, p[0] = 0, \A k \in 0 .. n - 1 : p[k + 1] = p[k] + s[k + 1]
    PROVE  p[n] = SumOf(s)
<1>1. PICK q : /\ q[0] = 0
               /\ \A k \in 0 .. n - 1 : q[k + 1] = q[k] + s[k + 1]
               /\ q[n] = SumOf(s)
  BY SumByPrefixes
<1> DEFINE S == {k \in Nat : k <= n => p[k] = q[k]}
<1>2. 0 \in S BY <1>1
<1>3. \A k \in Nat : k \in S => k + 1 \in S BY <1>1
<1> HIDE DEF S
<1>4. Nat \subseteq S BY <1>2, <1>3, Induction
<1> QED BY <1>1, <1>4 DEF S

\* Being an integer goes over to the sum, and so does being at least 0.
LEMMA SumType ==
    ASSUME NEW s, NEW n \in Nat, DOMAIN s = 1 .. n, \A k \in 1 .. n : s[k] \in Int
    PROVE  /\ SumOf(s) \in Int
           /\ ((\A k \in 1 .. n : s[k] >= 0) => SumOf(s) >= 0)
<1>1. PICK p : /\ p[0] = 0
               /\ \A k \in 0 .. n - 1 : p[k + 1] = p[k] + s[k + 1]
               /\ p[n] = SumOf(s)
  BY SumByPrefixes
<1> DEFINE positive == \A j \in 1 .. n : s[j] >= 0
           S == {k \in Nat : k <= n => (p[k] \in Int /\ (positive => p[k] >= 0))}
<1>2. 0 \in S BY <1>1
<1>3. ASSUME NEW k \in Nat, k \in S PROVE k + 1 \in S
  <2>1. CASE k + 1 <= n
    <3>1. k \in 0 .. n - 1 /\ k + 1 \in 1 .. n BY <2>1
    <3>2. p[k] \in Int /\ (positive => p[k] >= 0) /\ s[k + 1] \in Int
          /\ (positive => s[k + 1] >= 0)
      BY <1>3, <3>1
    <3>3. p[k + 1] = p[k] + s[k + 1] BY <1>1, <3>1
    <3> HIDE DEF positive
    <3> QED BY <3>2, <3>3
  <2>2. CASE ~(k + 1 <= n) BY <2>2
  <2> QED BY <2>1, <2>2
<1> HIDE DEF S
<1>4. Nat \subseteq S BY <1>2, <1>3, Induction
<1>5. p[n] \in Int /\ (positive => p[n] >= 0) BY <1>4 DEF S
<1> QED BY <1>1, <1>5

LEMMA SumEmpty == ASSUME NEW s, DOMAIN s = {} PROVE SumOf(s) = 0
<1>1. DOMAIN s = 1 .. 0 OBVIOUS
<1>2. PICK p : p[0] = 0 /\ p[0] = SumOf(s) BY <1>1, SumByPrefixes
<1> QED BY <1>2

\* One more term.
LEMMA SumMore ==
    ASSUME NEW n \in Nat, NEW s, DOMAIN s = 1 .. n,
           NEW t, DOMAIN t = 1 .. n + 1, \A k \in 1 .. n : t[k] = s[k]
    PROVE  SumOf(t) = SumOf(s) + t[n + 1]
<1>1. PICK p : /\ p[0] = 0
               /\ \A k \in 0 .. n : p[k + 1] = p[k] + t[k + 1]
               /\ p[n + 1] = SumOf(t)
  <2>1. n + 1 \in Nat /\ (n + 1) - 1 = n OBVIOUS
  <2> QED BY <2>1, SumByPrefixes
<1>2. \A k \in 0 .. n - 1 : p[k + 1] = p[k] + s[k + 1] BY <1>1
<1>3. p[n] = SumOf(s) BY <1>1, <1>2, SumIs
<1> QED BY <1>1, <1>3

\* A change of one term.
LEMMA SumChange ==
    ASSUME NEW n \in Nat, NEW s, NEW t, DOMAIN s = 1 .. n, DOMAIN t = 1 .. n,
           NEW i \in 1 .. n, \A k \in 1 .. n : s[k] \in Int /\ t[k] \in Int,
           \A k \in 1 .. n : k # i => t[k] = s[k]
    PROVE  SumOf(t) = SumOf(s) + (t[i] - s[i])
<1>1. PICK p : /\ p[0] = 0
               /\ \A k \in 0 .. n - 1 : p[k + 1] = p[k] + s[k + 1]
               /\ p[n] = SumOf(s)
  BY SumByPrefixes
<1>2. PICK q : /\ q[0] = 0
               /\ \A k \in 0 .. n - 1 : q[k + 1] = q[k] + t[k + 1]
               /\ q[n] = SumOf(t)
  BY SumByPrefixes
<1>3. PICK d \in Int : t[i] = s[i] + d
  <2>1. s[i] \in Int /\ t[i] \in Int OBVIOUS
  <2>2. t[i] - s[i] \in Int /\ t[i] = s[i] + (t[i] - s[i]) BY <2>1
  <2> QED BY <2>2
<1> DEFINE S == {k \in Nat : k <= n =>
                    (p[k] \in Int /\ q[k] = IF k < i THEN p[k] ELSE p[k] + d)}
<1>4. 0 \in S BY <1>1, <1>2
<1>5. ASSUME NEW k \in Nat, k \in S PROVE k + 1 \in S
  <2>1. CASE k + 1 <= n
    <3>1. k \in 0 .. n - 1 /\ k + 1 \in 1 .. n BY <2>1
    <3>2. p[k] \in Int /\ q[k] = IF k < i THEN p[k] ELSE p[k] + d BY <1>5, <3>1
    <3>3. s[k + 1] \in Int BY <3>1
    <3>4. p[k + 1] = p[k] + s[k + 1] /\ q[k + 1] = q[k] + t[k + 1] BY <1>1, <1>2, <3>1
    <3>5. p[k + 1] \in Int BY <3>2, <3>3, <3>4
    <3>6. q[k + 1] = IF k + 1 < i THEN p[k + 1] ELSE p[k + 1] + d
      <4>1. CASE k + 1 = i
        <5>1. q[k] = p[k]
          <6>1. k < i BY <4>1
          <6> QED BY <3>2, <6>1
        <5>2. t[k + 1] = s[k + 1] + d BY <1>3, <4>1, Zenon
        <5>3. q[k + 1] = p[k + 1] + d BY <3>2, <3>3, <3>4, <5>1, <5>2
        <5> QED BY <4>1, <5>3
      <4>2. CASE k + 1 # i
        <5>1. t[k + 1] = s[k + 1] BY <3>1, <4>2
        <5>2. k < i <=> k + 1 < i BY <4>2
        <5>3. CASE k < i
          <6>1. q[k] = p[k] BY <3>2, <5>3
          <6>2. q[k + 1] = p[k + 1] BY <3>4, <5>1, <6>1
          <6> QED BY <5>2, <5>3, <6>2
        <5>4. CASE ~(k < i)
          <6>1. q[k] = p[k] + d BY <3>2, <5>4
          <6>2. q[k + 1] = p[k + 1] + d BY <3>2, <3>3, <3>4, <5>1, <6>1
          <6> QED BY <5>2, <5>4, <6>2
        <5> QED BY <5>3, <5>4
      <4> QED BY <4>1, <4>2
    <3> QED BY <3>5, <3>6
  <2>2. CASE ~(k + 1 <= n) BY <2>2
  <2> QED BY <2>1, <2>2
<1> HIDE DEF S
<1>6. Nat \subseteq S BY <1>4, <1>5, Induction
<1>7. p[n] \in Int /\ q[n] = p[n] + d BY <1>6 DEF S
<1>8. s[i] \in Int /\ t[i] - s[i] = d
  <2>1. s[i] \in Int OBVIOUS
  <2> QED BY <1>3, <2>1
<1> QED BY <1>1, <1>2, <1>7, <1>8

\* Nothing but zeros.
LEMMA SumZero ==
    ASSUME NEW n \in Nat, NEW s, DOMAIN s = 1 .. n, \A k \in 1 .. n : s[k] = 0
    PROVE  SumOf(s) = 0
<1> DEFINE p == [k \in 0 .. n |-> 0]
<1>1. p[0] = 0 /\ p[n] = 0 /\ \A k \in 0 .. n - 1 : p[k + 1] = p[k] + s[k + 1]
  <2>1. 0 \in 0 .. n /\ n \in 0 .. n OBVIOUS
  <2>2. ASSUME NEW k \in 0 .. n - 1 PROVE p[k + 1] = p[k] + s[k + 1]
    <3>1. k \in 0 .. n /\ k + 1 \in 0 .. n /\ k + 1 \in 1 .. n OBVIOUS
    <3>2. p[k] = 0 /\ p[k + 1] = 0 /\ s[k + 1] = 0 BY <3>1
    <3> HIDE DEF p
    <3> QED BY <3>2
  <2> QED BY <2>1, <2>2
<1> HIDE DEF p
<1> QED BY <1>1, SumIs

\* The sum of differences is the difference of the sums.
LEMMA SumMinus ==
    ASSUME NEW n \in Nat, NEW s, NEW t, NEW v,
           DOMAIN s = 1 .. n, DOMAIN t = 1 .. n, DOMAIN v = 1 .. n,
           \A k \in 1 .. n : s[k] \in Int /\ t[k] \in Int /\ v[k] = s[k] - t[k]
    PROVE  SumOf(v) = SumOf(s) - SumOf(t)
<1>1. PICK p : /\ p[0] = 0
               /\ \A k \in 0 .. n - 1 : p[k + 1] = p[k] + s[k + 1]
               /\ p[n] = SumOf(s)
  BY SumByPrefixes
<1>2. PICK q : /\ q[0] = 0
               /\ \A k \in 0 .. n - 1 : q[k + 1] = q[k] + t[k + 1]
               /\ q[n] = SumOf(t)
  BY SumByPrefixes
<1>3. PICK r : /\ r[0] = 0
               /\ \A k \in 0 .. n - 1 : r[k + 1] = r[k] + v[k + 1]
               /\ r[n] = SumOf(v)
  BY SumByPrefixes
<1> DEFINE S == {k \in Nat : k <= n => (p[k] \in Int /\ q[k] \in Int /\ r[k] = p[k] - q[k])}
<1>4. 0 \in S BY <1>1, <1>2, <1>3
<1>5. ASSUME NEW k \in Nat, k \in S PROVE k + 1 \in S
  <2>1. CASE k + 1 <= n
    <3>1. k \in 0 .. n - 1 /\ k + 1 \in 1 .. n BY <2>1
    <3>2. /\ p[k] \in Int /\ q[k] \in Int /\ r[k] = p[k] - q[k]
          /\ s[k + 1] \in Int /\ t[k + 1] \in Int /\ v[k + 1] = s[k + 1] - t[k + 1]
      BY <1>5, <3>1
    <3>3. /\ p[k + 1] = p[k] + s[k + 1] /\ q[k + 1] = q[k] + t[k + 1]
          /\ r[k + 1] = r[k] + v[k + 1]
      BY <1>1, <1>2, <1>3, <3>1
    <3>4. /\ p[k + 1] \in Int /\ q[k + 1] \in Int
          /\ r[k + 1] = p[k + 1] - q[k + 1]
      <4> HIDE DEF S
      <4>1. PICK a \in Int, b \in Int, c \in Int, d \in Int :
               /\ a = p[k] /\ b = q[k] /\ c = s[k + 1] /\ d = t[k + 1]
        BY <3>2, Zenon
      <4>2. p[k + 1] = a + c /\ q[k + 1] = b + d /\ r[k + 1] = (a - b) + (c - d)
        BY <3>2, <3>3, <4>1, Zenon
      <4>3. a + c \in Int /\ b + d \in Int /\ (a - b) + (c - d) = (a + c) - (b + d)
        OBVIOUS
      <4> QED BY <4>2, <4>3, Zenon
    <3>5. k + 1 \in Nat OBVIOUS
    <3> QED BY <3>4, <3>5, Zenon
  <2>2. CASE ~(k + 1 <= n) BY <2>2
  <2> QED BY <2>1, <2>2
<1> HIDE DEF S
<1>6. Nat \subseteq S BY <1>4, <1>5, Induction
<1>7. r[n] = p[n] - q[n] BY <1>6 DEF S
<1> QED BY <1>1, <1>2, <1>3, <1>7

\* A sum of n equal terms.
LEMMA SumConstant ==
    ASSUME NEW n \in Nat, NEW c \in Int,
           NEW s, DOMAIN s = 1 .. n, \A k \in 1 .. n : s[k] = c
    PROVE  SumOf(s) = n * c
<1> DEFINE p == [k \in 0 .. n |-> k * c]
<1>1. p[0] = 0 /\ p[n] = n * c
  <2>1. 0 \in 0 .. n /\ n \in 0 .. n /\ 0 * c = 0 OBVIOUS
  <2> QED BY <2>1
<1>2. ASSUME NEW k \in 0 .. n - 1 PROVE p[k + 1] = p[k] + s[k + 1]
  <2>1. k \in 0 .. n /\ k + 1 \in 0 .. n /\ k + 1 \in 1 .. n OBVIOUS
  <2>2. p[k] = k * c /\ p[k + 1] = (k + 1) * c /\ s[k + 1] = c BY <2>1
  <2>3. (k + 1) * c = k * c + c BY <2>1, Z3
  <2> HIDE DEF p
  <2> QED BY <2>2, <2>3
<1> HIDE DEF p
<1> QED BY <1>1, <1>2, SumIs
-----------------------------------------------------------------------------
Chosen(s) == CHOOSE x \in s : TRUE

\* h is the fold of + over the values of f in a set.
Adds(h, f, S) ==
    h = [s \in SUBSET S |-> IF s = {} THEN 0 ELSE f[Chosen(s)] + h[s \ {Chosen(s)}]]

LEMMA ChosenIn == \A s : s # {} => Chosen(s) \in s
BY DEF Chosen

LEMMA AddsExist ==
    ASSUME NEW S, IsFiniteSet(S), NEW f
    PROVE  \E h : Adds(h, f, S)
<1> DEFINE next(h, s) == IF s = {} THEN 0 ELSE f[Chosen(s)] + h[s \ {Chosen(s)}]
           K == {n \in Nat : \E h : \A s \in SUBSET S : Cardinality(s) <= n => h[s] = next(h, s)}
<1>0. \A s \in SUBSET S : /\ Cardinality(s) \in Nat
                          /\ s # {} => /\ s \ {Chosen(s)} \in SUBSET S
                                       /\ Cardinality(s \ {Chosen(s)}) = Cardinality(s) - 1
  <2> SUFFICES ASSUME NEW s \in SUBSET S
               PROVE  /\ Cardinality(s) \in Nat
                      /\ s # {} => /\ s \ {Chosen(s)} \in SUBSET S
                                   /\ Cardinality(s \ {Chosen(s)}) = Cardinality(s) - 1
    OBVIOUS
  <2>1. IsFiniteSet(s) BY FS_Subset
  <2> QED BY <2>1, ChosenIn, FS_CardinalityType, FS_RemoveElement
<1>1. 0 \in K
  <2>1. \A s \in SUBSET S : Cardinality(s) = 0 => s = {} BY FS_Subset, FS_EmptySet
  <2> DEFINE h == [s \in SUBSET S |-> 0]
  <2>2. \A s \in SUBSET S : Cardinality(s) <= 0 => h[s] = next(h, s)
    <3> SUFFICES ASSUME NEW s \in SUBSET S, Cardinality(s) <= 0 PROVE h[s] = next(h, s)
      OBVIOUS
    <3>1. Cardinality(s) \in Nat BY <1>0
    <3>2. s = {} BY <2>1, <3>1
    <3>3. h[s] = 0 OBVIOUS
    <3> QED BY <3>2, <3>3
  <2> HIDE DEF h, next
  <2> QED BY <2>2
<1>2. ASSUME NEW n \in Nat, n \in K PROVE n + 1 \in K
  <2>1. PICK h : \A s \in SUBSET S : Cardinality(s) <= n => h[s] = next(h, s) BY <1>2
  <2> DEFINE g == [s \in SUBSET S |-> next(h, s)]
  <2>2. ASSUME NEW s \in SUBSET S, Cardinality(s) <= n + 1 PROVE g[s] = next(g, s)
    <3>1. CASE s = {} BY <3>1
    <3>2. CASE s # {}
      <4> DEFINE t == s \ {Chosen(s)}
      <4>1. t \in SUBSET S /\ Cardinality(t) <= n BY <1>0, <2>2, <3>2
      <4>2. h[t] = next(h, t) BY <2>1, <4>1
      <4>3. g[t] = next(h, t) BY <4>1
      <4>4. g[s] = f[Chosen(s)] + h[t] BY <3>2
      <4> HIDE DEF g
      <4> QED BY <3>2, <4>2, <4>3, <4>4
    <3> QED BY <3>1, <3>2
  <2> HIDE DEF g, next
  <2> QED BY <2>2
<1>3. Nat \subseteq K
  <2> HIDE DEF K
  <2> QED BY <1>1, <1>2, Induction
<1>4. PICK n \in Nat : Cardinality(S) = n BY FS_CardinalityType
<1>5. PICK h : \A s \in SUBSET S : Cardinality(s) <= n => h[s] = next(h, s)
  <2>1. n \in K
    <3> HIDE DEF K
    <3> QED BY <1>3
  <2> QED BY <2>1
<1>6. \A s \in SUBSET S : Cardinality(s) <= n BY <1>4, FS_Subset, FS_CardinalityType
<1> DEFINE g == [s \in SUBSET S |-> h[s]]
<1>7. \A s \in SUBSET S : g[s] = next(g, s)
  <2> SUFFICES ASSUME NEW s \in SUBSET S PROVE g[s] = next(g, s) OBVIOUS
  <2>1. h[s] = next(h, s) BY <1>5, <1>6
  <2>2. s \ {Chosen(s)} \in SUBSET S OBVIOUS
  <2> QED BY <2>1, <2>2
<1>8. g = [s \in SUBSET S |-> g[s]] OBVIOUS
<1> HIDE DEF g
<1>9. Adds(g, f, S) BY <1>7, <1>8 DEF Adds
<1> QED BY <1>9

\* The sum over a set, and over all its subsets, is given by one such h.
LEMMA SetSums ==
    ASSUME NEW S, IsFiniteSet(S), NEW f
    PROVE  SumFunctionOnSet(f, S) = IF S = {} THEN 0
                                    ELSE f[Chosen(S)] + SumFunctionOnSet(f, S \ {Chosen(S)})
<1> DEFINE iter(T) == CHOOSE h : Adds(h, f, T)
<1>1. \A T : SumFunctionOnSet(f, T) = iter(T)[T]
  BY DEF SumFunctionOnSet, FoldFunctionOnSet, MapThenFoldSet, Adds, Chosen
<1>2. ASSUME NEW T \in SUBSET S PROVE Adds(iter(T), f, T)
  <2>1. \E h : Adds(h, f, T) BY AddsExist, FS_Subset
  <2> QED BY <2>1
<1> HIDE DEF iter
<1>3. ASSUME NEW T \in SUBSET S, NEW g, NEW h, Adds(g, f, S), Adds(h, f, T)
      PROVE  g[T] = h[T]
  <2> DEFINE P == {s \in SUBSET T : g[s] = h[s]}
             K == {n \in Nat : \A s \in SUBSET T : Cardinality(s) = n => g[s] = h[s]}
  <2>0. \A s \in SUBSET T : IsFiniteSet(s) BY FS_Subset
  <2>1. \A s \in SUBSET T :
          /\ g[s] = IF s = {} THEN 0 ELSE f[Chosen(s)] + g[s \ {Chosen(s)}]
          /\ h[s] = IF s = {} THEN 0 ELSE f[Chosen(s)] + h[s \ {Chosen(s)}]
    <3>1. \A s \in SUBSET S : g[s] = IF s = {} THEN 0 ELSE f[Chosen(s)] + g[s \ {Chosen(s)}]
      BY <1>3 DEF Adds
    <3>2. \A s \in SUBSET T : h[s] = IF s = {} THEN 0 ELSE f[Chosen(s)] + h[s \ {Chosen(s)}]
      BY <1>3 DEF Adds
    <3> QED BY <3>1, <3>2
  <2>2. 0 \in K
    <3>1. \A s \in SUBSET T : Cardinality(s) = 0 => s = {} BY <2>0, FS_EmptySet
    <3> QED BY <2>1, <3>1
  <2>3. ASSUME NEW n \in Nat, n \in K PROVE n + 1 \in K
    <3> SUFFICES ASSUME NEW s \in SUBSET T, Cardinality(s) = n + 1 PROVE g[s] = h[s] OBVIOUS
    <3>1. s # {} BY FS_EmptySet
    <3>2. Cardinality(s \ {Chosen(s)}) = n
      <4>1. IsFiniteSet(s) /\ Chosen(s) \in s BY <2>0, <3>1, ChosenIn
      <4>2. Cardinality(s \ {Chosen(s)}) = Cardinality(s) - 1 BY <4>1, FS_RemoveElement
      <4> QED BY <4>2
    <3>3. g[s \ {Chosen(s)}] = h[s \ {Chosen(s)}] BY <2>3, <3>2
    <3> QED BY <2>1, <3>1, <3>3
  <2>4. Nat \subseteq K
    <3> HIDE DEF K
    <3> QED BY <2>2, <2>3, Induction
  <2>5. PICK n \in Nat : Cardinality(T) = n BY <2>0, FS_CardinalityType
  <2>6. n \in K
    <3> HIDE DEF K
    <3> QED BY <2>4
  <2> QED BY <2>5, <2>6
<1>4. Adds(iter(S), f, S) BY <1>2
<1>5. CASE S = {}
  <2>1. iter(S)[S] = 0 BY <1>4, <1>5 DEF Adds
  <2> QED BY <1>1, <1>5, <2>1
<1>6. CASE S # {}
  <2> DEFINE T == S \ {Chosen(S)}
  <2>1. iter(S)[S] = f[Chosen(S)] + iter(S)[T] BY <1>4, <1>6 DEF Adds
  <2>2. iter(S)[T] = iter(T)[T] BY <1>2, <1>3, <1>4
  <2> QED BY <1>1, <1>6, <2>1, <2>2
<1> QED BY <1>5, <1>6

LEMMA SetSumEmpty == ASSUME NEW f PROVE SumFunctionOnSet(f, {}) = 0
<1>1. IsFiniteSet({}) BY FS_EmptySet
<1> QED BY <1>1, SetSums

\* The sum of integers is an integer.
LEMMA SetSumType ==
    ASSUME NEW S, IsFiniteSet(S), NEW f, \A x \in S : f[x] \in Int
    PROVE  SumFunctionOnSet(f, S) \in Int
<1> DEFINE K == {n \in Nat : \A s \in SUBSET S :
                               Cardinality(s) = n => SumFunctionOnSet(f, s) \in Int}
<1>0. \A s \in SUBSET S : IsFiniteSet(s) BY FS_Subset
<1>1. 0 \in K
  <2>1. \A s \in SUBSET S : Cardinality(s) = 0 => s = {} BY <1>0, FS_EmptySet
  <2> QED BY <2>1, SetSumEmpty
<1>2. ASSUME NEW n \in Nat, n \in K PROVE n + 1 \in K
  <2> SUFFICES ASSUME NEW s \in SUBSET S, Cardinality(s) = n + 1
               PROVE  SumFunctionOnSet(f, s) \in Int
    OBVIOUS
  <2>1. IsFiniteSet(s) /\ s # {} BY <1>0, FS_EmptySet
  <2>2. Chosen(s) \in s BY <2>1, ChosenIn
  <2>3. Cardinality(s \ {Chosen(s)}) = n
    <3>1. Cardinality(s \ {Chosen(s)}) = Cardinality(s) - 1 BY <2>1, <2>2, FS_RemoveElement
    <3> QED BY <3>1
  <2>4. SumFunctionOnSet(f, s \ {Chosen(s)}) \in Int BY <1>2, <2>3
  <2>5. SumFunctionOnSet(f, s) = f[Chosen(s)] + SumFunctionOnSet(f, s \ {Chosen(s)})
    BY <2>1, SetSums
  <2>6. f[Chosen(s)] \in Int BY <2>2
  <2> QED BY <2>4, <2>5, <2>6
<1>3. Nat \subseteq K
  <2> HIDE DEF K
  <2> QED BY <1>1, <1>2, Induction
<1>4. PICK n \in Nat : Cardinality(S) = n BY FS_CardinalityType
<1>5. n \in K
  <2> HIDE DEF K
  <2> QED BY <1>3
<1> QED BY <1>4, <1>5

\* Any element may be taken out first.
LEMMA SetSumRemove ==
    ASSUME NEW S, IsFiniteSet(S), NEW f, \A x \in S : f[x] \in Int, NEW y \in S
    PROVE  SumFunctionOnSet(f, S) = f[y] + SumFunctionOnSet(f, S \ {y})
<1> DEFINE K == {n \in Nat : \A s \in SUBSET S : Cardinality(s) = n =>
                   \A x \in s : SumFunctionOnSet(f, s) = f[x] + SumFunctionOnSet(f, s \ {x})}
<1>0. \A s \in SUBSET S : IsFiniteSet(s) BY FS_Subset
<1>1. 0 \in K
  <2>1. \A s \in SUBSET S : Cardinality(s) = 0 => s = {} BY <1>0, FS_EmptySet
  <2> QED BY <2>1
<1>2. ASSUME NEW n \in Nat, n \in K PROVE n + 1 \in K
  <2> SUFFICES ASSUME NEW s \in SUBSET S, Cardinality(s) = n + 1, NEW x \in s
               PROVE  SumFunctionOnSet(f, s) = f[x] + SumFunctionOnSet(f, s \ {x})
    OBVIOUS
  <2>0. \A a \in s : Cardinality(s \ {a}) = n
    <3> SUFFICES ASSUME NEW a \in s PROVE Cardinality(s \ {a}) = n OBVIOUS
    <3>1. Cardinality(s \ {a}) = Cardinality(s) - 1 BY <1>0, FS_RemoveElement
    <3> QED BY <3>1
  <2>1. PICK c : c = Chosen(s) OBVIOUS
  <2>2. c \in s BY <2>1, ChosenIn
  <2>3. SumFunctionOnSet(f, s) = f[c] + SumFunctionOnSet(f, s \ {c})
    <3>1. IsFiniteSet(s) /\ s # {} BY <1>0
    <3> QED BY <2>1, <3>1, SetSums
  <2>4. CASE x = c BY <2>3, <2>4
  <2>5. CASE x # c
    <3> DEFINE rest == (s \ {c}) \ {x}
    <3>1. SumFunctionOnSet(f, s \ {c}) = f[x] + SumFunctionOnSet(f, rest)
      <4>1. s \ {c} \in SUBSET S /\ Cardinality(s \ {c}) = n /\ x \in s \ {c}
        BY <2>0, <2>2, <2>5
      <4> QED BY <1>2, <4>1
    <3>2. SumFunctionOnSet(f, s \ {x}) = f[c] + SumFunctionOnSet(f, rest)
      <4>1. s \ {x} \in SUBSET S /\ Cardinality(s \ {x}) = n /\ c \in s \ {x}
        BY <2>0, <2>2, <2>5
      <4>2. (s \ {x}) \ {c} = rest OBVIOUS
      <4>3. SumFunctionOnSet(f, s \ {x}) = f[c] + SumFunctionOnSet(f, (s \ {x}) \ {c})
        BY <1>2, <4>1
      <4> QED BY <4>2, <4>3
    <3>3. SumFunctionOnSet(f, rest) \in Int
      <4>1. rest \in SUBSET S OBVIOUS
      <4>2. IsFiniteSet(rest) BY <1>0, <4>1
      <4>3. \A a \in rest : f[a] \in Int BY <4>1
      <4> HIDE DEF rest
      <4> QED BY <4>2, <4>3, SetSumType
    <3>4. f[c] \in Int /\ f[x] \in Int BY <2>2
    <3> HIDE DEF rest
    <3> QED BY <2>3, <3>1, <3>2, <3>3, <3>4
  <2> QED BY <2>4, <2>5
<1>3. Nat \subseteq K
  <2> HIDE DEF K
  <2> QED BY <1>1, <1>2, Induction
<1>4. PICK n \in Nat : Cardinality(S) = n BY FS_CardinalityType
<1>5. n \in K
  <2> HIDE DEF K
  <2> QED BY <1>3
<1> QED BY <1>4, <1>5

LEMMA SetSumAdd ==
    ASSUME NEW S, IsFiniteSet(S), NEW y, y \notin S,
           NEW f, \A x \in S : f[x] \in Int, f[y] \in Int
    PROVE  SumFunctionOnSet(f, S \cup {y}) = f[y] + SumFunctionOnSet(f, S)
<1>1. IsFiniteSet(S \cup {y}) BY FS_AddElement
<1>2. \A x \in S \cup {y} : f[x] \in Int OBVIOUS
<1>3. (S \cup {y}) \ {y} = S OBVIOUS
<1>4. y \in S \cup {y} OBVIOUS
<1>5. SumFunctionOnSet(f, S \cup {y}) = f[y] + SumFunctionOnSet(f, (S \cup {y}) \ {y})
  BY <1>1, <1>2, <1>4, SetSumRemove
<1> QED BY <1>3, <1>5

\* Sums of three functions are related as their values are.
LEMMA SetSumPlus ==
    ASSUME NEW S, IsFiniteSet(S), NEW f, NEW g, NEW h,
           \A x \in S : f[x] \in Int /\ g[x] \in Int /\ h[x] = f[x] + g[x]
    PROVE  SumFunctionOnSet(h, S) = SumFunctionOnSet(f, S) + SumFunctionOnSet(g, S)
<1> DEFINE P == {s \in SUBSET S : SumFunctionOnSet(h, s) =
                                     SumFunctionOnSet(f, s) + SumFunctionOnSet(g, s)}
<1>1. {} \in P BY SetSumEmpty
<1>2. ASSUME NEW s \in SUBSET S, NEW y \in S \ s, s \in P PROVE s \cup {y} \in P
  <2>1. IsFiniteSet(s) BY FS_Subset
  <2>2. /\ \A x \in s : f[x] \in Int /\ g[x] \in Int /\ h[x] \in Int
        /\ f[y] \in Int /\ g[y] \in Int /\ h[y] \in Int /\ h[y] = f[y] + g[y]
    OBVIOUS
  <2>3. SumFunctionOnSet(f, s) \in Int /\ SumFunctionOnSet(g, s) \in Int
    BY <2>1, <2>2, SetSumType
  <2>4. SumFunctionOnSet(f, s \cup {y}) = f[y] + SumFunctionOnSet(f, s)
    BY <2>1, <2>2, SetSumAdd
  <2>5. SumFunctionOnSet(g, s \cup {y}) = g[y] + SumFunctionOnSet(g, s)
    BY <2>1, <2>2, SetSumAdd
  <2>6. SumFunctionOnSet(h, s \cup {y}) = h[y] + SumFunctionOnSet(h, s)
    BY <2>1, <2>2, SetSumAdd
  <2>7. SumFunctionOnSet(h, s) = SumFunctionOnSet(f, s) + SumFunctionOnSet(g, s) BY <1>2
  <2>8. SumFunctionOnSet(h, s \cup {y}) =
          SumFunctionOnSet(f, s \cup {y}) + SumFunctionOnSet(g, s \cup {y})
    BY <2>2, <2>3, <2>4, <2>5, <2>6, <2>7
  <2> QED BY <2>8
<1> HIDE DEF P
<1>3. S \in P BY <1>1, <1>2, SetInduction
<1> QED BY <1>3 DEF P

\* Larger values have a larger sum.
LEMMA SetSumMonotone ==
    ASSUME NEW S, IsFiniteSet(S), NEW f, NEW g,
           \A x \in S : f[x] \in Int /\ g[x] \in Int /\ f[x] <= g[x]
    PROVE  SumFunctionOnSet(f, S) <= SumFunctionOnSet(g, S)
<1> DEFINE P == {s \in SUBSET S : SumFunctionOnSet(f, s) <= SumFunctionOnSet(g, s)}
<1>1. {} \in P BY SetSumEmpty
<1>2. ASSUME NEW s \in SUBSET S, NEW y \in S \ s, s \in P PROVE s \cup {y} \in P
  <2>1. IsFiniteSet(s) BY FS_Subset
  <2>2. /\ \A x \in s : f[x] \in Int /\ g[x] \in Int
        /\ f[y] \in Int /\ g[y] \in Int /\ f[y] <= g[y]
    OBVIOUS
  <2>3. SumFunctionOnSet(f, s) \in Int /\ SumFunctionOnSet(g, s) \in Int
    BY <2>1, <2>2, SetSumType
  <2>4. SumFunctionOnSet(f, s \cup {y}) = f[y] + SumFunctionOnSet(f, s)
    BY <2>1, <2>2, SetSumAdd
  <2>5. SumFunctionOnSet(g, s \cup {y}) = g[y] + SumFunctionOnSet(g, s)
    BY <2>1, <2>2, SetSumAdd
  <2>6. SumFunctionOnSet(f, s) <= SumFunctionOnSet(g, s) BY <1>2
  <2>7. SumFunctionOnSet(f, s \cup {y}) <= SumFunctionOnSet(g, s \cup {y})
    BY <2>2, <2>3, <2>4, <2>5, <2>6
  <2> QED BY <2>7
<1> HIDE DEF P
<1>3. S \in P BY <1>1, <1>2, SetInduction
<1> QED BY <1>3 DEF P

LEMMA SetSumSame ==
    ASSUME NEW S, IsFiniteSet(S), NEW f, NEW g, \A x \in S : f[x] \in Int /\ f[x] = g[x]
    PROVE  SumFunctionOnSet(f, S) = SumFunctionOnSet(g, S)
<1>1. \A x \in S : f[x] \in Int /\ g[x] \in Int /\ f[x] <= g[x] /\ g[x] <= f[x] OBVIOUS
<1>2. SumFunctionOnSet(f, S) \in Int /\ SumFunctionOnSet(g, S) \in Int
  BY <1>1, SetSumType
<1>3. SumFunctionOnSet(f, S) <= SumFunctionOnSet(g, S) BY <1>1, SetSumMonotone
<1>4. SumFunctionOnSet(g, S) <= SumFunctionOnSet(f, S) BY <1>1, SetSumMonotone
<1> QED BY <1>2, <1>3, <1>4

LEMMA SetSumMinus ==
    ASSUME NEW S, IsFiniteSet(S), NEW f, NEW g, NEW h,
           \A x \in S : f[x] \in Int /\ g[x] \in Int /\ h[x] = f[x] - g[x]
    PROVE  SumFunctionOnSet(h, S) = SumFunctionOnSet(f, S) - SumFunctionOnSet(g, S)
<1>1. \A x \in S : g[x] \in Int /\ h[x] \in Int /\ f[x] = g[x] + h[x] OBVIOUS
<1>2. SumFunctionOnSet(f, S) = SumFunctionOnSet(g, S) + SumFunctionOnSet(h, S)
  BY <1>1, SetSumPlus
<1>3. SumFunctionOnSet(g, S) \in Int /\ SumFunctionOnSet(h, S) \in Int
  BY <1>1, SetSumType
<1> QED BY <1>2, <1>3

\* The sum of a constant 1 or 0.
LEMMA SetSumOnes ==
    ASSUME NEW S, IsFiniteSet(S), NEW f, \A x \in S : f[x] = 1
    PROVE  SumFunctionOnSet(f, S) = Cardinality(S)
<1> DEFINE P == {s \in SUBSET S : SumFunctionOnSet(f, s) = Cardinality(s)}
<1>1. {} \in P BY SetSumEmpty, FS_EmptySet
<1>2. ASSUME NEW s \in SUBSET S, NEW y \in S \ s, s \in P PROVE s \cup {y} \in P
  <2>1. IsFiniteSet(s) BY FS_Subset
  <2>2. (\A x \in s : f[x] \in Int) /\ f[y] \in Int /\ f[y] = 1 OBVIOUS
  <2>3. SumFunctionOnSet(f, s \cup {y}) = f[y] + SumFunctionOnSet(f, s)
    BY <2>1, <2>2, SetSumAdd
  <2>4. Cardinality(s \cup {y}) = Cardinality(s) + 1 BY <2>1, FS_AddElement
  <2>5. SumFunctionOnSet(f, s) = Cardinality(s) /\ Cardinality(s) \in Nat
    BY <1>2, <2>1, FS_CardinalityType
  <2>6. SumFunctionOnSet(f, s \cup {y}) = Cardinality(s \cup {y}) BY <2>2, <2>3, <2>4, <2>5
  <2> QED BY <2>6
<1> HIDE DEF P
<1>3. S \in P BY <1>1, <1>2, SetInduction
<1> QED BY <1>3 DEF P

\* The elements outside a subset do not count when their values are 0.
LEMMA SetSumWithin ==
    ASSUME NEW S, IsFiniteSet(S), NEW T \in SUBSET S, NEW f,
           \A x \in T : f[x] \in Int, \A x \in S \ T : f[x] = 0
    PROVE  SumFunctionOnSet(f, S) = SumFunctionOnSet(f, T)
<1> DEFINE P == {s \in SUBSET S : SumFunctionOnSet(f, s) = SumFunctionOnSet(f, s \cap T)}
<1>1. {} \in P
  <2>1. {} \cap T = {} OBVIOUS
  <2> QED BY <2>1
<1>2. ASSUME NEW s \in SUBSET S, NEW y \in S \ s, s \in P PROVE s \cup {y} \in P
  <2>1. IsFiniteSet(s) /\ IsFiniteSet(s \cap T) BY FS_Subset
  <2>2. (\A x \in s : f[x] \in Int) /\ f[y] \in Int OBVIOUS
  <2>3. SumFunctionOnSet(f, s \cup {y}) = f[y] + SumFunctionOnSet(f, s)
    BY <2>1, <2>2, SetSumAdd
  <2>4. SumFunctionOnSet(f, s) = SumFunctionOnSet(f, s \cap T) BY <1>2
  <2>5. SumFunctionOnSet(f, s) \in Int BY <2>1, <2>2, SetSumType
  <2>6. CASE y \in T
    <3> DEFINE t == s \cap T
    <3>1. (s \cup {y}) \cap T = t \cup {y} BY <2>6
    <3>2. y \notin t /\ \A x \in t : f[x] \in Int OBVIOUS
    <3>3. IsFiniteSet(t) BY <2>1
    <3> HIDE DEF t
    <3>4. SumFunctionOnSet(f, t \cup {y}) = f[y] + SumFunctionOnSet(f, t)
      BY <2>2, <3>2, <3>3, SetSumAdd
    <3>5. SumFunctionOnSet(f, s \cup {y}) = SumFunctionOnSet(f, t \cup {y})
      BY <2>3, <2>4, <3>4 DEF t
    <3> QED BY <3>1, <3>5
  <2>7. CASE y \notin T
    <3>1. (s \cup {y}) \cap T = s \cap T BY <2>7
    <3>2. f[y] = 0 BY <2>7
    <3>3. SumFunctionOnSet(f, s \cup {y}) = SumFunctionOnSet(f, s) BY <2>3, <2>5, <3>2
    <3> QED BY <2>4, <3>1, <3>3
  <2> QED BY <2>6, <2>7
<1> HIDE DEF P
<1>3. S \in P BY <1>1, <1>2, SetInduction
<1>4. S \cap T = T OBVIOUS
<1> QED BY <1>3, <1>4 DEF P

LEMMA SetSumZero ==
    ASSUME NEW S, IsFiniteSet(S), NEW f, \A x \in S : f[x] = 0
    PROVE  SumFunctionOnSet(f, S) = 0
<1>1. {} \in SUBSET S /\ (\A x \in {} : f[x] \in Int) /\ \A x \in S \ {} : f[x] = 0
  OBVIOUS
<1>2. SumFunctionOnSet(f, S) = SumFunctionOnSet(f, {}) BY <1>1, SetSumWithin
<1> QED BY <1>2, SetSumEmpty

LEMMA SetSumOne == ASSUME NEW f, NEW y, f[y] \in Int PROVE SumFunctionOnSet(f, {y}) = f[y]
<1>1. IsFiniteSet({}) /\ y \notin {} /\ \A x \in {} : f[x] \in Int BY FS_EmptySet
<1>2. SumFunctionOnSet(f, {} \cup {y}) = f[y] + SumFunctionOnSet(f, {})
  BY <1>1, SetSumAdd
<1>3. {} \cup {y} = {y} OBVIOUS
<1> QED BY <1>2, <1>3, SetSumEmpty

LEMMA SetSumNat ==
    ASSUME NEW S, IsFiniteSet(S), NEW f, \A x \in S : f[x] \in Nat
    PROVE  SumFunctionOnSet(f, S) \in Nat
<1>1. PICK z : z = [x \in S |-> 0] OBVIOUS
<1>2. \A x \in S : z[x] = 0 BY <1>1
<1>3. SumFunctionOnSet(z, S) = 0 BY <1>2, SetSumZero
<1>4. \A x \in S : z[x] \in Int /\ f[x] \in Int /\ z[x] <= f[x] BY <1>2
<1>5. SumFunctionOnSet(z, S) <= SumFunctionOnSet(f, S) BY <1>4, SetSumMonotone
<1>6. SumFunctionOnSet(f, S) \in Int BY <1>4, SetSumType
<1> QED BY <1>3, <1>5, <1>6

\* The sum of what a filter lets through counts the rest as 0.
LEMMA SetSumFilter ==
    ASSUME NEW S, IsFiniteSet(S), NEW T \in SUBSET S, NEW f, \A x \in T : f[x] \in Int,
           NEW g, \A x \in S : g[x] = IF x \in T THEN f[x] ELSE 0
    PROVE  SumFunctionOnSet(f, T) = SumFunctionOnSet(g, S)
<1>1. IsFiniteSet(T) BY FS_Subset
<1>2. \A x \in T : f[x] \in Int /\ f[x] = g[x] OBVIOUS
<1>3. SumFunctionOnSet(f, T) = SumFunctionOnSet(g, T) BY <1>1, <1>2, SetSumSame
<1>4. (\A x \in T : g[x] \in Int) /\ \A x \in S \ T : g[x] = 0 OBVIOUS
<1>5. SumFunctionOnSet(g, S) = SumFunctionOnSet(g, T) BY <1>4, SetSumWithin
<1> QED BY <1>3, <1>5

\* Two sets without a common element, a part of a set, and one number that grows by one.
LEMMA SetSumUnion ==
    ASSUME NEW S, IsFiniteSet(S), NEW T, IsFiniteSet(T), S \cap T = {},
           NEW f, \A x \in S \cup T : f[x] \in Int
    PROVE  SumFunctionOnSet(f, S \cup T) = SumFunctionOnSet(f, S) + SumFunctionOnSet(f, T)
<1>1. PICK U, g, h : /\ U = S \cup T
                     /\ g = [x \in U |-> IF x \in S THEN f[x] ELSE 0]
                     /\ h = [x \in U |-> IF x \in T THEN f[x] ELSE 0]
  OBVIOUS
<1>2. IsFiniteSet(U) BY <1>1, FS_Union
<1>3. /\ S \in SUBSET U /\ T \in SUBSET U
      /\ (\A x \in S : f[x] \in Int) /\ (\A x \in T : f[x] \in Int)
      /\ (\A x \in U : g[x] = IF x \in S THEN f[x] ELSE 0)
      /\ (\A x \in U : h[x] = IF x \in T THEN f[x] ELSE 0)
  BY <1>1
<1>4. \A x \in U : g[x] \in Int /\ h[x] \in Int /\ f[x] = g[x] + h[x] BY <1>1
<1>5. SumFunctionOnSet(f, S) = SumFunctionOnSet(g, U) BY <1>2, <1>3, SetSumFilter
<1>6. SumFunctionOnSet(f, T) = SumFunctionOnSet(h, U) BY <1>2, <1>3, SetSumFilter
<1>7. SumFunctionOnSet(f, U) = SumFunctionOnSet(g, U) + SumFunctionOnSet(h, U)
  BY <1>2, <1>4, SetSumPlus
<1> QED BY <1>1, <1>5, <1>6, <1>7

LEMMA SetSumPart ==
    ASSUME NEW S, IsFiniteSet(S), NEW T \in SUBSET S, NEW f, \A x \in S : f[x] \in Nat
    PROVE  SumFunctionOnSet(f, T) <= SumFunctionOnSet(f, S)
<1>1. PICK g : g = [x \in S |-> IF x \in T THEN f[x] ELSE 0] OBVIOUS
<1>2. \A x \in S : g[x] = IF x \in T THEN f[x] ELSE 0 BY <1>1
<1>3. \A x \in T : f[x] \in Int OBVIOUS
<1>4. SumFunctionOnSet(f, T) = SumFunctionOnSet(g, S) BY <1>2, <1>3, SetSumFilter
<1>5. \A x \in S : g[x] \in Int /\ f[x] \in Int /\ g[x] <= f[x] BY <1>2
<1>6. SumFunctionOnSet(g, S) <= SumFunctionOnSet(f, S) BY <1>5, SetSumMonotone
<1> QED BY <1>4, <1>6

LEMMA SetSumBump ==
    ASSUME NEW S, IsFiniteSet(S), NEW y, NEW f, NEW g,
           \A x \in S : f[x] \in Int /\ g[x] = IF x = y THEN f[x] + 1 ELSE f[x]
    PROVE  SumFunctionOnSet(g, S) = SumFunctionOnSet(f, S) + (IF y \in S THEN 1 ELSE 0)
<1>1. PICK one : one = [x \in S |-> IF x = y THEN 1 ELSE 0] OBVIOUS
<1>2. \A x \in S : one[x] = IF x = y THEN 1 ELSE 0 BY <1>1
<1>3. \A x \in S : f[x] \in Int /\ one[x] \in Int /\ g[x] = f[x] + one[x] BY <1>2
<1>4. SumFunctionOnSet(g, S) = SumFunctionOnSet(f, S) + SumFunctionOnSet(one, S)
  BY <1>3, SetSumPlus
<1>5. CASE y \in S
  <2>1. {y} \in SUBSET S /\ one[y] = 1 /\ one[y] \in Int BY <1>2, <1>5
  <2>2. (\A x \in {y} : one[x] \in Int) /\ \A x \in S \ {y} : one[x] = 0 BY <1>2, <2>1
  <2>3. SumFunctionOnSet(one, {y}) = one[y] BY <2>1, SetSumOne
  <2>4. SumFunctionOnSet(one, S) = SumFunctionOnSet(one, {y}) BY <2>1, <2>2, SetSumWithin
  <2> QED BY <1>4, <1>5, <2>1, <2>3, <2>4
<1>6. CASE y \notin S
  <2>1. \A x \in S : one[x] = 0 BY <1>2, <1>6
  <2>2. SumFunctionOnSet(one, S) = 0 BY <2>1, SetSumZero
  <2>3. SumFunctionOnSet(f, S) \in Int BY <1>3, SetSumType
  <2> QED BY <1>4, <1>6, <2>2, <2>3
<1> QED BY <1>5, <1>6

\* A table is summed up by rows or by columns: f has the sum of each row, g that
\* of each column.
Transposed(row, column, S, T) ==
    \A x \in S : \A y \in T : row[x][y] \in Int /\ column[y][x] = row[x][y]

LEMMA SetSumSwap ==
    ASSUME NEW S, IsFiniteSet(S), NEW T, IsFiniteSet(T),
           NEW row, NEW column, Transposed(row, column, S, T),
           NEW f, \A x \in S : f[x] = SumFunctionOnSet(row[x], T),
           NEW g, \A y \in T : g[y] = SumFunctionOnSet(column[y], S)
    PROVE  SumFunctionOnSet(f, S) = SumFunctionOnSet(g, T)
<1>0. \A x \in S : \A y \in T : row[x][y] \in Int /\ column[y][x] = row[x][y]
  BY DEF Transposed
<1> DEFINE part(s) == [y \in T |-> SumFunctionOnSet(column[y], s)]
           P == {s \in SUBSET S : SumFunctionOnSet(f, s) = SumFunctionOnSet(part(s), T)}
<1>1. {} \in P
  <2>1. \A y \in T : part({})[y] = 0 BY SetSumEmpty
  <2> HIDE DEF part
  <2>2. SumFunctionOnSet(part({}), T) = 0 BY <2>1, SetSumZero
  <2> QED BY <2>2, SetSumEmpty
<1>2. ASSUME NEW s \in SUBSET S, NEW x \in S \ s, s \in P PROVE s \cup {x} \in P
  <2>1. IsFiniteSet(s) BY FS_Subset
  <2>2. \A a \in S : f[a] \in Int
    <3> SUFFICES ASSUME NEW a \in S PROVE f[a] \in Int OBVIOUS
    <3>1. \A y \in T : row[a][y] \in Int BY <1>0
    <3>2. SumFunctionOnSet(row[a], T) \in Int BY <3>1, SetSumType
    <3> QED BY <3>2
  <2>3. SumFunctionOnSet(f, s \cup {x}) = f[x] + SumFunctionOnSet(f, s)
    <3>1. (\A a \in s : f[a] \in Int) /\ f[x] \in Int /\ x \notin s BY <2>2
    <3> QED BY <2>1, <3>1, SetSumAdd
  <2>4. \A y \in T : /\ row[x][y] \in Int /\ part(s)[y] \in Int
                     /\ part(s \cup {x})[y] = row[x][y] + part(s)[y]
    <3> SUFFICES ASSUME NEW y \in T
                 PROVE  /\ row[x][y] \in Int /\ part(s)[y] \in Int
                        /\ part(s \cup {x})[y] = row[x][y] + part(s)[y]
      OBVIOUS
    <3>1. /\ \A a \in s : column[y][a] \in Int
          /\ column[y][x] \in Int /\ column[y][x] = row[x][y] /\ x \notin s
      BY <1>0
    <3>2. SumFunctionOnSet(column[y], s) \in Int BY <2>1, <3>1, SetSumType
    <3>3. SumFunctionOnSet(column[y], s \cup {x}) =
            column[y][x] + SumFunctionOnSet(column[y], s)
      BY <2>1, <3>1, SetSumAdd
    <3>4. /\ part(s)[y] = SumFunctionOnSet(column[y], s)
          /\ part(s \cup {x})[y] = SumFunctionOnSet(column[y], s \cup {x})
      OBVIOUS
    <3> HIDE DEF part
    <3> QED BY <3>1, <3>2, <3>3, <3>4
  <2> HIDE DEF part
  <2>5. SumFunctionOnSet(part(s \cup {x}), T) =
          SumFunctionOnSet(row[x], T) + SumFunctionOnSet(part(s), T)
    <3>1. PICK h : h = part(s \cup {x}) OBVIOUS
    <3>2. \A y \in T : /\ row[x][y] \in Int /\ part(s)[y] \in Int
                       /\ h[y] = row[x][y] + part(s)[y]
      BY <2>4, <3>1
    <3>3. SumFunctionOnSet(h, T) = SumFunctionOnSet(row[x], T) + SumFunctionOnSet(part(s), T)
      BY <3>2, SetSumPlus
    <3> QED BY <3>1, <3>3
  <2>6. SumFunctionOnSet(f, s) = SumFunctionOnSet(part(s), T) BY <1>2
  <2>7. SumFunctionOnSet(f, s \cup {x}) = SumFunctionOnSet(part(s \cup {x}), T)
    BY <2>3, <2>5, <2>6
  <2> QED BY <2>7
<1>3. S \in P
  <2> HIDE DEF P
  <2> QED BY <1>1, <1>2, SetInduction
<1>4. SumFunctionOnSet(f, S) = SumFunctionOnSet(part(S), T) BY <1>3
<1>5. \A y \in T : part(S)[y] \in Int /\ part(S)[y] = g[y]
  <2> SUFFICES ASSUME NEW y \in T PROVE part(S)[y] \in Int /\ part(S)[y] = g[y] OBVIOUS
  <2>1. \A a \in S : column[y][a] \in Int BY <1>0
  <2>2. SumFunctionOnSet(column[y], S) \in Int BY <2>1, SetSumType
  <2> QED BY <2>2
<1> HIDE DEF part
<1>6. SumFunctionOnSet(part(S), T) = SumFunctionOnSet(g, T) BY <1>5, SetSumSame
<1> QED BY <1>4, <1>6
-----------------------------------------------------------------------------
\* A list that names every element of a set once: its sum is that of the set.
LEMMA SetSumInOrder ==
    ASSUME NEW n \in Nat, NEW s, DOMAIN s = 1 .. n, NEW e,
           \A j, k \in 1 .. n : e[j] = e[k] => j = k,
           NEW f, \A k \in 1 .. n : f[e[k]] \in Int /\ s[k] = f[e[k]]
    PROVE  SumOf(s) = SumFunctionOnSet(f, {e[k] : k \in 1 .. n})
<1> DEFINE first(k) == {e[j] : j \in 1 .. k}
           p == [k \in 0 .. n |-> SumFunctionOnSet(f, first(k))]
<1>0. \A k \in Nat : IsFiniteSet(first(k))
  <2> DEFINE K == {k \in Nat : IsFiniteSet(first(k))}
  <2>1. 0 \in K
    <3>1. first(0) = {} OBVIOUS
    <3> QED BY <3>1, FS_EmptySet
  <2>2. ASSUME NEW k \in Nat, k \in K PROVE k + 1 \in K
    <3>1. 1 .. k + 1 = (1 .. k) \cup {k + 1} OBVIOUS
    <3>2. first(k + 1) = first(k) \cup {e[k + 1]} BY <3>1
    <3>3. IsFiniteSet(first(k)) BY <2>2
    <3> HIDE DEF first
    <3>4. IsFiniteSet(first(k + 1)) BY <3>2, <3>3, FS_AddElement
    <3> QED BY <3>4
  <2> HIDE DEF K
  <2>3. Nat \subseteq K BY <2>1, <2>2, Induction
  <2> QED BY <2>3 DEF K
<1>1. p[0] = 0
  <2>1. first(0) = {} /\ 0 \in 0 .. n OBVIOUS
  <2>2. p[0] = SumFunctionOnSet(f, first(0)) BY <2>1
  <2> HIDE DEF first, p
  <2> QED BY <2>1, <2>2, SetSumEmpty
<1>2. ASSUME NEW k \in 0 .. n - 1 PROVE p[k + 1] = p[k] + s[k + 1]
  <2>1. k \in 0 .. n /\ k + 1 \in 0 .. n /\ k + 1 \in 1 .. n /\ k \in Nat BY <1>2
  <2>2. first(k + 1) = first(k) \cup {e[k + 1]}
    <3>1. 1 .. k + 1 = (1 .. k) \cup {k + 1} BY <2>1
    <3> QED BY <3>1
  <2>3. e[k + 1] \notin first(k)
    <3>1. \A j \in 1 .. k : j \in 1 .. n /\ j # k + 1 BY <2>1
    <3> QED BY <2>1, <3>1
  <2>4. IsFiniteSet(first(k))
    <3> HIDE DEF first
    <3> QED BY <2>1, <1>0
  <2>5. \A x \in first(k) : f[x] \in Int
    <3>1. \A j \in 1 .. k : j \in 1 .. n BY <2>1
    <3> QED BY <3>1
  <2>6. f[e[k + 1]] \in Int /\ s[k + 1] = f[e[k + 1]] BY <2>1
  <2>7. p[k] = SumFunctionOnSet(f, first(k)) /\ p[k + 1] = SumFunctionOnSet(f, first(k + 1))
    BY <2>1
  <2> HIDE DEF first, p
  <2>8. SumFunctionOnSet(f, first(k) \cup {e[k + 1]}) =
          f[e[k + 1]] + SumFunctionOnSet(f, first(k))
    BY <2>3, <2>4, <2>5, <2>6, SetSumAdd
  <2>9. SumFunctionOnSet(f, first(k)) \in Int BY <2>4, <2>5, SetSumType
  <2>10. p[k + 1] = f[e[k + 1]] + p[k] BY <2>2, <2>7, <2>8, Zenon
  <2> QED BY <2>6, <2>7, <2>9, <2>10
<1>3. p[n] = SumFunctionOnSet(f, {e[k] : k \in 1 .. n}) OBVIOUS
<1> HIDE DEF p
<1>4. p[n] = SumOf(s) BY <1>1, <1>2, SumIs
<1> QED BY <1>3, <1>4

\* The orders of a finite set.
LEMMA Ordered ==
    ASSUME NEW S, IsFiniteSet(S), NEW s \in SetToSeqs(S)
    PROVE  /\ Cardinality(S) \in Nat
           /\ s \in [1 .. Cardinality(S) -> S]
           /\ \A k, l \in 1 .. Cardinality(S) : s[k] = s[l] => k = l
           /\ \A x \in S : \E k \in 1 .. Cardinality(S) : s[k] = x
<1> DEFINE n == Cardinality(S)
<1>1. n \in Nat BY FS_CardinalityType
<1>2. s \in [1 .. n -> S] /\ \A k, l \in 1 .. n : k # l => s[k] # s[l] BY DEF SetToSeqs
<1>3. IsFiniteSet(1 .. n) /\ Cardinality(1 .. n) = n BY <1>1, FS_Interval
<1>4. s \in Injection(1 .. n, S) BY <1>2 DEF Injection, IsInjective
<1> HIDE DEF n
<1>5. s \in Surjection(1 .. n, S) BY <1>3, <1>4, FS_Injection DEF n
<1>6. \A x \in S : \E k \in 1 .. n : s[k] = x BY <1>5 DEF Surjection
<1> QED BY <1>1, <1>2, <1>6 DEF n

-----------------------------------------------------------------------------
\* What round2 does to whole cents: nothing to an amount that is not negative,
\* one cent up to a negative one (the conversion to int64 truncates towards zero
\* after 0.5 has been added).  No tie is possible.
LEMMA Round2Cents ==
    ASSUME NEW n \in Int
    PROVE  Round2(n, 1) = IF n >= 0 THEN n ELSE n + 1
<1>1. Trunc(2 * n + 1, 2) = IF n >= 0 THEN n ELSE n + 1
  <2>1. CASE n >= 0
    <3>1. 2 * n + 1 >= 0 /\ (2 * n + 1) \div 2 = n
      BY <2>1
    <3> QED
      BY <2>1, <3>1 DEF Trunc
  <2>2. CASE n < 0
    <3>1. ~(2 * n + 1 >= 0) /\ (-(2 * n + 1)) \div 2 = -n - 1
      BY <2>2
    <3> QED
      BY <2>2, <3>1 DEF Trunc
  <2> QED
    BY <2>1, <2>2
<1>2. (2 * n + 1) % 2 # 0
  OBVIOUS
<1> QED
  BY <1>1, <1>2 DEF Round2

\* What is not negative is rounded to what is not negative, however ties fall.
LEMMA Round2Natural ==
    ASSUME NEW n \in Nat, NEW d \in Nat \ {0}
    PROVE  Round2(n, d) \in Nat
<1> DEFINE a == 2 * n + d
           b == 2 * d
<1>1. a \in Nat \ {0} /\ b \in Nat \ {0} OBVIOUS
<1>2. Trunc(a, b) = a \div b BY <1>1 DEF Trunc
<1> HIDE DEF a, b
<1>3. a \div b \in Nat BY <1>1
<1>4. a % b = 0 => a \div b > 0
  <2>1. a < b => a % b = a BY <1>1
  <2>2. a >= b => a \div b >= 1 BY <1>1
  <2> QED BY <1>1, <1>3, <2>1, <2>2
<1>5. a % b = 0 => TowardZero(a \div b) \in Nat BY <1>3, <1>4 DEF TowardZero
<1> QED BY <1>2, <1>3, <1>5 DEF Round2, a, b

Allocations(f, s, D) ==
    f = [x \in SUBSET D |-> IF x = {} THEN 0 ELSE Round2(f[x \ {Max(x)}] + s[Max(x)], 1)]

\* Rounding what is summed up changes nothing.
LEMMA AllocatedIs ==
    ASSUME NEW n \in Nat, NEW base \in Seq(Nat), n <= Len(base)
    PROVE  Allocated(base, n) = SumOf(SubSeq(base, 1, n))
<1> DEFINE s == SubSeq(base, 1, n)
           F == CHOOSE f : Allocations(f, s, 1 .. n)
<1>1. DOMAIN s = 1 .. n /\ \A k \in 1 .. n : s[k] \in Nat OBVIOUS
<1> HIDE DEF s
<1>2. Allocated(base, n) = F[1 .. n]
  <2>1. Allocated(base, n) = FoldLeft(LAMBDA acc, b : Round2(acc + b, 1), 0, s)
    BY DEF Allocated, s
  <2> QED BY <1>1, <2>1 DEF FoldLeft, MapThenFoldSet, Allocations
<1>3. Allocations(F, s, 1 .. n)
  <2>1. PICK f : Sums(f, s, 1 .. n) /\ \A x \in SUBSET (1 .. n) : f[x] \in Nat
    BY <1>1, SumsExist
  <2>2. ASSUME NEW x \in SUBSET (1 .. n)
        PROVE  f[x] = IF x = {} THEN 0 ELSE Round2(f[x \ {Max(x)}] + s[Max(x)], 1)
    <3>1. f[x] = IF x = {} THEN 0 ELSE f[x \ {Max(x)}] + s[Max(x)] BY <2>1 DEF Sums
    <3>2. f[x] \in Nat BY <2>1
    <3>3. Round2(f[x], 1) = f[x] BY <3>2, Round2Cents
    <3> QED BY <3>1, <3>3
  <2>3. Allocations(f, s, 1 .. n)
    <3>1. f = [x \in SUBSET (1 .. n) |-> f[x]] BY <2>1 DEF Sums
    <3> QED BY <2>2, <3>1 DEF Allocations
  <2> QED BY <2>3
<1> HIDE DEF F
<1>4. PICK p : /\ p[0] = 0
               /\ \A k \in 0 .. n - 1 : p[k + 1] = p[k] + s[k + 1]
               /\ p[n] = SumOf(s)
  BY <1>1, SumByPrefixes
<1> DEFINE S == {k \in Nat : k <= n => (p[k] \in Nat /\ F[1 .. k] = p[k])}
<1>5. 0 \in S
  <2>1. 1 .. 0 = {} /\ {} \in SUBSET (1 .. n) OBVIOUS
  <2>2. F[{}] = 0 BY <1>3, <2>1 DEF Allocations
  <2> QED BY <1>4, <2>1, <2>2
<1>6. ASSUME NEW k \in Nat, k \in S PROVE k + 1 \in S
  <2>1. CASE ~(k + 1 <= n) BY <2>1
  <2>2. CASE k + 1 <= n
    <3>1. k \in 0 .. n - 1 /\ k + 1 \in 1 .. n /\ p[k] \in Nat /\ F[1 .. k] = p[k]
      BY <1>6, <2>2
    <3>2. 1 .. k + 1 \in SUBSET (1 .. n) /\ 1 .. k + 1 # {} BY <2>2
    <3>3. Max(1 .. k + 1) = k + 1
      <4>1. /\ 1 .. k + 1 \in SUBSET Int /\ k + 1 \in 1 .. k + 1
            /\ \A j \in 1 .. k + 1 : j <= k + 1
        OBVIOUS
      <4> QED BY <4>1, MaxIs
    <3>4. (1 .. k + 1) \ {k + 1} = 1 .. k OBVIOUS
    <3>5. F[1 .. k + 1] = Round2(F[1 .. k] + s[k + 1], 1)
      BY <1>3, <3>2, <3>3, <3>4 DEF Allocations
    <3>6. p[k + 1] = p[k] + s[k + 1] /\ s[k + 1] \in Nat BY <1>1, <1>4, <3>1
    <3>7. p[k + 1] \in Nat BY <3>1, <3>6
    <3>8. F[1 .. k + 1] = p[k + 1] BY <3>1, <3>5, <3>6, <3>7, Round2Cents
    <3> QED BY <3>7, <3>8
  <2> QED BY <2>1, <2>2
<1> HIDE DEF S
<1>7. Nat \subseteq S BY <1>5, <1>6, Induction
<1>8. F[1 .. n] = p[n] BY <1>7 DEF S
<1> QED BY <1>2, <1>4, <1>8 DEF s

\* The last share is what is left, or 0 if one cent too much is gone: in general
\* one cent more than what is left when that is negative.
LEMMA LastAbsorbs ==
    ASSUME Sub = 1, NEW total \in Nat, NEW base \in Seq(Nat), base # << >>,
           NEW shares, shares = Cut(total, base)
    PROVE  LET n == Len(base)
               before == SumOf(SubSeq(shares, 1, n - 1))
           IN  /\ Len(shares) = n /\ shares \in Seq(Int)
               /\ before <= total => /\ SumOf(shares) = total
                                     /\ \A k \in 1 .. n : shares[k] \in Nat
               /\ before > total => SumOf(shares) = total + 1
<1> DEFINE n == Len(base)
           A == SumOf(SubSeq(base, 1, n - 1))
           last == Round2(total - A, 1)
<1>1. n \in Nat \ {0} /\ n - 1 \in Nat /\ n - 1 <= n OBVIOUS
<1>2. Allocated(base, n - 1) = A BY <1>1, AllocatedIs
<1>3. A \in Int
  <2> DEFINE s == SubSeq(base, 1, n - 1)
  <2>1. DOMAIN s = 1 .. n - 1 /\ \A k \in 1 .. n - 1 : s[k] \in Int BY <1>1
  <2> HIDE DEF s
  <2>2. SumOf(s) \in Int BY <1>1, <2>1, SumType
  <2> QED BY <2>2 DEF s
<1>4. last = IF A <= total THEN total - A ELSE total - A + 1
  <2>1. total - A \in Int BY <1>3
  <2> HIDE DEF A
  <2> QED BY <1>3, <2>1, Round2Cents
<1>5. shares = [base EXCEPT ![n] = last]
  <2>1. shares = [base EXCEPT ![n] = Round2(total - 1 * Allocated(base, n - 1), 1)]
    BY DEF Cut
  <2>2. 1 * A = A BY <1>3
  <2> QED BY <1>2, <2>1, <2>2
<1> HIDE DEF last
<1>6. /\ Len(shares) = n /\ shares[n] = last /\ DOMAIN shares = 1 .. n
      /\ \A k \in 1 .. n : k # n => shares[k] = base[k]
  BY <1>1, <1>5
<1>7. \A k \in 1 .. n - 1 : shares[k] = base[k] /\ base[k] \in Nat
  <2>1. \A k \in 1 .. n - 1 : k \in 1 .. n /\ k # n BY <1>1
  <2>2. \A k \in 1 .. n : base[k] \in Nat OBVIOUS
  <2> QED BY <1>6, <2>1, <2>2
<1>15. shares \in Seq(Int)
  <2>1. last \in Int BY <1>3, <1>4
  <2>2. base \in Seq(Int) OBVIOUS
  <2> HIDE DEF A
  <2> QED BY <1>1, <1>5, <2>1, <2>2
<1>8. SubSeq(shares, 1, n - 1) = SubSeq(base, 1, n - 1)
  <2>1. SubSeq(shares, 1, n - 1) = [k \in 1 .. n - 1 |-> shares[k]]
    <3>1. shares \in Seq(Int) BY <1>15
    <3>2. Len(shares) = n BY <1>6
    <3> HIDE DEF n, A
    <3> QED BY <1>1, <3>1, <3>2
  <2>2. SubSeq(base, 1, n - 1) = [k \in 1 .. n - 1 |-> base[k]] BY <1>1
  <2>3. [k \in 1 .. n - 1 |-> shares[k]] = [k \in 1 .. n - 1 |-> base[k]] BY <1>7
  <2> QED BY <2>1, <2>2, <2>3
<1>9. SumOf(shares) = A + last
  <2> DEFINE s == SubSeq(base, 1, n - 1)
  <2>1. DOMAIN s = 1 .. n - 1 /\ \A k \in 1 .. n - 1 : s[k] = base[k] BY <1>1
  <2>2. \A k \in 1 .. n - 1 : shares[k] = s[k] BY <1>7, <2>1
  <2>3. DOMAIN shares = 1 .. (n - 1) + 1 /\ shares[(n - 1) + 1] = last
    <3>1. (n - 1) + 1 = n BY <1>1
    <3> HIDE DEF n, A
    <3> QED BY <1>6, <3>1
  <2> HIDE DEF s, n
  <2>4. SumOf(shares) = SumOf(s) + last BY <1>1, <2>1, <2>2, <2>3, SumMore
  <2> QED BY <2>4 DEF s
<1>10. SumOf(SubSeq(shares, 1, n - 1)) = A BY <1>8
<1>11. A <= total => SumOf(shares) = total BY <1>3, <1>4, <1>9
<1>12. A > total => SumOf(shares) = total + 1 BY <1>3, <1>4, <1>9
<1>13. A <= total => \A k \in 1 .. n : shares[k] \in Nat
  <2>1. A <= total => last \in Nat BY <1>3, <1>4
  <2>2. \A k \in 1 .. n : k = n \/ k \in 1 .. n - 1 BY <1>1
  <2> QED BY <1>6, <1>7, <2>1, <2>2
<1> HIDE DEF A
<1> QED BY <1>6, <1>10, <1>11, <1>12, <1>13, <1>15

\* Participants with whole ratios and amounts.
InCents(Participant) == \A p \in Participant : p.ratio \in Int /\ p.amount \in Int

\* The shares of n participants add up to the total, exactly and without negative
\* shares if those before the last one do not exceed it, otherwise to one cent more.
AllButLast(shares) == SumOf(SubSeq(shares, 1, Len(shares) - 1))

Divides(shares, n, total) ==
    /\ shares \in Seq(Int) /\ Len(shares) = n
    /\ AllButLast(shares) <= total =>
          SumOf(shares) = total /\ \A k \in 1 .. n : shares[k] \in Nat
    /\ AllButLast(shares) > total => SumOf(shares) = total + 1

\* For any number of participants, whole cents and however ties fall:
\* CalculateShares divides the total among all participants, exactly and without
\* negative shares if those before the last one do not exceed it; otherwise the
\* shares add up to one cent more.
THEOREM SharesAddUp ==
    ASSUME Sub = 1, NEW total \in Int, NEW splitType,
           NEW Participant, InCents(Participant), NEW participants \in Seq(Participant),
           NEW result, result = CalculateShares(total, splitType, participants),
           result.err = "none"
    PROVE  Divides(result.amounts, Len(participants), total)
<1> DEFINE ps == participants
           n == Len(ps)
           shares == result.amounts
           before == SumOf(SubSeq(shares, 1, Len(shares) - 1))
<1>1. /\ ~InvalidSplit(total, splitType, ps) /\ ~SumMismatch(total, splitType, ps)
      /\ shares = CASE splitType = "equal"  -> Cut(total, EqualBase(total, ps))
                    [] splitType = "ratio"  -> Cut(total, RatioBase(total, ps))
                    [] splitType = "amount" -> AmountShares(ps)
  BY DEF CalculateShares
<1>2. /\ total \in Nat \ {0} /\ splitType \in SplitTypes /\ n \in Nat \ {0}
  <2>1. total > 0 /\ ps # << >> /\ splitType \in SplitTypes BY <1>1 DEF InvalidSplit
  <2> QED BY <2>1
<1>3. \A k \in 1 .. n : ps[k].ratio \in Int /\ ps[k].amount \in Int
  <2>1. \A T : \A x \in Seq(T) : \A k \in 1 .. Len(x) : x[k] \in T OBVIOUS
  <2>2. \A k \in 1 .. n : ps[k] \in Participant BY <2>1
  <2> QED BY <2>2 DEF InCents
<1>4. ASSUME NEW base \in Seq(Nat), Len(base) = n, shares = Cut(total, base)
      PROVE  Divides(shares, n, total)
  <2>1. base # << >> BY <1>2, <1>4
  <2> HIDE DEF shares, n
  <2>2. /\ Len(shares) = n /\ shares \in Seq(Int)
        /\ AllButLast(shares) <= total => /\ SumOf(shares) = total
                                          /\ \A k \in 1 .. n : shares[k] \in Nat
        /\ AllButLast(shares) > total => SumOf(shares) = total + 1
    BY <1>2, <1>4, <2>1, LastAbsorbs DEF AllButLast
  <2> QED BY <2>2 DEF Divides
<1>5. CASE splitType = "equal"
  <2>1. shares = Cut(total, EqualBase(total, ps)) BY <1>1, <1>5
  <2>2. EqualBase(total, ps) = [k \in 1 .. n |-> Round2(total, n)] BY <1>2 DEF EqualBase
  <2>3. Round2(total, n) \in Nat BY <1>2, Round2Natural
  <2> HIDE DEF n
  <2>4. EqualBase(total, ps) \in Seq(Nat) /\ Len(EqualBase(total, ps)) = n
    BY <1>2, <2>2, <2>3
  <2> QED BY <1>4, <2>1, <2>4 DEF n
<1>6. CASE splitType = "ratio"
  <2>1. shares = Cut(total, RatioBase(total, ps)) BY <1>1, <1>6
  <2>2. (\A k \in 1 .. n : ps[k].ratio >= 0) /\ SumRatio(ps) > 0
    <3>1. /\ ~\E k \in 1 .. n : ps[k].ratio < 0
          /\ ~(SumRatio(ps) <= 0)
      BY <1>1, <1>6 DEF InvalidSplit
    <3>2. SumRatio(ps) \in Int
      <4> DEFINE r == [k \in 1 .. n |-> ps[k].ratio]
      <4>1. DOMAIN r = 1 .. n /\ \A k \in 1 .. n : r[k] \in Int BY <1>3
      <4> HIDE DEF r, n
      <4>2. SumOf(r) \in Int BY <1>2, <4>1, SumType
      <4> QED BY <4>2 DEF SumRatio, r, n
    <3>3. \A k \in 1 .. n : ps[k].ratio >= 0 BY <1>3, <3>1
    <3> QED BY <3>1, <3>2, <3>3
  <2>3. SumRatio(ps) \in Nat \ {0}
    <3> DEFINE r == [k \in 1 .. n |-> ps[k].ratio]
    <3>1. DOMAIN r = 1 .. n /\ \A k \in 1 .. n : r[k] \in Int BY <1>3
    <3> HIDE DEF r, n
    <3>2. SumOf(r) \in Int BY <1>2, <3>1, SumType
    <3>3. SumRatio(ps) = SumOf(r) BY DEF SumRatio, r, n
    <3> QED BY <2>2, <3>2, <3>3
  <2>4. RatioBase(total, ps) = [k \in 1 .. n |-> Round2(total * ps[k].ratio, SumRatio(ps))]
    <3>1. Sub * SumRatio(ps) = SumRatio(ps) BY <2>3
    <3> QED BY <3>1 DEF RatioBase
  <2>5. \A k \in 1 .. n : Round2(total * ps[k].ratio, SumRatio(ps)) \in Nat
    <3> SUFFICES ASSUME NEW k \in 1 .. n
                 PROVE  Round2(total * ps[k].ratio, SumRatio(ps)) \in Nat
      OBVIOUS
    <3>1. ps[k].ratio \in Nat BY <1>3, <2>2
    <3>2. total * ps[k].ratio \in Nat BY <1>2, <3>1
    <3> QED BY <2>3, <3>2, Round2Natural
  <2> HIDE DEF n
  <2>6. RatioBase(total, ps) \in Seq(Nat) /\ Len(RatioBase(total, ps)) = n
    BY <1>2, <2>4, <2>5
  <2> QED BY <1>4, <2>1, <2>6 DEF n
<1>7. CASE splitType = "amount"
  <2> DEFINE a == [k \in 1 .. n |-> ps[k].amount]
  <2>1. \A k \in 1 .. n : ps[k].amount \in Nat
    <3>1. ~\E k \in 1 .. n : ps[k].amount < 0 BY <1>1, <1>7 DEF InvalidSplit
    <3> QED BY <1>3, <3>1
  <2>2. shares = a
    <3>1. shares = AmountShares(ps) BY <1>1, <1>7
    <3>2. \A k \in 1 .. n : Round2(ps[k].amount, 1) = ps[k].amount
      BY <2>1, Round2Cents
    <3> QED BY <3>1, <3>2 DEF AmountShares
  <2>3. DOMAIN a = 1 .. n /\ \A k \in 1 .. n : a[k] = ps[k].amount OBVIOUS
  <2> HIDE DEF a, shares
  <2>4. \A k \in 1 .. n : a[k] \in Int /\ a[k] >= 0 BY <2>1, <2>3
  <2>5. SumOf(a) \in Int /\ SumOf(a) >= 0 BY <1>2, <2>3, <2>4, SumType
  <2>6. SumOf(a) = total
    <3>1. SumAmount(ps) = SumOf(a) BY DEF SumAmount, a
    <3>2. Round2(SumOf(a), 1) = Round2(total, 1) BY <1>1, <1>7, <3>1 DEF SumMismatch
    <3> QED BY <1>2, <2>5, <3>2, Round2Cents
  <2>7. Len(a) = n BY <1>2 DEF a
  <2>8. SumOf(SubSeq(a, 1, n - 1)) <= total
    <3> DEFINE s == SubSeq(a, 1, n - 1)
    <3>1. a \in Seq(Int) BY <1>2, <1>3 DEF a
    <3>2. DOMAIN s = 1 .. n - 1 /\ \A k \in 1 .. n - 1 : s[k] = a[k] BY <1>2, <2>7, <3>1
    <3>3. \A k \in 1 .. n - 1 : k \in 1 .. n OBVIOUS
    <3>4. n - 1 \in Nat /\ n = (n - 1) + 1 /\ n \in 1 .. n BY <1>2
    <3> HIDE DEF s, n
    <3>5. \A k \in 1 .. n - 1 : s[k] \in Int BY <2>4, <3>2, <3>3
    <3>6. SumOf(s) \in Int BY <3>2, <3>4, <3>5, SumType
    <3>7. SumOf(a) = SumOf(s) + a[n] BY <2>3, <3>2, <3>4, SumMore
    <3>8. a[n] \in Int /\ a[n] >= 0 BY <2>4, <3>4
    <3> QED BY <1>2, <2>6, <3>6, <3>7, <3>8 DEF s
  <2>9. \A k \in 1 .. n : a[k] \in Nat BY <2>1, <2>3
  <2>10. Len(shares) = n /\ SumOf(shares) = total /\ before <= total
    BY <2>2, <2>6, <2>7, <2>8
  <2>11. \A k \in 1 .. Len(shares) : shares[k] \in Nat BY <2>2, <2>7, <2>9
  <2>12. SumOf(SubSeq(a, 1, n - 1)) \in Int
    <3> DEFINE s == SubSeq(a, 1, n - 1)
    <3>1. a \in Seq(Int) BY <1>2, <1>3 DEF a
    <3>2. DOMAIN s = 1 .. n - 1 /\ \A k \in 1 .. n - 1 : s[k] = a[k] BY <1>2, <2>7, <3>1
    <3>3. \A k \in 1 .. n - 1 : k \in 1 .. n OBVIOUS
    <3>4. n - 1 \in Nat BY <1>2
    <3> HIDE DEF s, n
    <3>5. \A k \in 1 .. n - 1 : s[k] \in Int BY <2>4, <3>2, <3>3
    <3>6. SumOf(s) \in Int BY <3>2, <3>4, <3>5, SumType
    <3> QED BY <3>6 DEF s
  <2>13. ~(before > total) BY <1>2, <2>2, <2>7, <2>8, <2>12
  <2>14. shares \in Seq(Int) BY <1>2, <1>3, <2>2 DEF a
  <2>15. AllButLast(shares) <= total /\ ~(AllButLast(shares) > total)
    BY <2>10, <2>13 DEF AllButLast
  <2> QED BY <2>2, <2>7, <2>10, <2>11, <2>14, <2>15 DEF Divides, shares
<1> QED BY <1>2, <1>5, <1>6, <1>7 DEF SplitTypes

\* So they never miss the total by more than the one cent.
LEMMA SharesWithinACent ==
    ASSUME NEW total \in Int, NEW n \in Nat \ {0}, NEW shares, Divides(shares, n, total)
    PROVE  AllButLast(shares) \in Int /\ SumOf(shares) \in {total, total + 1}
<1> DEFINE s == SubSeq(shares, 1, n - 1)
<1>1. /\ shares \in Seq(Int) /\ Len(shares) = n
      /\ SumOf(s) <= total => SumOf(shares) = total
      /\ SumOf(s) > total => SumOf(shares) = total + 1
  BY DEF Divides, AllButLast
<1>2. SumOf(s) \in Int
  <2>1. DOMAIN s = 1 .. n - 1 /\ \A k \in 1 .. n - 1 : s[k] \in Int BY <1>1
  <2> HIDE DEF s
  <2> QED BY <2>1, SumType
<1>3. AllButLast(shares) = SumOf(s) BY <1>1 DEF AllButLast
<1> HIDE DEF s
<1> QED BY <1>1, <1>2, <1>3
-----------------------------------------------------------------------------
\* The loop of OptimizeTransfers on balances b in whole cents, one of each user in
\* a finite set.
WholeBalances(b) == IsFiniteSet(DOMAIN b) /\ \A u \in DOMAIN b : b[u] \in Int

Listing(U)   == [user : U, amount : Nat]
Payments(U)  == [from : U, to : U, amount : Nat \ {0}]
LoopState(U) == [i : Nat \ {0}, j : Nat \ {0}, debtors : Seq(Listing(U)),
                 creditors : Seq(Listing(U)), transfers : Seq(Payments(U))]

SentBy(ts, u)     == SumOf([k \in 1..Len(ts) |-> IF ts[k].from = u THEN ts[k].amount ELSE 0])
ReceivedBy(ts, u) == SumOf([k \in 1..Len(ts) |-> IF ts[k].to = u THEN ts[k].amount ELSE 0])
OpenIn(list)      == SumOf([k \in 1..Len(list) |-> list[k].amount])
OneCentDebtors(b)         == {u \in DOMAIN b : b[u] = -1}

\* Nobody who is still to be matched is through, and each iteration has finished
\* somebody.
CountsDown(m) ==
    LET nd == Len(m.debtors)
        nc == Len(m.creditors)
        nt == Len(m.transfers)
    IN  /\ m.i <= nd + 1 /\ m.j <= nc + 1
        /\ \A k \in m.i..nd : m.debtors[k].amount > 0
        /\ \A k \in m.j..nc : m.creditors[k].amount > 0
        /\ nt <= m.i + m.j - 2
        /\ m.i = nd + 1 /\ m.j = nc + 1 /\ nt > 0 => nt < nd + nc

\* Who is in the lists, and what each of them has still to pay or to get.
Books(b, m) ==
    /\ \A k, l \in 1..Len(m.debtors) : m.debtors[k].user = m.debtors[l].user => k = l
    /\ \A k, l \in 1..Len(m.creditors) : m.creditors[k].user = m.creditors[l].user => k = l
    /\ \A k \in 1..Len(m.debtors) :
          LET u == m.debtors[k].user
          IN  b[u] < -1 /\ SentBy(m.transfers, u) + m.debtors[k].amount = -b[u]
    /\ \A k \in 1..Len(m.creditors) :
          LET u == m.creditors[k].user
          IN  b[u] > 0 /\ ReceivedBy(m.transfers, u) + m.creditors[k].amount = b[u]
    /\ \A u \in DOMAIN b : /\ SentBy(m.transfers, u) \in Nat
                           /\ ReceivedBy(m.transfers, u) \in Nat
                           /\ b[u] >= -1 => SentBy(m.transfers, u) = 0
                           /\ b[u] <= 0 => ReceivedBy(m.transfers, u) = 0
    /\ \A u \in DOMAIN b :
          /\ b[u] < -1 => \E k \in 1..Len(m.debtors) : m.debtors[k].user = u
          /\ b[u] > 0 => \E k \in 1..Len(m.creditors) : m.creditors[k].user = u
    /\ \A k \in 1..Len(m.transfers) : b[m.transfers[k].from] < 0 /\ b[m.transfers[k].to] > 0

\* Nobody who is through has anything open.  What the creditors are due beyond
\* what the debtors owe is the sum of all balances and the cents of those who are
\* not listed.
Rest(b, m) ==
    /\ \A k \in 1..m.i - 1 : m.debtors[k].amount = 0
    /\ \A k \in 1..m.j - 1 : m.creditors[k].amount = 0
    /\ OpenIn(m.creditors) - OpenIn(m.debtors) =
          SumFunctionOnSet(b, DOMAIN b) + Cardinality(OneCentDebtors(b))

LoopInv(b, m) == m \in LoopState(DOMAIN b) /\ CountsDown(m) /\ Books(b, m) /\ Rest(b, m)

\* A list that Orders builds of some users and their amounts.
Lists(list, U, S, amount) ==
    /\ list \in Seq(Listing(U)) /\ Len(list) \in Nat
    /\ \A k \in 1..Len(list) : /\ list[k].user \in S
                               /\ list[k].amount = amount[list[k].user]
                               /\ list[k].amount > 0
    /\ \A k, l \in 1..Len(list) : list[k].user = list[l].user => k = l
    /\ \A u \in S : \E k \in 1..Len(list) : list[k].user = u
    /\ OpenIn(list) = SumFunctionOnSet(amount, S)

LEMMA Listed ==
    ASSUME NEW U, IsFiniteSet(U), NEW S \in SUBSET U,
           NEW amount, \A u \in S : amount[u] \in Nat \ {0},
           NEW list \in Orders(S, amount)
    PROVE  Lists(list, U, S, amount)
<1> DEFINE n == Cardinality(S)
<1>1. PICK s \in SetToSeqs(S) :
        list = [k \in 1..Len(s) |-> [user |-> s[k], amount |-> amount[s[k]]]]
  BY DEF Orders
<1>2. /\ n \in Nat /\ s \in [1..n -> S]
      /\ \A k, l \in 1..n : s[k] = s[l] => k = l
      /\ \A u \in S : \E k \in 1..n : s[k] = u
  BY FS_Subset, Ordered
<1> HIDE DEF n
<1>3. Len(s) = n /\ Len(list) = n BY <1>1, <1>2
<1>4. \A k \in 1..n : list[k].user = s[k] /\ list[k].amount = amount[s[k]]
  BY <1>1, <1>3
<1>5. \A k \in 1..n : s[k] \in S /\ s[k] \in U /\ amount[s[k]] \in Nat \ {0}
  BY <1>2
<1>6. list \in Seq(Listing(U))
  <2>1. list \in [1..n -> Listing(U)] BY <1>1, <1>3, <1>5 DEF Listing
  <2> QED BY <1>2, <2>1
<1>7. OpenIn(list) = SumFunctionOnSet(amount, S)
  <2>1. PICK a : a = [k \in 1..n |-> list[k].amount] OBVIOUS
  <2>2. OpenIn(list) = SumOf(a) BY <1>3, <2>1 DEF OpenIn
  <2>3. \A k \in 1..n : amount[s[k]] \in Int /\ a[k] = amount[s[k]] BY <1>4, <1>5, <2>1
  <2>4. {s[k] : k \in 1..n} = S BY <1>2
  <2>5. DOMAIN a = 1..n BY <2>1
  <2>6. \A k, l \in 1..n : s[k] = s[l] => k = l BY <1>2
  <2>7. SumOf(a) = SumFunctionOnSet(amount, {s[k] : k \in 1..n})
    BY <1>2, <2>3, <2>5, <2>6, SetSumInOrder
  <2> QED BY <2>2, <2>4, <2>7
<1>8. \A k \in 1..n : list[k].amount > 0 BY <1>4, <1>5
<1> QED BY <1>2, <1>3, <1>4, <1>5, <1>6, <1>7, <1>8 DEF Lists

\* The classes of balances.
LEMMA Classes ==
    ASSUME NEW b, \A u \in DOMAIN b : b[u] \in Int
    PROVE  /\ Debtors(b) = {u \in DOMAIN b : b[u] < -1}
           /\ Creditors(b) = {u \in DOMAIN b : b[u] > 0}
BY Round2Cents DEF Debtors, Creditors

\* All balances are those of the creditors, less those of the debtors and less the
\* cents of those who are not listed.
LEMMA ClassesAddUp ==
    ASSUME NEW b, WholeBalances(b), NEW owes, owes = [u \in DOMAIN b |-> -b[u]]
    PROVE  /\ Cardinality(OneCentDebtors(b)) \in Nat
           /\ SumFunctionOnSet(b, DOMAIN b) \in Int
           /\ SumFunctionOnSet(b, Creditors(b)) - SumFunctionOnSet(owes, Debtors(b)) =
                SumFunctionOnSet(b, DOMAIN b) + Cardinality(OneCentDebtors(b))
<1> DEFINE U == DOMAIN b  C == Creditors(b)  D == Debtors(b)  O == OneCentDebtors(b)
<1>1. /\ IsFiniteSet(U) /\ \A u \in U : b[u] \in Int /\ owes[u] = -b[u]
      /\ C \in SUBSET U /\ D \in SUBSET U /\ O \in SUBSET U
      /\ \A u \in U : /\ u \in C <=> b[u] > 0
                      /\ u \in D <=> b[u] < -1
                      /\ u \in O <=> b[u] = -1
  <2>1. \A u \in U : b[u] \in Int BY DEF WholeBalances
  <2>2. D = {u \in U : b[u] < -1} /\ C = {u \in U : b[u] > 0} BY <2>1, Classes
  <2> HIDE DEF C, D
  <2> QED BY <2>1, <2>2 DEF WholeBalances, OneCentDebtors
<1> HIDE DEF U, C, D, O
<1>2. PICK cs, ds, os, ones, xs :
        /\ cs = [u \in U |-> IF u \in C THEN b[u] ELSE 0]
        /\ ds = [u \in U |-> IF u \in D THEN owes[u] ELSE 0]
        /\ ones = [u \in U |-> 1]
        /\ os = [u \in U |-> IF u \in O THEN ones[u] ELSE 0]
        /\ xs = [u \in U |-> cs[u] - ds[u]]
  OBVIOUS
<1>3. \A u \in U : /\ cs[u] = IF u \in C THEN b[u] ELSE 0
                   /\ ds[u] = IF u \in D THEN owes[u] ELSE 0
                   /\ os[u] = IF u \in O THEN ones[u] ELSE 0
                   /\ ones[u] = 1
                   /\ xs[u] = cs[u] - ds[u]
  BY <1>2
<1>4. \A u \in U : /\ cs[u] \in Int /\ ds[u] \in Int /\ os[u] \in Int /\ xs[u] \in Int
                   /\ b[u] = xs[u] - os[u]
  <2> SUFFICES ASSUME NEW u \in U
               PROVE  /\ cs[u] \in Int /\ ds[u] \in Int /\ os[u] \in Int /\ xs[u] \in Int
                      /\ b[u] = xs[u] - os[u]
    OBVIOUS
  <2>1. b[u] \in Int /\ owes[u] = -b[u] BY <1>1
  <2>2. u \in C <=> b[u] > 0 BY <1>1
  <2>3. u \in D <=> b[u] < -1 BY <1>1
  <2>4. u \in O <=> b[u] = -1 BY <1>1
  <2>5. /\ cs[u] = IF u \in C THEN b[u] ELSE 0
        /\ ds[u] = IF u \in D THEN owes[u] ELSE 0
        /\ os[u] = IF u \in O THEN 1 ELSE 0
        /\ xs[u] = cs[u] - ds[u]
    BY <1>3
  <2> QED BY <2>1, <2>2, <2>3, <2>4, <2>5
<1>5. SumFunctionOnSet(b, C) = SumFunctionOnSet(cs, U)
  <2>1. \A u \in C : b[u] \in Int BY <1>1
  <2>2. \A u \in U : cs[u] = IF u \in C THEN b[u] ELSE 0 BY <1>3
  <2> QED BY <1>1, <2>1, <2>2, SetSumFilter
<1>6. SumFunctionOnSet(owes, D) = SumFunctionOnSet(ds, U)
  <2>1. \A u \in D : owes[u] \in Int BY <1>1
  <2>2. \A u \in U : ds[u] = IF u \in D THEN owes[u] ELSE 0 BY <1>3
  <2> QED BY <1>1, <2>1, <2>2, SetSumFilter
<1>7. SumFunctionOnSet(ones, O) = SumFunctionOnSet(os, U)
  <2>1. \A u \in O : ones[u] \in Int BY <1>1, <1>3
  <2>2. \A u \in U : os[u] = IF u \in O THEN ones[u] ELSE 0 BY <1>3
  <2> QED BY <1>1, <2>1, <2>2, SetSumFilter
<1>8. Cardinality(O) \in Nat /\ SumFunctionOnSet(ones, O) = Cardinality(O)
  <2>1. IsFiniteSet(O) BY <1>1, FS_Subset
  <2>2. \A u \in O : ones[u] = 1 BY <1>1, <1>3
  <2> QED BY <2>1, <2>2, SetSumOnes, FS_CardinalityType
<1>9. SumFunctionOnSet(xs, U) = SumFunctionOnSet(cs, U) - SumFunctionOnSet(ds, U)
  <2>1. \A u \in U : cs[u] \in Int /\ ds[u] \in Int /\ xs[u] = cs[u] - ds[u]
    BY <1>3, <1>4
  <2> QED BY <1>1, <2>1, SetSumMinus
<1>10. SumFunctionOnSet(b, U) = SumFunctionOnSet(xs, U) - SumFunctionOnSet(os, U)
  <2>1. \A u \in U : xs[u] \in Int /\ os[u] \in Int /\ b[u] = xs[u] - os[u]
    BY <1>4
  <2> QED BY <1>1, <2>1, SetSumMinus
<1>11. /\ SumFunctionOnSet(b, U) \in Int /\ SumFunctionOnSet(xs, U) \in Int
  <2>1. \A u \in U : b[u] \in Int BY <1>1
  <2>2. \A u \in U : xs[u] \in Int BY <1>4
  <2> QED BY <1>1, <2>1, <2>2, SetSumType
<1>12. SumFunctionOnSet(os, U) = Cardinality(O) BY <1>7, <1>8
<1>13. SumFunctionOnSet(b, C) - SumFunctionOnSet(owes, D) = SumFunctionOnSet(xs, U)
  BY <1>5, <1>6, <1>9
<1>14. SumFunctionOnSet(xs, U) = SumFunctionOnSet(b, U) + Cardinality(O)
  <2> DEFINE x == SumFunctionOnSet(xs, U)
             y == SumFunctionOnSet(b, U)
             z == Cardinality(O)
  <2>1. x \in Int /\ y \in Int /\ z \in Nat /\ y = x - z
    BY <1>8, <1>10, <1>11, <1>12
  <2> HIDE DEF x, y, z
  <2>2. x = y + z BY <2>1
  <2> QED BY <2>2 DEF x, y, z
<1> QED BY <1>8, <1>11, <1>13, <1>14 DEF U, C, D, O

\* What a list of one transfer more sends and what somebody receives.
LEMMA OneMore ==
    ASSUME NEW P, NEW ts \in Seq(P), NEW t, NEW u
    PROVE  /\ SentBy(Append(ts, t), u) =
                SentBy(ts, u) + (IF t.from = u THEN t.amount ELSE 0)
           /\ ReceivedBy(Append(ts, t), u) =
                ReceivedBy(ts, u) + (IF t.to = u THEN t.amount ELSE 0)
<1> DEFINE n == Len(ts)
           sent(x) == [k \in 1..Len(x) |-> IF x[k].from = u THEN x[k].amount ELSE 0]
           received(x) == [k \in 1..Len(x) |-> IF x[k].to = u THEN x[k].amount ELSE 0]
<1>0. PICK t2 : t2 = Append(ts, t) OBVIOUS
<1>1. n \in Nat OBVIOUS
<1>2. Len(t2) = n + 1 /\ t2[n + 1] = t /\ \A k \in 1..n : t2[k] = ts[k]
  BY <1>0, <1>1
<1>3. /\ SentBy(ts, u) = SumOf(sent(ts)) /\ SentBy(t2, u) = SumOf(sent(t2))
      /\ ReceivedBy(ts, u) = SumOf(received(ts)) /\ ReceivedBy(t2, u) = SumOf(received(t2))
  BY DEF SentBy, ReceivedBy
<1> HIDE DEF n
<1>4. /\ DOMAIN sent(ts) = 1..n /\ DOMAIN received(ts) = 1..n
      /\ DOMAIN sent(t2) = 1..n + 1 /\ DOMAIN received(t2) = 1..n + 1
  BY <1>2 DEF n
<1>5. \A k \in 1..n : sent(t2)[k] = sent(ts)[k] /\ received(t2)[k] = received(ts)[k]
  <2>1. \A k \in 1..n : k \in 1..Len(ts) /\ k \in 1..Len(t2) BY <1>1, <1>2 DEF n
  <2> QED BY <1>2, <2>1
<1>6. /\ sent(t2)[n + 1] = IF t.from = u THEN t.amount ELSE 0
      /\ received(t2)[n + 1] = IF t.to = u THEN t.amount ELSE 0
  <2>1. n + 1 \in 1..Len(t2) BY <1>1, <1>2
  <2> QED BY <1>2, <2>1
<1> HIDE DEF sent, received
<1>7. SumOf(sent(t2)) = SumOf(sent(ts)) + sent(t2)[n + 1]
  BY <1>1, <1>4, <1>5, SumMore
<1>8. SumOf(received(t2)) = SumOf(received(ts)) + received(t2)[n + 1]
  BY <1>1, <1>4, <1>5, SumMore
<1> QED BY <1>0, <1>3, <1>6, <1>7, <1>8

\* An entry of a list changes.
LEMMA EntryChanges ==
    ASSUME NEW U, NEW list \in Seq(Listing(U)), NEW i \in 1..Len(list), NEW a \in Nat
    PROVE  LET list2 == [list EXCEPT ![i].amount = a]
           IN  /\ list2 \in Seq(Listing(U)) /\ Len(list2) = Len(list)
               /\ \A k \in 1..Len(list) : list2[k].user = list[k].user
               /\ \A k \in 1..Len(list) : k # i => list2[k].amount = list[k].amount
               /\ list2[i].amount = a
<1> DEFINE list2 == [list EXCEPT ![i].amount = a]
           n == Len(list)
<1>1. n \in Nat /\ Len(list2) = n /\ \A k \in 1..n : list[k] \in Listing(U)
  OBVIOUS
<1>2. list2[i].amount = a /\ list2[i].user = list[i].user /\ list2[i] \in Listing(U)
  <2>1. list[i] \in Listing(U) BY <1>1
  <2>2. list2[i] = [list[i] EXCEPT !.amount = a] BY <1>1
  <2> QED BY <2>1, <2>2 DEF Listing
<1>3. \A k \in 1..n : k # i => list2[k] = list[k] BY <1>1
<1>4. list2 \in Seq(Listing(U))
  <2>1. list2 = [list EXCEPT ![i] = list2[i]] BY <1>1
  <2> HIDE DEF list2
  <2> QED BY <1>2, <2>1
<1> HIDE DEF list2
<1>5. \A k \in 1..n : list2[k].user = list[k].user BY <1>2, <1>3
<1>6. \A k \in 1..n : k # i => list2[k].amount = list[k].amount BY <1>3
<1> QED BY <1>1, <1>2, <1>4, <1>5, <1>6 DEF list2

\* What is open in two lists which differ in one entry.
LEMMA OpenChanges ==
    ASSUME NEW n \in Nat, NEW list, NEW list2, Len(list) = n, Len(list2) = n,
           NEW i \in 1..n, list2[i].amount \in Int,
           \A k \in 1..n : list[k].amount \in Int,
           \A k \in 1..n : k # i => list2[k].amount = list[k].amount
    PROVE  /\ OpenIn(list) \in Int
           /\ OpenIn(list2) = OpenIn(list) + (list2[i].amount - list[i].amount)
<1> DEFINE A == [k \in 1..n |-> list[k].amount]
           B == [k \in 1..n |-> list2[k].amount]
<1>1. OpenIn(list) = SumOf(A) /\ OpenIn(list2) = SumOf(B) BY DEF OpenIn
<1>2. \A k \in 1..n : A[k] = list[k].amount /\ B[k] = list2[k].amount OBVIOUS
<1>3. DOMAIN A = 1..n /\ DOMAIN B = 1..n OBVIOUS
<1> HIDE DEF A, B
<1>4. \A k \in 1..n : A[k] \in Int /\ B[k] \in Int BY <1>2
<1>5. \A k \in 1..n : k # i => B[k] = A[k] BY <1>2
<1>6. SumOf(A) \in Int BY <1>3, <1>4, SumType
<1>7. SumOf(B) = SumOf(A) + (B[i] - A[i]) BY <1>3, <1>4, <1>5, SumChange
<1> QED BY <1>1, <1>2, <1>6, <1>7

\* The invariant holds when the loop starts.
LEMMA LoopStarts ==
    ASSUME NEW b, WholeBalances(b), NEW m \in Starts(b)
    PROVE  LoopInv(b, m) /\ m.i = 1 /\ m.j = 1
<1> DEFINE U == DOMAIN b
<1>1. PICK owes : owes = [u \in U |-> -b[u]] OBVIOUS
<1>2. /\ IsFiniteSet(U) /\ \A u \in U : b[u] \in Int /\ owes[u] = -b[u]
      /\ Debtors(b) = {u \in U : b[u] < -1}
      /\ Creditors(b) = {u \in U : b[u] > 0}
  BY <1>1, Classes DEF WholeBalances
<1>3. PICK d \in Orders(Debtors(b), owes), c \in Orders(Creditors(b), b) :
        m = [i |-> 1, j |-> 1, debtors |-> d, creditors |-> c,
             transfers |-> << >>]
  BY <1>1 DEF Starts
<1>4. /\ m.debtors = d /\ m.creditors = c /\ m.transfers = << >>
      /\ m.i = 1 /\ m.j = 1
  BY <1>3
<1>5. /\ d \in Seq(Listing(U)) /\ Len(d) \in Nat
      /\ \A k \in 1..Len(d) : /\ d[k].user \in Debtors(b) /\ d[k].amount = owes[d[k].user]
                              /\ d[k].amount > 0
      /\ \A k, l \in 1..Len(d) : d[k].user = d[l].user => k = l
      /\ \A u \in Debtors(b) : \E k \in 1..Len(d) : d[k].user = u
      /\ OpenIn(d) = SumFunctionOnSet(owes, Debtors(b))
  <2>1. Debtors(b) \in SUBSET U /\ \A u \in Debtors(b) : owes[u] \in Nat \ {0}
    BY <1>2
  <2> HIDE DEF U
  <2>2. Lists(d, U, Debtors(b), owes) BY <1>2, <1>3, <2>1, Listed
  <2> QED BY <2>2 DEF Lists
<1>6. /\ c \in Seq(Listing(U)) /\ Len(c) \in Nat
      /\ \A k \in 1..Len(c) : /\ c[k].user \in Creditors(b) /\ c[k].amount = b[c[k].user]
                              /\ c[k].amount > 0
      /\ \A k, l \in 1..Len(c) : c[k].user = c[l].user => k = l
      /\ \A u \in Creditors(b) : \E k \in 1..Len(c) : c[k].user = u
      /\ OpenIn(c) = SumFunctionOnSet(b, Creditors(b))
  <2>1. Creditors(b) \in SUBSET U /\ \A u \in Creditors(b) : b[u] \in Nat \ {0}
    BY <1>2
  <2> HIDE DEF U
  <2>2. Lists(c, U, Creditors(b), b) BY <1>2, <1>3, <2>1, Listed
  <2> QED BY <2>2 DEF Lists
<1>7. \A u : SentBy(m.transfers, u) = 0 /\ ReceivedBy(m.transfers, u) = 0
  <2>1. \A u : /\ [k \in 1..Len(m.transfers) |->
                      IF m.transfers[k].from = u THEN m.transfers[k].amount ELSE 0] = << >>
               /\ [k \in 1..Len(m.transfers) |->
                      IF m.transfers[k].to = u THEN m.transfers[k].amount ELSE 0] = << >>
    BY <1>4
  <2>2. SumOf(<< >>) = 0 BY SumEmpty
  <2> QED BY <2>1, <2>2 DEF SentBy, ReceivedBy
<1>8. m \in LoopState(U)
  <2> HIDE DEF U
  <2> QED BY <1>3, <1>5, <1>6 DEF LoopState
<1>9. CountsDown(m)
  <2>1. Len(m.transfers) = 0 BY <1>4
  <2> QED BY <1>4, <1>5, <1>6, <2>1 DEF CountsDown
<1>10. Books(b, m)
  <2>1. \A k \in 1..Len(d) : b[d[k].user] < -1 /\ 0 + d[k].amount = -b[d[k].user]
    <3> SUFFICES ASSUME NEW k \in 1..Len(d)
                 PROVE  b[d[k].user] < -1 /\ 0 + d[k].amount = -b[d[k].user]
      OBVIOUS
    <3>1. PICK u : u = d[k].user OBVIOUS
    <3>2. u \in U /\ b[u] < -1 /\ d[k].amount = owes[u] BY <1>2, <1>5, <3>1
    <3>3. b[u] \in Int /\ d[k].amount = -b[u] BY <1>2, <3>2
    <3> QED BY <3>1, <3>2, <3>3
  <2>2. \A k \in 1..Len(c) : b[c[k].user] > 0 /\ 0 + c[k].amount = b[c[k].user]
    <3> SUFFICES ASSUME NEW k \in 1..Len(c)
                 PROVE  b[c[k].user] > 0 /\ 0 + c[k].amount = b[c[k].user]
      OBVIOUS
    <3>1. PICK u : u = c[k].user OBVIOUS
    <3>2. u \in U /\ b[u] > 0 /\ c[k].amount = b[u] BY <1>2, <1>6, <3>1
    <3>3. b[u] \in Int BY <1>2, <3>2
    <3> QED BY <3>1, <3>2, <3>3
  <2>3. \A u \in U : /\ b[u] > 0 => u \in Creditors(b)
                     /\ b[u] < -1 => u \in Debtors(b)
    BY <1>2
  <2>4. \A k \in 1..Len(m.transfers) : FALSE BY <1>4
  <2> QED BY <1>4, <1>5, <1>6, <1>7, <2>1, <2>2, <2>3, <2>4 DEF Books
<1>11. Rest(b, m)
  <2>1. SumFunctionOnSet(b, Creditors(b)) - SumFunctionOnSet(owes, Debtors(b)) =
          SumFunctionOnSet(b, U) + Cardinality(OneCentDebtors(b))
    BY <1>1, ClassesAddUp
  <2> QED BY <1>4, <1>5, <1>6, <2>1 DEF Rest
<1> QED BY <1>4, <1>8, <1>9, <1>10, <1>11 DEF LoopInv

\* One iteration in plain arithmetic: the smaller of the two open amounts is
\* transferred, and whoever then has nothing open is through.
Matches(m, m2, owes, due, t) ==
    /\ owes = 0 \/ due = 0
    /\ t.from = m.debtors[m.i].user /\ t.to = m.creditors[m.j].user
    /\ owes = m.debtors[m.i].amount - t.amount
    /\ due = m.creditors[m.j].amount - t.amount
    /\ m2 = [i |-> IF owes = 0 THEN m.i + 1 ELSE m.i,
             j |-> IF due = 0 THEN m.j + 1 ELSE m.j,
             debtors   |-> [m.debtors EXCEPT ![m.i].amount = owes],
             creditors |-> [m.creditors EXCEPT ![m.j].amount = due],
             transfers |-> Append(m.transfers, t)]

LEMMA MatchFacts ==
    ASSUME NEW U, NEW m \in LoopState(U), CountsDown(m), More(m)
    PROVE  \E owes, due \in Nat, t \in Payments(U) : Matches(m, Match(m), owes, due, t)
<1> DEFINE pay  == m.debtors[m.i].amount
           recv == m.creditors[m.j].amount
           amt  == IF recv < pay THEN recv ELSE pay
           t    == [from |-> m.debtors[m.i].user, to |-> m.creditors[m.j].user,
                    amount |-> amt]
<1>1. /\ m.i \in 1..Len(m.debtors) /\ m.j \in 1..Len(m.creditors)
      /\ m.debtors \in Seq(Listing(U)) /\ m.creditors \in Seq(Listing(U))
  BY DEF LoopState, More
<1>2. m.debtors[m.i] \in Listing(U) /\ m.creditors[m.j] \in Listing(U)
  BY <1>1
<1>3. /\ pay \in Nat \ {0} /\ recv \in Nat \ {0}
      /\ m.debtors[m.i].user \in U /\ m.creditors[m.j].user \in U
  <2>1. pay > 0 /\ recv > 0
    BY <1>1 DEF CountsDown
  <2>2. \A x \in Listing(U) : x.amount \in Nat /\ x.user \in U
    BY DEF Listing
  <2> QED
    BY <1>2, <2>1, <2>2
<1> HIDE DEF pay, recv
<1>4. amt \in Nat \ {0} /\ pay - amt \in Nat /\ recv - amt \in Nat
        /\ (pay - amt = 0 \/ recv - amt = 0)
  BY <1>3
<1>5. Smaller(pay, recv) = amt
  BY DEF Smaller
<1> HIDE DEF amt
<1>6. Payment(m) = amt
  BY <1>3, <1>4, <1>5, Round2Cents DEF Payment, pay, recv
<1>7. /\ Round2(pay - amt, 1) = pay - amt /\ Round2(recv - amt, 1) = recv - amt
      /\ pay - amt <= 0 <=> pay - amt = 0
      /\ recv - amt <= 0 <=> recv - amt = 0
      /\ amt > 0
  BY <1>4, Round2Cents
<1>8. t \in Payments(U)
  BY <1>3, <1>4 DEF Payments
<1>9. Match(m) =
        [i |-> IF pay - amt = 0 THEN m.i + 1 ELSE m.i,
         j |-> IF recv - amt = 0 THEN m.j + 1 ELSE m.j,
         debtors   |-> [m.debtors EXCEPT ![m.i].amount = pay - amt],
         creditors |-> [m.creditors EXCEPT ![m.j].amount = recv - amt],
         transfers |-> Append(m.transfers, t)]
  BY <1>6, <1>7 DEF Match, pay, recv
<1>10. /\ t.from = m.debtors[m.i].user /\ t.to = m.creditors[m.j].user
       /\ t.amount = amt
  OBVIOUS
<1> HIDE DEF t
<1>11. Matches(m, Match(m), pay - amt, recv - amt, t)
  BY <1>4, <1>9, <1>10 DEF Matches, pay, recv
<1> QED
  BY <1>4, <1>8, <1>11

\* An iteration keeps the invariant and finishes somebody.
LEMMA LoopGoesOn ==
    ASSUME NEW b, WholeBalances(b), NEW m, LoopInv(b, m), More(m),
           NEW m2, m2 = Match(m)
    PROVE  /\ LoopInv(b, m2)
           /\ m2.i + m2.j > m.i + m.j
           /\ Len(m2.debtors) = Len(m.debtors) /\ Len(m2.creditors) = Len(m.creditors)
<1>1. PICK U : U = DOMAIN b OBVIOUS
<1>2. m \in LoopState(U) /\ CountsDown(m) BY <1>1 DEF LoopInv
<1>3. PICK owes \in Nat, due \in Nat, t \in Payments(U) : Matches(m, m2, owes, due, t)
  BY <1>2, MatchFacts
<1>4. PICK i, j, D, C, T, D2, C2, T2 :
        /\ i = m.i /\ j = m.j /\ D = m.debtors /\ C = m.creditors /\ T = m.transfers
        /\ D2 = m2.debtors /\ C2 = m2.creditors /\ T2 = m2.transfers
  OBVIOUS
<1>5. /\ i \in 1..Len(D) /\ j \in 1..Len(C)
      /\ D \in Seq(Listing(U)) /\ C \in Seq(Listing(U)) /\ T \in Seq(Payments(U))
      /\ Len(D) \in Nat /\ Len(C) \in Nat /\ Len(T) \in Nat
  <2>1. i \in Nat \ {0} /\ j \in Nat \ {0} /\ i <= Len(D) /\ j <= Len(C)
    BY <1>2, <1>4 DEF LoopState, More
  <2>2. D \in Seq(Listing(U)) /\ C \in Seq(Listing(U)) /\ T \in Seq(Payments(U))
    BY <1>2, <1>4 DEF LoopState
  <2> QED BY <2>1, <2>2
<1>6. /\ m2.i = IF owes = 0 THEN i + 1 ELSE i
      /\ m2.j = IF due = 0 THEN j + 1 ELSE j
      /\ D2 = [D EXCEPT ![i].amount = owes] /\ C2 = [C EXCEPT ![j].amount = due]
      /\ T2 = Append(T, t)
      /\ owes = 0 \/ due = 0
  BY <1>3, <1>4 DEF Matches
<1>7. /\ D2 \in Seq(Listing(U)) /\ Len(D2) = Len(D) /\ D2[i].amount = owes
      /\ \A k \in 1..Len(D) : D2[k].user = D[k].user
      /\ \A k \in 1..Len(D) : k # i => D2[k].amount = D[k].amount
  BY <1>5, <1>6, EntryChanges
<1>8. /\ C2 \in Seq(Listing(U)) /\ Len(C2) = Len(C) /\ C2[j].amount = due
      /\ \A k \in 1..Len(C) : C2[k].user = C[k].user
      /\ \A k \in 1..Len(C) : k # j => C2[k].amount = C[k].amount
  BY <1>5, <1>6, EntryChanges
<1>9. T2 \in Seq(Payments(U)) /\ Len(T2) = Len(T) + 1
  BY <1>5, <1>6
<1>10. /\ \A k \in 1..Len(D) : D[k].user \in U /\ D[k].amount \in Nat
       /\ \A k \in 1..Len(C) : C[k].user \in U /\ C[k].amount \in Nat
  <2>1. \A x \in Listing(U) : x.user \in U /\ x.amount \in Nat BY DEF Listing
  <2> QED BY <1>5, <2>1
<1>11. /\ \A u \in U : b[u] \in Int
       /\ t.amount \in Nat /\ t.from = D[i].user /\ t.to = C[j].user
       /\ owes = D[i].amount - t.amount /\ due = C[j].amount - t.amount
  <2>1. \A u \in U : b[u] \in Int BY <1>1 DEF WholeBalances
  <2>2. t.amount \in Nat BY DEF Payments
  <2> QED BY <1>3, <1>4, <2>1, <2>2 DEF Matches
<1>12. m2 \in LoopState(U)
  <2>1. m2.i \in Nat \ {0} /\ m2.j \in Nat \ {0} BY <1>5, <1>6
  <2>2. m2 = [i |-> m2.i, j |-> m2.j, debtors |-> D2, creditors |-> C2, transfers |-> T2]
    BY <1>3, <1>4 DEF Matches
  <2> QED BY <1>7, <1>8, <1>9, <2>1, <2>2 DEF LoopState
<1>13. CountsDown(m2)
  <2>1. /\ \A k \in i..Len(D) : D[k].amount > 0
        /\ \A k \in j..Len(C) : C[k].amount > 0
        /\ Len(T) <= i + j - 2
    BY <1>2, <1>4 DEF CountsDown
  <2>2. \A k \in m2.i..Len(D) : D2[k].amount > 0
    <3> SUFFICES ASSUME NEW k \in m2.i..Len(D) PROVE D2[k].amount > 0
      OBVIOUS
    <3>1. k \in 1..Len(D) /\ k >= i /\ (k = i => owes > 0) BY <1>5, <1>6
    <3>2. CASE k = i BY <1>7, <3>1, <3>2
    <3>3. CASE k # i
      <4>1. k \in i..Len(D) /\ D2[k].amount = D[k].amount BY <1>5, <1>7, <3>1, <3>3
      <4> QED BY <2>1, <4>1
    <3> QED BY <3>2, <3>3
  <2>3. \A k \in m2.j..Len(C) : C2[k].amount > 0
    <3> SUFFICES ASSUME NEW k \in m2.j..Len(C) PROVE C2[k].amount > 0
      OBVIOUS
    <3>1. k \in 1..Len(C) /\ k >= j /\ (k = j => due > 0) BY <1>5, <1>6
    <3>2. CASE k = j BY <1>8, <3>1, <3>2
    <3>3. CASE k # j
      <4>1. k \in j..Len(C) /\ C2[k].amount = C[k].amount BY <1>5, <1>8, <3>1, <3>3
      <4> QED BY <2>1, <4>1
    <3> QED BY <3>2, <3>3
  <2>4. m2.i <= Len(D) + 1 /\ m2.j <= Len(C) + 1 BY <1>5, <1>6
  <2>5. Len(T2) <= m2.i + m2.j - 2
    <3>1. m2.i + m2.j >= i + j + 1 /\ m2.i \in Nat /\ m2.j \in Nat BY <1>5, <1>6
    <3>2. i \in Nat /\ j \in Nat BY <1>5
    <3> QED BY <1>5, <1>9, <2>1, <3>1, <3>2
  <2>6. m2.i = Len(D) + 1 /\ m2.j = Len(C) + 1 => Len(T2) < Len(D) + Len(C)
    BY <1>5, <1>6, <1>9, <2>1
  <2> QED BY <1>4, <1>7, <1>8, <2>2, <2>3, <2>4, <2>5, <2>6 DEF CountsDown
<1>14. \A u : /\ SentBy(T2, u) = SentBy(T, u) + (IF D[i].user = u THEN t.amount ELSE 0)
              /\ ReceivedBy(T2, u) = ReceivedBy(T, u) + (IF C[j].user = u THEN t.amount ELSE 0)
  <2>1. \A u : /\ SentBy(T2, u) = SentBy(T, u) + (IF t.from = u THEN t.amount ELSE 0)
               /\ ReceivedBy(T2, u) = ReceivedBy(T, u) + (IF t.to = u THEN t.amount ELSE 0)
    BY <1>5, <1>6, OneMore
  <2> QED BY <1>11, <2>1
<1>15. /\ \A k, l \in 1..Len(D) : D[k].user = D[l].user => k = l
       /\ \A k, l \in 1..Len(C) : C[k].user = C[l].user => k = l
       /\ \A k \in 1..Len(D) : /\ b[D[k].user] < -1
                               /\ SentBy(T, D[k].user) + D[k].amount = -b[D[k].user]
       /\ \A k \in 1..Len(C) : /\ b[C[k].user] > 0
                               /\ ReceivedBy(T, C[k].user) + C[k].amount = b[C[k].user]
       /\ \A u \in U : /\ SentBy(T, u) \in Nat /\ ReceivedBy(T, u) \in Nat
                       /\ b[u] >= -1 => SentBy(T, u) = 0
                       /\ b[u] <= 0 => ReceivedBy(T, u) = 0
       /\ \A u \in U : /\ b[u] < -1 => \E k \in 1..Len(D) : D[k].user = u
                       /\ b[u] > 0 => \E k \in 1..Len(C) : C[k].user = u
       /\ \A k \in 1..Len(T) : b[T[k].from] < 0 /\ b[T[k].to] > 0
  BY <1>1, <1>4 DEF LoopInv, Books
<1>16. \A k \in 1..Len(D) : SentBy(T2, D[k].user) + D2[k].amount = -b[D[k].user]
  <2> SUFFICES ASSUME NEW k \in 1..Len(D)
               PROVE  SentBy(T2, D[k].user) + D2[k].amount = -b[D[k].user]
    OBVIOUS
  <2>1. PICK u : u = D[k].user OBVIOUS
  <2>2. /\ SentBy(T, u) \in Nat /\ D[k].amount \in Nat /\ u \in U
        /\ SentBy(T, u) + D[k].amount = -b[u]
    BY <1>10, <1>15, <2>1
  <2>3. SentBy(T2, u) = SentBy(T, u) + (IF D[i].user = u THEN t.amount ELSE 0) BY <1>14
  <2>4. CASE k = i
    <3>1. D2[k].amount = D[k].amount - t.amount /\ D[i].user = u BY <1>7, <1>11, <2>1, <2>4
    <3>2. SentBy(T2, u) + D2[k].amount = -b[u] BY <1>11, <2>2, <2>3, <3>1
    <3> QED BY <2>1, <3>2
  <2>5. CASE k # i
    <3>1. D2[k].amount = D[k].amount /\ D[i].user # u BY <1>5, <1>7, <1>15, <2>1, <2>5
    <3>2. SentBy(T2, u) + D2[k].amount = -b[u] BY <2>2, <2>3, <3>1
    <3> QED BY <2>1, <3>2
  <2> QED BY <2>4, <2>5
<1>17. \A k \in 1..Len(C) : ReceivedBy(T2, C[k].user) + C2[k].amount = b[C[k].user]
  <2> SUFFICES ASSUME NEW k \in 1..Len(C)
               PROVE  ReceivedBy(T2, C[k].user) + C2[k].amount = b[C[k].user]
    OBVIOUS
  <2>1. PICK u : u = C[k].user OBVIOUS
  <2>2. /\ ReceivedBy(T, u) \in Nat /\ C[k].amount \in Nat /\ u \in U
        /\ ReceivedBy(T, u) + C[k].amount = b[u]
    BY <1>10, <1>15, <2>1
  <2>3. ReceivedBy(T2, u) = ReceivedBy(T, u) + (IF C[j].user = u THEN t.amount ELSE 0)
    BY <1>14
  <2>4. CASE k = j
    <3>1. C2[k].amount = C[k].amount - t.amount /\ C[j].user = u BY <1>8, <1>11, <2>1, <2>4
    <3>2. ReceivedBy(T2, u) + C2[k].amount = b[u] BY <1>11, <2>2, <2>3, <3>1
    <3> QED BY <2>1, <3>2
  <2>5. CASE k # j
    <3>1. C2[k].amount = C[k].amount /\ C[j].user # u BY <1>5, <1>8, <1>15, <2>1, <2>5
    <3>2. ReceivedBy(T2, u) + C2[k].amount = b[u] BY <2>2, <2>3, <3>1
    <3> QED BY <2>1, <3>2
  <2> QED BY <2>4, <2>5
<1>18. \A u \in U : /\ SentBy(T2, u) \in Nat /\ ReceivedBy(T2, u) \in Nat
                    /\ b[u] >= -1 => SentBy(T2, u) = 0
                    /\ b[u] <= 0 => ReceivedBy(T2, u) = 0
  <2> SUFFICES ASSUME NEW u \in U
               PROVE  /\ SentBy(T2, u) \in Nat /\ ReceivedBy(T2, u) \in Nat
                      /\ b[u] >= -1 => SentBy(T2, u) = 0
                      /\ b[u] <= 0 => ReceivedBy(T2, u) = 0
    OBVIOUS
  <2>1. /\ D[i].user = u => b[u] < -1
        /\ C[j].user = u => b[u] > 0
    BY <1>5, <1>15
  <2>2. /\ SentBy(T, u) \in Nat /\ ReceivedBy(T, u) \in Nat /\ b[u] \in Int
        /\ b[u] >= -1 => SentBy(T, u) = 0
        /\ b[u] <= 0 => ReceivedBy(T, u) = 0
    BY <1>11, <1>15
  <2>3. SentBy(T2, u) \in Nat /\ (b[u] >= -1 => SentBy(T2, u) = 0)
    BY <1>11, <1>14, <2>1, <2>2
  <2>4. ReceivedBy(T2, u) \in Nat /\ (b[u] <= 0 => ReceivedBy(T2, u) = 0)
    BY <1>11, <1>14, <2>1, <2>2
  <2> QED BY <2>3, <2>4
<1>19. Books(b, m2)
  <2>1. /\ \A k, l \in 1..Len(D2) : D2[k].user = D2[l].user => k = l
        /\ \A k, l \in 1..Len(C2) : C2[k].user = C2[l].user => k = l
    BY <1>7, <1>8, <1>15
  <2>2. \A k \in 1..Len(D2) : /\ b[D2[k].user] < -1
                              /\ SentBy(T2, D2[k].user) + D2[k].amount = -b[D2[k].user]
    BY <1>7, <1>15, <1>16
  <2>3. \A k \in 1..Len(C2) : /\ b[C2[k].user] > 0
                              /\ ReceivedBy(T2, C2[k].user) + C2[k].amount = b[C2[k].user]
    BY <1>8, <1>15, <1>17
  <2>4. \A u \in U : /\ b[u] < -1 => \E k \in 1..Len(D2) : D2[k].user = u
                     /\ b[u] > 0 => \E k \in 1..Len(C2) : C2[k].user = u
    <3>1. \A u \in U : b[u] < -1 => \E k \in 1..Len(D2) : D2[k].user = u
      BY <1>7, <1>15
    <3>2. \A u \in U : b[u] > 0 => \E k \in 1..Len(C2) : C2[k].user = u
      BY <1>8, <1>15
    <3> QED BY <3>1, <3>2
  <2>5. \A k \in 1..Len(T2) : b[T2[k].from] < 0 /\ b[T2[k].to] > 0
    <3>1. \A k \in 1..Len(T2) : (k \in 1..Len(T) /\ T2[k] = T[k]) \/ T2[k] = t
      BY <1>5, <1>6
    <3>2. b[t.from] < -1 /\ b[t.to] > 0 /\ t.from \in U BY <1>5, <1>10, <1>11, <1>15
    <3>3. b[t.from] < 0 BY <1>11, <3>2
    <3> QED BY <1>15, <3>1, <3>2, <3>3
  <2> QED BY <1>1, <1>4, <1>18, <2>1, <2>2, <2>3, <2>4, <2>5 DEF Books
<1>20. \A k \in 1..m2.i - 1 : D2[k].amount = 0
  <2> SUFFICES ASSUME NEW k \in 1..m2.i - 1 PROVE D2[k].amount = 0 OBVIOUS
  <2>0. \A l \in 1..i - 1 : D[l].amount = 0 BY <1>4 DEF LoopInv, Rest
  <2>1. k \in 1..Len(D) /\ (k \in 1..i - 1 \/ (k = i /\ owes = 0)) BY <1>5, <1>6
  <2>2. CASE k = i BY <1>7, <2>1, <2>2
  <2>3. CASE k # i BY <1>7, <2>0, <2>1, <2>3
  <2> QED BY <2>2, <2>3
<1>21. \A k \in 1..m2.j - 1 : C2[k].amount = 0
  <2> SUFFICES ASSUME NEW k \in 1..m2.j - 1 PROVE C2[k].amount = 0 OBVIOUS
  <2>0. \A l \in 1..j - 1 : C[l].amount = 0 BY <1>4 DEF LoopInv, Rest
  <2>1. k \in 1..Len(C) /\ (k \in 1..j - 1 \/ (k = j /\ due = 0)) BY <1>5, <1>6
  <2>2. CASE k = j BY <1>8, <2>1, <2>2
  <2>3. CASE k # j BY <1>8, <2>0, <2>1, <2>3
  <2> QED BY <2>2, <2>3
<1>22. OpenIn(C2) - OpenIn(D2) = OpenIn(C) - OpenIn(D)
  <2>1. D[i].amount \in Nat /\ C[j].amount \in Nat BY <1>5, <1>10
  <2>2. /\ OpenIn(D) \in Int
        /\ OpenIn(D2) = OpenIn(D) + (D2[i].amount - D[i].amount)
    <3>1. \A k \in 1..Len(D) : D[k].amount \in Int BY <1>10
    <3>2. D2[i].amount \in Int BY <1>7
    <3>3. PICK n \in Nat : n = Len(D) BY <1>5
    <3>4. i \in 1..n /\ \A k \in 1..n : k # i => D2[k].amount = D[k].amount
      BY <1>5, <1>7, <3>3
    <3>5. Len(D) = n /\ Len(D2) = n BY <1>7, <3>3
    <3> QED BY <3>1, <3>2, <3>3, <3>4, <3>5, OpenChanges
  <2>3. /\ OpenIn(C) \in Int
        /\ OpenIn(C2) = OpenIn(C) + (C2[j].amount - C[j].amount)
    <3>1. \A k \in 1..Len(C) : C[k].amount \in Int BY <1>10
    <3>2. C2[j].amount \in Int BY <1>8
    <3>3. PICK n \in Nat : n = Len(C) BY <1>5
    <3>4. j \in 1..n /\ \A k \in 1..n : k # j => C2[k].amount = C[k].amount
      BY <1>5, <1>8, <3>3
    <3>5. Len(C) = n /\ Len(C2) = n BY <1>8, <3>3
    <3> QED BY <3>1, <3>2, <3>3, <3>4, <3>5, OpenChanges
  <2>4. D2[i].amount - D[i].amount = -t.amount BY <1>7, <1>11, <2>1
  <2>5. C2[j].amount - C[j].amount = -t.amount BY <1>8, <1>11, <2>1
  <2>6. OpenIn(D2) = OpenIn(D) - t.amount BY <1>11, <2>2, <2>4
  <2>7. OpenIn(C2) = OpenIn(C) - t.amount BY <1>11, <2>3, <2>5
  <2> QED BY <1>11, <2>2, <2>3, <2>6, <2>7
<1>23. Rest(b, m2)
  BY <1>4, <1>20, <1>21, <1>22 DEF LoopInv, Rest
<1>24. m2.i + m2.j > m.i + m.j
  BY <1>4, <1>5, <1>6
<1> QED BY <1>1, <1>4, <1>7, <1>8, <1>12, <1>13, <1>19, <1>23, <1>24 DEF LoopInv

\* Nobody pays more than he owes, nobody gets more than he is due and nobody does
\* both.
LEMMA NobodyMore ==
    ASSUME NEW b, WholeBalances(b), NEW m, LoopInv(b, m), NEW u \in DOMAIN b
    PROVE  /\ SentBy(m.transfers, u) \in Nat /\ ReceivedBy(m.transfers, u) \in Nat
           /\ SentBy(m.transfers, u) = 0 \/ ReceivedBy(m.transfers, u) = 0
BY DEF LoopInv, Books, WholeBalances

\* Of three lists of n numbers the first is the difference of the others, place by place;
\* then it is their difference in sum.
Differ(v, s, t, n) ==
    /\ DOMAIN s = 1..n /\ DOMAIN t = 1..n /\ DOMAIN v = 1..n
    /\ \A k \in 1..n : s[k] \in Int /\ t[k] \in Int /\ v[k] = s[k] - t[k]

LEMMA DifferenceSums ==
    ASSUME NEW n \in Nat, NEW v, NEW s, NEW t, Differ(v, s, t, n)
    PROVE  SumOf(v) = SumOf(s) - SumOf(t)
<1>1. DOMAIN s = 1..n /\ DOMAIN t = 1..n /\ DOMAIN v = 1..n BY DEF Differ
<1>2. \A k \in 1..n : s[k] \in Int /\ t[k] \in Int /\ v[k] = s[k] - t[k] BY DEF Differ
<1> QED BY <1>1, <1>2, SumMinus

\* What somebody gets by transfers with what he sends counted negative: nobody pays
\* himself.
LEMMA NetIsDifference ==
    ASSUME NEW b, WholeBalances(b), NEW m, LoopInv(b, m), NEW u, NEW net,
           net = [k \in 1..Len(m.transfers) |->
                    IF m.transfers[k].to = u THEN m.transfers[k].amount
                    ELSE IF m.transfers[k].from = u THEN -m.transfers[k].amount ELSE 0]
    PROVE  SumOf(net) = ReceivedBy(m.transfers, u) - SentBy(m.transfers, u)
<1>1. PICK U, T, n : U = DOMAIN b /\ T = m.transfers /\ n = Len(T) OBVIOUS
<1>2. T \in Seq(Payments(U)) BY <1>1 DEF LoopInv, LoopState
<1>3. n \in Nat /\ \A k \in 1..n : T[k] \in Payments(U) BY <1>1, <1>2
<1>4. \A k \in 1..n : /\ T[k].amount \in Nat /\ T[k].from \in U /\ T[k].to \in U
                      /\ b[T[k].from] < 0 /\ b[T[k].to] > 0
  <2>1. \A x \in Payments(U) : x.amount \in Nat /\ x.from \in U /\ x.to \in U
    BY DEF Payments
  <2>2. \A k \in 1..n : b[T[k].from] < 0 /\ b[T[k].to] > 0 BY <1>1 DEF LoopInv, Books
  <2> QED BY <1>3, <2>1, <2>2
<1>5. \A k \in 1..n : T[k].from # T[k].to
  <2> SUFFICES ASSUME NEW k \in 1..n, T[k].from = T[k].to PROVE FALSE OBVIOUS
  <2>1. PICK x : x = T[k].from OBVIOUS
  <2>2. b[x] \in Int /\ b[x] < 0 /\ b[x] > 0 BY <1>1, <1>4, <2>1 DEF WholeBalances
  <2> QED BY <2>2
<1>6. PICK got, gave :
        /\ got  = [k \in 1..n |-> IF T[k].to = u THEN T[k].amount ELSE 0]
        /\ gave = [k \in 1..n |-> IF T[k].from = u THEN T[k].amount ELSE 0]
  OBVIOUS
<1>7. ReceivedBy(m.transfers, u) = SumOf(got) /\ SentBy(m.transfers, u) = SumOf(gave)
  BY <1>1, <1>6 DEF ReceivedBy, SentBy
<1>8. DOMAIN got = 1..n /\ DOMAIN gave = 1..n /\ DOMAIN net = 1..n
  BY <1>1, <1>6
<1>9. \A k \in 1..n : got[k] \in Int /\ gave[k] \in Int /\ net[k] = got[k] - gave[k]
  <2> SUFFICES ASSUME NEW k \in 1..n
               PROVE  got[k] \in Int /\ gave[k] \in Int /\ net[k] = got[k] - gave[k]
    OBVIOUS
  <2>1. T[k].amount \in Nat /\ T[k].from # T[k].to BY <1>4, <1>5
  <2>2. /\ got[k] = IF T[k].to = u THEN T[k].amount ELSE 0
        /\ gave[k] = IF T[k].from = u THEN T[k].amount ELSE 0
        /\ net[k] = IF T[k].to = u THEN T[k].amount
                    ELSE IF T[k].from = u THEN -T[k].amount ELSE 0
    BY <1>1, <1>6
  <2> QED BY <2>1, <2>2
<1>10. Differ(net, got, gave, n) BY <1>8, <1>9 DEF Differ
<1>11. n \in Nat BY <1>3
<1>12. SumOf(net) = SumOf(got) - SumOf(gave) BY <1>10, <1>11, DifferenceSums
<1> QED BY <1>7, <1>12

\* A finished loop between them: who is due an amount gets it or a part, who owes one
\* pays it or a part, and what the former still miss is open in their list.
LEMMA LoopPays ==
    ASSUME NEW b, WholeBalances(b), NEW m, LoopInv(b, m), ~More(m)
    PROVE  /\ \A u \in DOMAIN b :
                 /\ b[u] > 0 => /\ SentBy(m.transfers, u) = 0
                               /\ ReceivedBy(m.transfers, u) \in 0..b[u]
                 /\ b[u] <= 0 => /\ ReceivedBy(m.transfers, u) = 0
                                /\ SentBy(m.transfers, u) \in 0..(-b[u])
<1> SUFFICES ASSUME NEW u \in DOMAIN b
             PROVE  /\ b[u] > 0 => /\ SentBy(m.transfers, u) = 0
                                  /\ ReceivedBy(m.transfers, u) \in 0..b[u]
                    /\ b[u] <= 0 => /\ ReceivedBy(m.transfers, u) = 0
                                   /\ SentBy(m.transfers, u) \in 0..(-b[u])
  OBVIOUS
<1>1. PICK s, g : s = SentBy(m.transfers, u) /\ g = ReceivedBy(m.transfers, u) OBVIOUS
<1>2. /\ b[u] \in Int /\ s \in Nat /\ g \in Nat
      /\ b[u] >= -1 => s = 0
      /\ b[u] <= 0 => g = 0
  BY <1>1 DEF LoopInv, Books, WholeBalances
<1>3. ASSUME b[u] > 0 PROVE g <= b[u]
  <2>1. PICK k \in 1..Len(m.creditors) : m.creditors[k].user = u
    BY <1>3 DEF LoopInv, Books
  <2>2. g + m.creditors[k].amount = b[u] BY <1>1, <2>1 DEF LoopInv, Books
  <2>3. m.creditors[k].amount \in Nat
    <3>1. m.creditors \in Seq(Listing(DOMAIN b)) BY DEF LoopInv, LoopState
    <3>2. \A x \in Listing(DOMAIN b) : x.amount \in Nat BY DEF Listing
    <3> QED BY <3>1, <3>2
  <2> QED BY <1>2, <2>2, <2>3
<1>4. ASSUME b[u] < -1 PROVE s <= -b[u]
  <2>1. PICK k \in 1..Len(m.debtors) : m.debtors[k].user = u
    BY <1>4 DEF LoopInv, Books
  <2>2. s + m.debtors[k].amount = -b[u] BY <1>1, <2>1 DEF LoopInv, Books
  <2>3. m.debtors[k].amount \in Nat
    <3>1. m.debtors \in Seq(Listing(DOMAIN b)) BY DEF LoopInv, LoopState
    <3>2. \A x \in Listing(DOMAIN b) : x.amount \in Nat BY DEF Listing
    <3> QED BY <3>1, <3>2
  <2> QED BY <1>2, <2>2, <2>3
<1> QED BY <1>1, <1>2, <1>3, <1>4

\* At the end nobody in one of the lists has anything open.
LEMMA LoopEnds ==
    ASSUME NEW b, WholeBalances(b), NEW m, LoopInv(b, m), ~More(m)
    PROVE  /\ OpenIn(m.debtors) \in Nat /\ OpenIn(m.creditors) \in Nat
           /\ OpenIn(m.debtors) = 0 \/ OpenIn(m.creditors) = 0
           /\ OpenIn(m.creditors) - OpenIn(m.debtors) =
                 SumFunctionOnSet(b, DOMAIN b) + Cardinality(OneCentDebtors(b))
<1>1. PICK U, i, j, D, C, nd, nc, ds, cs :
        /\ U = DOMAIN b /\ i = m.i /\ j = m.j /\ D = m.debtors /\ C = m.creditors
        /\ nd = Len(D) /\ nc = Len(C)
        /\ ds = [k \in 1..nd |-> D[k].amount] /\ cs = [k \in 1..nc |-> C[k].amount]
  OBVIOUS
<1>2. /\ D \in Seq(Listing(U)) /\ C \in Seq(Listing(U)) /\ i \in Nat /\ j \in Nat
      /\ nd \in Nat /\ nc \in Nat
  <2>1. D \in Seq(Listing(U)) /\ C \in Seq(Listing(U)) /\ i \in Nat /\ j \in Nat
    BY <1>1 DEF LoopInv, LoopState
  <2> QED BY <1>1, <2>1
<1>3. /\ \A k \in 1..nd : D[k].amount \in Nat
      /\ \A k \in 1..nc : C[k].amount \in Nat
  <2>1. \A x \in Listing(U) : x.amount \in Nat BY DEF Listing
  <2> QED BY <1>1, <1>2, <2>1
<1>4. /\ \A k \in 1..i - 1 : D[k].amount = 0
      /\ \A k \in 1..j - 1 : C[k].amount = 0
      /\ OpenIn(C) - OpenIn(D) =
            SumFunctionOnSet(b, DOMAIN b) + Cardinality(OneCentDebtors(b))
  BY <1>1 DEF LoopInv, Rest
<1>5. OpenIn(D) = SumOf(ds) /\ OpenIn(C) = SumOf(cs) BY <1>1 DEF OpenIn
<1>6. /\ DOMAIN ds = 1..nd /\ \A k \in 1..nd : ds[k] = D[k].amount
      /\ DOMAIN cs = 1..nc /\ \A k \in 1..nc : cs[k] = C[k].amount
  BY <1>1
<1>7. SumOf(ds) \in Nat /\ SumOf(cs) \in Nat
  <2>1. \A k \in 1..nd : ds[k] \in Int /\ ds[k] >= 0 BY <1>3, <1>6
  <2>2. \A k \in 1..nc : cs[k] \in Int /\ cs[k] >= 0 BY <1>3, <1>6
  <2>3. SumOf(ds) \in Int /\ SumOf(ds) >= 0 BY <1>2, <1>6, <2>1, SumType
  <2>4. SumOf(cs) \in Int /\ SumOf(cs) >= 0 BY <1>2, <1>6, <2>2, SumType
  <2> QED BY <2>3, <2>4
<1>8. i > nd \/ j > nc BY <1>1, <1>2 DEF More
<1>9. CASE i > nd
  <2>1. \A k \in 1..nd : ds[k] = 0 BY <1>2, <1>4, <1>6, <1>9
  <2>2. SumOf(ds) = 0 BY <1>2, <1>6, <2>1, SumZero
  <2> QED BY <1>1, <1>4, <1>5, <1>7, <2>2
<1>10. CASE j > nc
  <2>1. \A k \in 1..nc : cs[k] = 0 BY <1>2, <1>4, <1>6, <1>10
  <2>2. SumOf(cs) = 0 BY <1>2, <1>6, <2>1, SumZero
  <2> QED BY <1>1, <1>4, <1>5, <1>7, <2>2
<1> QED BY <1>8, <1>9, <1>10

\* The recursive function of Plans exists.
LEMMA LoopExists ==
    ASSUME NEW m
    PROVE  \E f : f = [k \in Nat |-> IF k = 0 THEN m
                                     ELSE IF More(f[k-1]) THEN Match(f[k-1]) ELSE f[k-1]]
<1> DEFINE next(x) == IF More(x) THEN Match(x) ELSE x
           run(f, n) == f[0] = m /\ \A k \in 0..n-1 : f[k+1] = next(f[k])
           S == {n \in Nat : \E f : run(f, n)}
<1> HIDE DEF next
<1>1. 0 \in S
  <2>1. run([k \in {0} |-> m], 0) OBVIOUS
  <2> QED BY <2>1
<1>2. ASSUME NEW n \in Nat, n \in S PROVE n + 1 \in S
  <2>1. PICK f : run(f, n) BY <1>2
  <2> DEFINE g == [k \in 0..n+1 |-> IF k = n + 1 THEN next(f[n]) ELSE f[k]]
  <2>2. g[0] = m BY <2>1
  <2>3. ASSUME NEW k \in 0..n PROVE g[k+1] = next(g[k])
    <3>1. g[k] = f[k] OBVIOUS
    <3>2. CASE k = n BY <3>1, <3>2
    <3>3. CASE k \in 0..n-1
      <4>1. g[k+1] = f[k+1] BY <3>3
      <4> QED BY <2>1, <3>1, <3>3, <4>1
    <3> QED BY <3>2, <3>3
  <2> HIDE DEF g
  <2>4. run(g, n + 1) BY <2>2, <2>3
  <2> QED BY <2>4
<1>3. Nat \subseteq S
  <2> HIDE DEF S
  <2> QED BY <1>1, <1>2, Induction
<1>4. ASSUME NEW f, NEW g, NEW n \in Nat, run(f, n), run(g, n) PROVE f[n] = g[n]
  <2> DEFINE T == {k \in Nat : k <= n => f[k] = g[k]}
  <2>1. 0 \in T BY <1>4
  <2>2. ASSUME NEW k \in Nat, k \in T PROVE k + 1 \in T
    <3>1. CASE k + 1 <= n
      <4>1. k \in 0..n-1 /\ f[k] = g[k] BY <2>2, <3>1
      <4>2. f[k+1] = next(f[k]) /\ g[k+1] = next(g[k]) BY <1>4, <4>1
      <4> QED BY <4>1, <4>2
    <3>2. CASE ~(k + 1 <= n) BY <3>2
    <3> QED BY <3>1, <3>2
  <2>3. Nat \subseteq T
    <3> HIDE DEF T
    <3> QED BY <2>1, <2>2, Induction
  <2> QED BY <2>3
<1>5. PICK c : \A n \in Nat : run(c[n], n)
  <2> DEFINE d == [n \in Nat |-> CHOOSE f : run(f, n)]
  <2>1. \A n \in Nat : \E f : run(f, n) BY <1>3
  <2>2. \A n \in Nat : d[n] = CHOOSE f : run(f, n) OBVIOUS
  <2> HIDE DEF d, run
  <2>3. \A n \in Nat : run(d[n], n) BY <2>1, <2>2, Zenon
  <2> QED BY <2>3
<1>6. PICK f : f = [k \in Nat |-> c[k][k]] OBVIOUS
<1>7. f[0] = m BY <1>5, <1>6
<1>9. ASSUME NEW k \in Nat PROVE f[k+1] = next(f[k])
  <2>1. run(c[k], k) /\ run(c[k+1], k+1) BY <1>5
  <2>2. run(c[k+1], k) BY <2>1
  <2>3. c[k+1][k] = c[k][k]
    <3> HIDE DEF run
    <3> QED BY <1>4, <2>1, <2>2
  <2>4. c[k+1][k+1] = next(c[k+1][k]) BY <2>1
  <2> QED BY <1>6, <2>3, <2>4
<1>8. \A k \in Nat : f[k] = IF k = 0 THEN m ELSE next(f[k-1])
  <2> SUFFICES ASSUME NEW k \in Nat PROVE f[k] = IF k = 0 THEN m ELSE next(f[k-1]) OBVIOUS
  <2>1. CASE k = 0 BY <1>7, <2>1
  <2>2. CASE k # 0
    <3>1. k - 1 \in Nat /\ k = (k - 1) + 1 BY <2>2
    <3> QED BY <1>9, <2>2, <3>1
  <2> QED BY <2>1, <2>2
<1>10. f = [k \in Nat |-> IF k = 0 THEN m ELSE next(f[k-1])]
  BY <1>6, <1>8
<1> QED BY <1>10 DEF next

\* Every plan is what a finished loop has found: the function in Plans goes on long
\* enough, for each iteration finishes one of the people in the lists.
LEMMA PlansAreFinished ==
    ASSUME NEW b, WholeBalances(b), NEW plan \in Plans(b)
    PROVE  \E m : LoopInv(b, m) /\ ~More(m) /\ plan = m.transfers
<1> DEFINE Loop(f, m) == f = [k \in Nat |->
                              IF k = 0 THEN m
                              ELSE IF More(f[k-1]) THEN Match(f[k-1]) ELSE f[k-1]]
<1>1. PICK m \in Starts(b) :
        plan = (CHOOSE f : Loop(f, m))[Len(m.debtors) + Len(m.creditors)].transfers
  BY DEF Plans
<1>2. PICK f : f = CHOOSE g : Loop(g, m) OBVIOUS
<1>3. Loop(f, m)
  <2>1. \E g : Loop(g, m) BY LoopExists
  <2> HIDE DEF Loop
  <2> QED BY <1>2, <2>1
<1>4. LoopInv(b, m) /\ m.i = 1 /\ m.j = 1 BY <1>1, LoopStarts
<1>5. PICK nd, nc : nd = Len(m.debtors) /\ nc = Len(m.creditors) OBVIOUS
<1>6. nd \in Nat /\ nc \in Nat
  <2>1. \E U : m.debtors \in Seq(Listing(U)) /\ m.creditors \in Seq(Listing(U))
    BY <1>4 DEF LoopInv, LoopState
  <2> QED BY <1>5, <2>1
<1> DEFINE Fine(k, x) == /\ LoopInv(b, x)
                         /\ Len(x.debtors) = nd /\ Len(x.creditors) = nc
                         /\ ~More(x) \/ x.i + x.j >= k + 2
           S == {k \in Nat : Fine(k, f[k])}
<1>7. 0 \in S
  <2>1. f[0] = m BY <1>3
  <2> QED BY <1>4, <1>5, <2>1
<1>8. ASSUME NEW k \in Nat, k \in S PROVE k + 1 \in S
  <2>1. PICK x, y : x = f[k] /\ y = f[k+1] OBVIOUS
  <2>2. y = IF More(x) THEN Match(x) ELSE x BY <1>3, <2>1
  <2>3. Fine(k, x) BY <1>8, <2>1
  <2>4. CASE ~More(x)
    <3>1. Fine(k + 1, x) BY <2>3, <2>4
    <3>2. f[k+1] = x BY <2>1, <2>2, <2>4
    <3>3. Fine(k + 1, f[k+1]) BY <3>1, <3>2
    <3> HIDE DEF Fine, Loop
    <3> QED BY <3>3
  <2>5. CASE More(x)
    <3>1. y = Match(x) BY <2>2, <2>5
    <3>2. /\ LoopInv(b, y) /\ y.i + y.j > x.i + x.j
          /\ Len(y.debtors) = Len(x.debtors) /\ Len(y.creditors) = Len(x.creditors)
      BY <2>3, <2>5, <3>1, LoopGoesOn
    <3>3. x.i \in Nat /\ x.j \in Nat /\ y.i \in Nat /\ y.j \in Nat
      BY <2>3, <3>2 DEF LoopInv, LoopState
    <3>4. x.i + x.j >= k + 2 BY <2>3, <2>5
    <3>5. y.i + y.j >= (k + 1) + 2 BY <3>2, <3>3, <3>4
    <3>6. Fine(k + 1, y) BY <2>3, <3>2, <3>5
    <3> QED BY <2>1, <3>6
  <2> QED BY <2>4, <2>5
<1>9. Nat \subseteq S
  <2> HIDE DEF S
  <2> QED BY <1>7, <1>8, Induction
<1>10. PICK x : x = f[nd + nc] OBVIOUS
<1>11. Fine(nd + nc, x)
  <2>1. nd + nc \in Nat BY <1>6
  <2>2. nd + nc \in S
    <3> HIDE DEF S
    <3> QED BY <1>9, <2>1
  <2> QED BY <1>10, <2>2
<1>12. plan = x.transfers
  <2> HIDE DEF Loop, S, Fine
  <2> QED BY <1>1, <1>2, <1>5, <1>10
<1>13. ~More(x)
  <2>1. x.i \in Nat /\ x.j \in Nat /\ x.i <= nd + 1 /\ x.j <= nc + 1
    BY <1>11 DEF LoopInv, LoopState, CountsDown
  <2>2. SUFFICES ASSUME More(x) PROVE FALSE OBVIOUS
  <2>3. x.i + x.j >= (nd + nc) + 2 BY <1>11, <2>2
  <2>4. x.i <= nd /\ x.j <= nc BY <1>11, <2>2 DEF More
  <2> QED BY <1>6, <2>1, <2>3, <2>4
<1> QED BY <1>11, <1>12, <1>13
=============================================================================
