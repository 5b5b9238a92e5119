----------------------------- MODULE SumsProofs -----------------------------
(***************************************************************************)
(* What it takes to prove about sums and remainders.  Induction is used in *)
(* the form that every set of natural numbers has a least element, which   *)
(* is a statement about sets: theorem WFMin of WellFoundedInduction, for   *)
(* the order of the natural numbers.                                       *)
(***************************************************************************)
EXTENDS Sums, WellFoundedInduction, TLAPS

-----------------------------------------------------------------------------
(* Least elements *)

LessThan == {pair \in Nat \X Nat : pair[1] < pair[2]}

\* The order of the natural numbers, as a relation.
LEMMA LessThanIsWellFounded == IsWellFoundedOn(LessThan, Nat)
<1>1. OpToRel(<, Nat) = LessThan
  BY Zenon DEF OpToRel, LessThan
<1> QED BY <1>1, NatLessThanWellFounded

\* A set of natural numbers has a least element.
LEMMA LeastElement ==
  ASSUME NEW S, S \subseteq Nat, S # {}
  PROVE  \E least \in S : \A n \in S : least <= n
<1>1. PICK least \in S : \A n \in S : <<n, least>> \notin LessThan
  BY LessThanIsWellFounded, WFMin
<1>2. ASSUME NEW n \in S PROVE least <= n
  <2>1. least \in Nat /\ n \in Nat /\ <<n, least>> \in Nat \X Nat
    BY <1>1
  <2>2. ~(n < least)
    BY <1>1, <2>1 DEF LessThan
  <2> QED BY <2>1, <2>2
<1> QED BY <1>2

\* So does a set of integers from some number on, and one up to some number has a
\* greatest element.
LEMMA GreatestElement ==
  ASSUME NEW S, NEW bound \in Nat, S \subseteq 0..bound, S # {}
  PROVE  \E greatest \in S : \A n \in S : n <= greatest
<1> DEFINE T == {bound - n : n \in S}
<1>1. T \subseteq Nat /\ T # {}
  OBVIOUS
<1>2. PICK least \in T : \A n \in T : least <= n
  BY <1>1, LeastElement
<1>3. PICK greatest \in S : least = bound - greatest
  BY <1>2
<1>4. ASSUME NEW n \in S PROVE n <= greatest
  <2>1. least <= bound - n
    BY <1>2
  <2> QED BY <1>3, <2>1
<1> QED BY <1>4

\* What holds of 0, and of n + 1 if it holds of n, holds up to any number.
LEMMA UpTo ==
  ASSUME NEW S, NEW bound \in Nat, 0 \in S,
         \A n \in 0..(bound - 1) : n \in S => n + 1 \in S
  PROVE  0..bound \subseteq S
<1> DEFINE T == (0..bound) \ S
<1> SUFFICES ASSUME T # {} PROVE FALSE
  OBVIOUS
<1>1. PICK least \in T : \A n \in T : least <= n
  <2>1. T \subseteq Nat
    OBVIOUS
  <2> QED BY <2>1, LeastElement
<1>2. least \in 0..bound /\ least # 0
  BY <1>1
<1>3. least - 1 \in 0..(bound - 1) /\ least - 1 \in S
  BY <1>1, <1>2
<1>4. (least - 1) + 1 = least
  BY <1>2
<1>5. least \in S
  BY <1>3, <1>4
<1> QED BY <1>1, <1>5

\* The values of f go from the first one to the next with each step.
Goes(f, first, step, n) == f[0] = first /\ \A i \in 1..n : f[i] = step[i][f[i - 1]]

\* Such a function exists, if its values stay in a set.
LEMMA StepByStep ==
  ASSUME NEW S, NEW first \in S, NEW n \in Nat, NEW step,
         \A i \in 1..n : \A s \in S : step[i][s] \in S
  PROVE  \E f \in [0..n -> S] : Goes(f, first, step, n)
<1> DEFINE K == {m \in 0..n : \E f \in [0..m -> S] : Goes(f, first, step, m)}
<1>1. 0 \in K
  <2> DEFINE f == [i \in 0..0 |-> first]
  <2>1. f \in [0..0 -> S] /\ f[0] = first
    OBVIOUS
  <2>2. Goes(f, first, step, 0)
    BY <2>1 DEF Goes
  <2> QED BY <2>1, <2>2
<1>2. ASSUME NEW m \in 0..(n - 1), m \in K PROVE m + 1 \in K
  <2>1. PICK f \in [0..m -> S] : Goes(f, first, step, m)
    BY <1>2
  <2> DEFINE g == [i \in 0..(m + 1) |-> IF i = m + 1 THEN step[m + 1][f[m]] ELSE f[i]]
  <2>2. f[m] \in S /\ m + 1 \in 1..n /\ m + 1 \in 0..n
    OBVIOUS
  <2>3. step[m + 1][f[m]] \in S
    BY <2>2
  <2>4. g \in [0..(m + 1) -> S] /\ g[0] = first
    BY <2>1, <2>3 DEF Goes
  <2>5. ASSUME NEW i \in 1..(m + 1) PROVE g[i] = step[i][g[i - 1]]
    <3>1. CASE i = m + 1
      BY <3>1
    <3>2. CASE i # m + 1
      <4>1. i \in 1..m /\ i - 1 # m + 1 /\ i - 1 \in 0..(m + 1) /\ i \in 0..(m + 1)
        BY <3>2
      <4>2. g[i] = f[i] /\ g[i - 1] = f[i - 1]
        BY <3>2, <4>1
      <4> HIDE DEF g
      <4> QED BY <2>1, <4>1, <4>2 DEF Goes
    <3> QED BY <3>1, <3>2
  <2> HIDE DEF g
  <2>6. Goes(g, first, step, m + 1)
    BY <2>4, <2>5 DEF Goes
  <2> QED BY <2>2, <2>4, <2>6
<1>3. 0..n \subseteq K
  <2> HIDE DEF K
  <2> QED BY <1>1, <1>2, UpTo
<1>4. n \in K
  BY <1>3
<1> QED BY <1>4

-----------------------------------------------------------------------------
(* Sums *)

\* The function that SumTo defines.
IsSum(s, d, n) == s = [k \in 0..n |-> IF k = 0 THEN 0 ELSE s[k - 1] + d[k]]

\* There is only one.
LEMMA OneSum ==
  ASSUME NEW d, NEW n \in Nat, NEW s, NEW t, IsSum(s, d, n), IsSum(t, d, n)
  PROVE  s = t
<1> DEFINE Same == {k \in 0..n : s[k] = t[k]}
<1>1. \A k \in 0..n : /\ s[k] = IF k = 0 THEN 0 ELSE s[k - 1] + d[k]
                      /\ t[k] = IF k = 0 THEN 0 ELSE t[k - 1] + d[k]
  BY DEF IsSum
<1>2. 0 \in Same
  BY <1>1
<1>3. ASSUME NEW k \in 0..(n - 1), k \in Same PROVE k + 1 \in Same
  <2>1. k + 1 \in 0..n /\ k + 1 # 0 /\ (k + 1) - 1 = k
    OBVIOUS
  <2>2. s[k] = t[k]
    BY <1>3
  <2>3. s[k + 1] = s[k] + d[k + 1] /\ t[k + 1] = t[k] + d[k + 1]
    BY <1>1, <2>1
  <2> QED BY <2>1, <2>2, <2>3
<1> HIDE DEF Same
<1>4. 0..n \subseteq Same
  BY <1>2, <1>3, UpTo
<1>5. \A k \in 0..n : s[k] = t[k]
  BY <1>4 DEF Same
<1>6. s = [k \in 0..n |-> s[k]] /\ t = [k \in 0..n |-> t[k]]
  BY DEF IsSum
<1> QED BY <1>5, <1>6

\* The numbers g[0], ..., g[n] add up those of d.
AddsUp(g, d, n) == g[0] = 0 /\ \A k \in 1..n : g[k] = g[k - 1] + d[k]

\* Whatever adds up like the sum is the sum.
LEMMA SumIs ==
  ASSUME NEW d, NEW n \in Nat, NEW g, AddsUp(g, d, n)
  PROVE  \A k \in 0..n : SumTo(d, k) = g[k]
<1> SUFFICES ASSUME NEW m \in 0..n PROVE SumTo(d, m) = g[m]
  OBVIOUS
<1> DEFINE s == [k \in 0..m |-> g[k]]
           sum == CHOOSE t : IsSum(t, d, m)
<1>1. IsSum(s, d, m)
  <2>1. ASSUME NEW k \in 0..m
        PROVE  g[k] = IF k = 0 THEN 0 ELSE s[k - 1] + d[k]
    <3>1. CASE k = 0
      BY <3>1 DEF AddsUp
    <3>2. CASE k # 0
      <4>1. k \in 1..n /\ k - 1 \in 0..m
        BY <3>2
      <4> QED BY <3>2, <4>1 DEF AddsUp
    <3> QED BY <3>1, <3>2
  <2> QED BY <2>1 DEF IsSum
<1>2. IsSum(sum, d, m)
  BY <1>1
<1> HIDE DEF sum
<1>3. sum = s
  BY <1>1, <1>2, OneSum
<1>4. SumTo(d, m) = sum[m]
  BY DEF SumTo, sum, IsSum
<1> QED BY <1>3, <1>4

\* Sums of natural numbers exist.
LEMMA SumExists ==
  ASSUME NEW d, NEW n \in Nat, \A k \in 1..n : d[k] \in Nat
  PROVE  \E g \in [0..n -> Nat] : AddsUp(g, d, n)
<1> DEFINE S == {m \in 0..n : \E g \in [0..m -> Nat] : AddsUp(g, d, m)}
<1>1. 0 \in S
  <2> DEFINE g == [k \in 0..0 |-> 0]
  <2>1. g \in [0..0 -> Nat] /\ g[0] = 0
    OBVIOUS
  <2>2. AddsUp(g, d, 0)
    BY <2>1 DEF AddsUp
  <2> QED BY <2>1, <2>2
<1>2. ASSUME NEW m \in 0..(n - 1), m \in S PROVE m + 1 \in S
  <2>1. PICK g \in [0..m -> Nat] : AddsUp(g, d, m)
    BY <1>2
  <2> DEFINE h == [k \in 0..(m + 1) |-> IF k = m + 1 THEN g[m] + d[m + 1] ELSE g[k]]
  <2>2. d[m + 1] \in Nat /\ g[m] \in Nat
    OBVIOUS
  <2>3. h \in [0..(m + 1) -> Nat]
    BY <2>2
  <2>4. h[0] = 0
    BY <2>1 DEF AddsUp
  <2>5. ASSUME NEW k \in 1..(m + 1) PROVE h[k] = h[k - 1] + d[k]
    <3>1. CASE k = m + 1
      BY <3>1
    <3>2. CASE k # m + 1
      <4>1. k \in 1..m /\ k - 1 # m + 1
        BY <3>2
      <4> QED BY <2>1, <4>1 DEF AddsUp
    <3> QED BY <3>1, <3>2
  <2> HIDE DEF h
  <2>6. AddsUp(h, d, m + 1)
    BY <2>4, <2>5 DEF AddsUp
  <2>7. m + 1 \in 0..n
    OBVIOUS
  <2> QED BY <2>3, <2>6, <2>7
<1> HIDE DEF S
<1>3. 0..n \subseteq S
  BY <1>1, <1>2, UpTo
<1>4. n \in S
  BY <1>3
<1> QED BY <1>4 DEF S

\* The sum of no number, and of one number more.
LEMMA SumNext ==
  ASSUME NEW d, NEW n \in Nat, \A k \in 1..n : d[k] \in Nat
  PROVE  /\ SumTo(d, n) \in Nat
         /\ n = 0 => SumTo(d, n) = 0
         /\ n # 0 => SumTo(d, n) = SumTo(d, n - 1) + d[n]
<1>1. PICK g \in [0..n -> Nat] : AddsUp(g, d, n)
  BY SumExists
<1>2. \A k \in 0..n : SumTo(d, k) = g[k]
  BY <1>1, SumIs
<1>3. n \in 0..n /\ (n # 0 => n \in 1..n /\ n - 1 \in 0..n)
  OBVIOUS
<1> QED BY <1>1, <1>2, <1>3 DEF AddsUp

\* Sums of the same numbers are the same.
LEMMA SumOfSame ==
  ASSUME NEW d, NEW e, NEW n \in Nat, \A k \in 1..n : d[k] \in Nat /\ e[k] = d[k]
  PROVE  SumTo(e, n) = SumTo(d, n)
<1>1. PICK g \in [0..n -> Nat] : AddsUp(g, d, n)
  BY SumExists
<1>2. AddsUp(g, e, n)
  BY <1>1 DEF AddsUp
<1>3. SumTo(d, n) = g[n] /\ SumTo(e, n) = g[n]
  BY <1>1, <1>2, SumIs
<1> QED BY <1>3

-----------------------------------------------------------------------------
(* Division *)

\* A number is what its quotient and its remainder make up.
LEMMA Division ==
  ASSUME NEW a \in Nat, NEW b \in Nat \ {0}
  PROVE  /\ a \div b \in Nat /\ a % b \in Nat
         /\ a % b < b /\ a % b <= a
         /\ a = (a \div b) * b + (a % b)
<1>1. a \div b \in Int /\ a % b \in Int
  OBVIOUS
<1>2. 0 <= a % b /\ a % b < b
  OBVIOUS
<1>3. a = (a \div b) * b + (a % b)
  OBVIOUS
<1>4. a \div b >= 0
  OBVIOUS
<1>5. (a \div b) * b >= 0
  BY <1>1, <1>4
<1> QED BY <1>1, <1>2, <1>3, <1>4, <1>5

\* What is left over from a multiple.
LEMMA RemainderOfMultiple ==
  ASSUME NEW q \in Nat, NEW r \in Nat, NEW n \in Nat \ {0}, r < n
  PROVE  (q * n + r) % n = r
OBVIOUS

\* Adding to the remainder is adding modulo n.
LEMMA RemainderOfSum ==
  ASSUME NEW a \in Nat, NEW b \in Nat, NEW n \in Nat \ {0}
  PROVE  ((a % n) + b) % n = (a + b) % n
<1> DEFINE r == a % n
           q == a \div n
           s == (r + b) % n
           p == (r + b) \div n
<1>1. q \in Nat /\ r \in Nat /\ a = q * n + r
  BY Division
<1> HIDE DEF q, r
<1>2. p \in Nat /\ s \in Nat /\ s < n /\ r + b = p * n + s
  <2>1. r + b \in Nat
    BY <1>1
  <2> QED BY <2>1, Division
<1> HIDE DEF p
<1>3. a + b = (q + p) * n + s
  <2>1. (q + p) * n = q * n + p * n /\ q * n \in Nat /\ p * n \in Nat
    BY <1>1, <1>2
  <2> HIDE DEF s
  <2> QED BY <1>1, <1>2, <2>1
<1>4. ((q + p) * n + s) % n = s
  <2>1. q + p \in Nat
    BY <1>1, <1>2
  <2> HIDE DEF s
  <2> QED BY <1>2, <2>1, RemainderOfMultiple
<1> QED BY <1>3, <1>4 DEF r, s
=============================================================================
