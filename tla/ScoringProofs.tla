--------------------------- MODULE ScoringProofs ---------------------------
(***************************************************************************)
(* The score of an incident, for every sequence of alerts: it is a score,  *)
(* it is that of the only alert when there is one, and it never falls.     *)
(*                                                                         *)
(* The first part proves induction and recursion over the natural numbers  *)
(* in a form with sets and functions in place of operators.                *)
(***************************************************************************)
EXTENDS Scoring, WellFoundedInduction, TLAPS

Smaller == {p \in Nat \X Nat : p[1] < p[2]}

LEMMA SmallerIsWellFounded == IsWellFoundedOn(Smaller, Nat)
  <1>1. OpToRel(<, Nat) = Smaller
    BY DEF OpToRel, Smaller
  <1> QED BY <1>1, NatLessThanWellFounded

(* Induction: a set with 0 and the successors of its numbers has them all. *)
LEMMA Induction ==
    ASSUME NEW S, 0 \in S, \A n \in Nat : n \in S => n + 1 \in S
    PROVE  Nat \subseteq S
  <1> DEFINE T == Nat \ S
  <1> SUFFICES ASSUME T # {} PROVE FALSE
    OBVIOUS
  <1>1. PICK x \in T : \A y \in T : ~ (<<y, x>> \in Smaller)
    <2>1. T \subseteq Nat
      OBVIOUS
    <2> HIDE DEF T
    <2> QED BY <2>1, SmallerIsWellFounded, WFMin
  <1>2. x # 0 /\ x - 1 \in Nat /\ x - 1 < x
    OBVIOUS
  <1>3. <<x - 1, x>> \in Smaller
    BY <1>2 DEF Smaller
  <1>4. x - 1 \in S
    BY <1>1, <1>2, <1>3
  <1>5. (x - 1) + 1 \in S
    BY <1>2, <1>4
  <1> QED BY <1>5

(* The steps of a recursion: the next value from the number and the last.  *)
Steps(V, F) == F \in [Nat -> [V -> V]]

(* The beginnings, up to n, of the function that starts with v and goes on *)
(* with F, and the function.                                               *)
Beginning(n, g, V, v, F) ==
    /\ g \in [0 .. n -> V]
    /\ g[0] = v
    /\ \A i \in 0 .. n - 1 : g[i + 1] = F[i][g[i]]

Whole(g, V, v, F) ==
    /\ g \in [Nat -> V]
    /\ g[0] = v
    /\ \A i \in Nat : g[i + 1] = F[i][g[i]]

LEMMA BeginningsAgree ==
    ASSUME NEW V, NEW v, NEW F, NEW n \in Nat, NEW g, NEW h,
           Beginning(n, g, V, v, F), Beginning(n + 1, h, V, v, F)
    PROVE  g[n] = h[n]
  <1> DEFINE S == {i \in Nat : i <= n => g[i] = h[i]}
  <1>1. 0 \in S
    BY DEF Beginning
  <1>2. ASSUME NEW i \in Nat, i \in S PROVE i + 1 \in S
    <2> SUFFICES ASSUME i + 1 <= n PROVE g[i + 1] = h[i + 1]
      OBVIOUS
    <2>1. i \in 0 .. n - 1 /\ i \in 0 .. (n + 1) - 1 /\ g[i] = h[i]
      BY <1>2
    <2> QED BY <2>1 DEF Beginning
  <1>3. Nat \subseteq S
    <2> HIDE DEF S
    <2> QED BY <1>1, <1>2, Induction
  <1> QED BY <1>3

LEMMA BeginningsExist ==
    ASSUME NEW V, NEW v \in V, NEW F, Steps(V, F), NEW n \in Nat
    PROVE  \E g : Beginning(n, g, V, v, F)
  <1> DEFINE S == {k \in Nat : \E g : Beginning(k, g, V, v, F)}
  <1>1. 0 \in S
    <2>1. Beginning(0, [i \in 0 .. 0 |-> v], V, v, F)
      BY DEF Beginning
    <2> QED BY <2>1
  <1>2. ASSUME NEW k \in Nat, k \in S PROVE k + 1 \in S
    <2>1. PICK g : Beginning(k, g, V, v, F)
      BY <1>2
    <2> DEFINE h == [i \in 0 .. k + 1 |-> IF i <= k THEN g[i] ELSE F[k][g[k]]]
    <2>2. g[k] \in V /\ F[k][g[k]] \in V
      BY <2>1 DEF Beginning, Steps
    <2>3. h \in [0 .. k + 1 -> V]
      BY <2>1, <2>2 DEF Beginning
    <2>4. h[0] = v
      BY <2>1 DEF Beginning
    <2>5. ASSUME NEW i \in 0 .. (k + 1) - 1 PROVE h[i + 1] = F[i][h[i]]
      <3>1. CASE i = k
        BY <3>1
      <3>2. CASE i # k
        <4>1. i \in 0 .. k - 1 /\ i + 1 <= k /\ i + 1 \in 0 .. k + 1
          BY <3>2
        <4> QED BY <2>1, <4>1 DEF Beginning
      <3> QED BY <3>1, <3>2
    <2>6. Beginning(k + 1, h, V, v, F)
      BY <2>3, <2>4, <2>5 DEF Beginning
    <2> QED BY <2>6
  <1>3. Nat \subseteq S
    <2> HIDE DEF S
    <2> QED BY <1>1, <1>2, Induction
  <1> QED BY <1>3

(* A function that goes on with F from every value of V is its beginning.  *)
LEMMA BeginningUpTo ==
    ASSUME NEW V, NEW v \in V, NEW F, Steps(V, F), NEW n \in Nat, NEW T,
           T = [i \in 0 .. n |-> T[i]], T[0] = v,
           \A i \in 0 .. n - 1 : T[i] \in V => T[i + 1] = F[i][T[i]]
    PROVE  Beginning(n, T, V, v, F)
  <1> DEFINE S == {i \in Nat : i <= n => T[i] \in V}
  <1>1. ASSUME NEW i \in Nat, i \in S PROVE i + 1 \in S
    <2> SUFFICES ASSUME i + 1 <= n PROVE T[i + 1] \in V
      OBVIOUS
    <2>1. i \in 0 .. n - 1 /\ T[i] \in V
      BY <1>1
    <2>2. F[i][T[i]] \in V
      BY <2>1 DEF Steps
    <2> QED BY <2>1, <2>2
  <1>2. Nat \subseteq S
    <2>1. 0 \in S
      OBVIOUS
    <2> HIDE DEF S
    <2> QED BY <1>1, <2>1, Induction
  <1>3. \A i \in 0 .. n : T[i] \in V
    BY <1>2
  <1>4. T \in [0 .. n -> V]
    BY <1>3
  <1> QED BY <1>3, <1>4 DEF Beginning

(* Recursion: the function exists.                                         *)
LEMMA Recursion ==
    ASSUME NEW V, NEW v \in V, NEW F, Steps(V, F)
    PROVE  \E g : Whole(g, V, v, F)
  <1> DEFINE B(n) == CHOOSE g : Beginning(n, g, V, v, F)
  <1>1. \A n \in Nat : Beginning(n, B(n), V, v, F)
    BY BeginningsExist
  <1> HIDE DEF B
  <1> DEFINE f == [n \in Nat |-> B(n)[n]]
  <1>2. f \in [Nat -> V]
    BY <1>1 DEF Beginning
  <1>3. f[0] = v
    BY <1>1 DEF Beginning
  <1>4. ASSUME NEW n \in Nat PROVE f[n + 1] = F[n][f[n]]
    <2> HIDE DEF f
    <2>1. B(n + 1)[n] = B(n)[n]
      <3>1. n + 1 \in Nat
        OBVIOUS
      <3>2. Beginning(n, B(n), V, v, F) /\ Beginning(n + 1, B(n + 1), V, v, F)
        BY <1>1, <3>1
      <3> QED BY <3>2, BeginningsAgree
    <2>2. B(n + 1)[n + 1] = F[n][B(n + 1)[n]]
      <3>1. Beginning(n + 1, B(n + 1), V, v, F)
        BY <1>1
      <3> QED BY <3>1 DEF Beginning
    <2> QED BY <2>1, <2>2 DEF f
  <1>5. Whole(f, V, v, F)
    BY <1>2, <1>3, <1>4 DEF Whole
  <1> QED BY <1>5

-----------------------------------------------------------------------------
(* Arithmetic.                                                             *)

LEMMA Product ==
    ASSUME NEW a \in Nat, NEW b \in Nat, NEW c \in Nat, a <= b
    PROVE  a * c \in Nat /\ a * c <= b * c
  OBVIOUS

LEMMA Positive ==
    ASSUME NEW a \in Nat \ {0}, NEW b \in Nat \ {0}
    PROVE  a * b \in Nat \ {0}
  <1>1. 1 * b <= a * b /\ a * b \in Nat
    BY Product
  <1> QED BY <1>1

LEMMA Quotient ==
    ASSUME NEW a \in Nat, NEW b \in Nat \ {0}
    PROVE  /\ a \div b \in Nat
           /\ b * (a \div b) <= a
           /\ a < b * ((a \div b) + 1)
  OBVIOUS

LEMMA QuotientAtLeast ==
    ASSUME NEW a \in Nat, NEW b \in Nat \ {0}, NEW k \in Nat, b * k <= a
    PROVE  k <= a \div b
  <1> DEFINE d == a \div b
  <1>1. d \in Nat /\ a < b * (d + 1)
    BY Quotient
  <1> HIDE DEF d
  <1> SUFFICES ASSUME d + 1 <= k PROVE FALSE
    BY <1>1 DEF d
  <1>2. (d + 1) * b <= k * b
    BY <1>1, Product
  <1>3. (d + 1) * b = b * (d + 1) /\ k * b = b * k
    BY <1>1
  <1>4. b * (d + 1) \in Nat /\ b * k \in Nat
    BY <1>1
  <1> QED BY <1>1, <1>2, <1>3, <1>4

LEMMA ClampedRange ==
    ASSUME NEW p \in Nat, NEW q \in Nat \ {0}
    PROVE  Clamped(p, q) \in 0 .. 100
  <1>1. Rounded(p, q) \in Nat /\ (2 * q) * Rounded(p, q) <= 2 * p + q
    BY Quotient DEF Rounded
  <1> DEFINE r == Rounded(p, q)
  <1> SUFFICES ASSUME p < 100 * q, r >= 101 PROVE FALSE
    BY <1>1 DEF Clamped
  <1> HIDE DEF r
  <1>2. r \in Nat /\ (2 * q) * r <= 2 * p + q
    BY <1>1 DEF r
  <1>3. 101 * (2 * q) <= r * (2 * q)
    BY <1>2, Product
  <1>4. r * (2 * q) = (2 * q) * r
    BY <1>2
  <1> QED BY <1>2, <1>3, <1>4

(* A larger fraction is not rounded to a smaller number.                   *)
LEMMA ClampedMonotone ==
    ASSUME NEW p1 \in Nat, NEW q1 \in Nat \ {0}, NEW p2 \in Nat, NEW q2 \in Nat \ {0},
           p1 * q2 <= p2 * q1
    PROVE  Clamped(p1, q1) <= Clamped(p2, q2)
  <1>1. CASE p2 >= 100 * q2
    <2>1. Clamped(p2, q2) = 100
      BY <1>1 DEF Clamped
    <2>2. Clamped(p1, q1) \in 0 .. 100
      BY ClampedRange
    <2> QED BY <2>1, <2>2
  <1>2. CASE p2 < 100 * q2
    <2>1. p1 < 100 * q1
      <3> SUFFICES ASSUME 100 * q1 <= p1 PROVE FALSE
        OBVIOUS
      <3>1. (100 * q1) * q2 <= p1 * q2
        BY Product
      <3>2. (p2 + 1) * q1 <= (100 * q2) * q1
        BY <1>2, Product
      <3>3. (p2 + 1) * q1 = p2 * q1 + q1 /\ (100 * q2) * q1 = (100 * q1) * q2
        OBVIOUS
      <3>4. p1 * q2 \in Nat /\ p2 * q1 \in Nat /\ (100 * q1) * q2 \in Nat
        OBVIOUS
      <3> QED BY <3>1, <3>2, <3>3, <3>4
    <2> DEFINE r1 == Rounded(p1, q1)
               r2 == Rounded(p2, q2)
    <2>2. Clamped(p1, q1) = r1 /\ Clamped(p2, q2) = r2
      BY <1>2, <2>1 DEF Clamped
    <2>3. r1 \in Nat /\ (2 * q1) * r1 <= 2 * p1 + q1
      <3>1. 2 * p1 + q1 \in Nat /\ 2 * q1 \in Nat \ {0}
        OBVIOUS
      <3> QED BY <3>1, Quotient DEF Rounded
    <2> SUFFICES r1 <= r2
      BY <2>2
    <2>4. (2 * q2) * r1 <= 2 * p2 + q2
      <3> HIDE DEF r1
      <3>1. ((2 * q1) * r1) * q2 <= (2 * p1 + q1) * q2
        BY <2>3, Product
      <3>2. (2 * p1 + q1) * q2 <= (2 * p2 + q2) * q1
        <4>1. (2 * p1 + q1) * q2 = 2 * (p1 * q2) + q1 * q2
          OBVIOUS
        <4>2. (2 * p2 + q2) * q1 = 2 * (p2 * q1) + q1 * q2
          OBVIOUS
        <4>3. p1 * q2 \in Nat /\ p2 * q1 \in Nat /\ q1 * q2 \in Nat
          OBVIOUS
        <4> QED BY <4>1, <4>2, <4>3
      <3>3. ((2 * q1) * r1) * q2 = ((2 * q2) * r1) * q1
        BY <2>3
      <3> DEFINE x == (2 * q2) * r1
                 y == 2 * p2 + q2
      <3>4. x * q1 <= y * q1
        BY <3>1, <3>2, <3>3, <2>3
      <3>5. x \in Nat /\ y \in Nat
        BY <2>3
      <3> HIDE DEF x, y
      <3>6. x <= y
        <4> SUFFICES ASSUME y + 1 <= x PROVE FALSE
          BY <3>5
        <4>1. (y + 1) * q1 <= x * q1
          BY <3>5, Product
        <4>2. (y + 1) * q1 = y * q1 + q1 /\ y * q1 \in Nat /\ x * q1 \in Nat
          BY <3>5
        <4> QED BY <3>4, <4>1, <4>2
      <3> QED BY <3>6 DEF x, y
    <2>5. 2 * q2 \in Nat \ {0} /\ 2 * p2 + q2 \in Nat
      OBVIOUS
    <2> QED BY <2>3, <2>4, <2>5, QuotientAtLeast DEF Rounded
  <1> QED BY <1>1, <1>2

-----------------------------------------------------------------------------
(* The recursive functions of Scoring exist, so their equations hold.      *)

LEMMA DenominatorEquation ==
    /\ Denominator \in [Nat -> Nat \ {0}]
    /\ Denominator[0] = 1 /\ Denominator[1] = 1
    /\ \A n \in Nat \ {0} : Denominator[n + 1] = Denominator[n] * (10 + 3 * n)
  <1> DEFINE V == Nat \ {0}
             F == [i \in Nat |-> [x \in V |-> IF i = 0 THEN 1 ELSE x * (10 + 3 * i)]]
             Equation(g) ==
                 g = [n \in Nat |-> IF n <= 1 THEN 1 ELSE g[n - 1] * (10 + 3 * (n - 1))]
  <1>1. Steps(V, F)
    <2> USE DEF Steps
    <2> SUFFICES ASSUME NEW i \in Nat, NEW x \in V PROVE x * (10 + 3 * i) \in V
      OBVIOUS
    <2>1. 10 + 3 * i \in Nat \ {0}
      OBVIOUS
    <2> QED BY <2>1, Positive
  <1>2. PICK g : Whole(g, V, 1, F)
    <2>1. 1 \in V
      OBVIOUS
    <2> HIDE DEF V, F
    <2> QED BY <1>1, <2>1, Recursion, Zenon
  <1> USE DEF Whole
  <1>3. ASSUME NEW n \in Nat, ~ (n <= 1) PROVE g[n] = g[n - 1] * (10 + 3 * (n - 1))
    <2>1. n - 1 \in Nat /\ n - 1 # 0 /\ (n - 1) + 1 = n
      BY <1>3
    <2>2. g[(n - 1) + 1] = F[n - 1][g[n - 1]] /\ g[n - 1] \in V
      BY <1>2, <2>1
    <2> QED BY <2>1, <2>2
  <1>4. g[1] = 1
    <2>1. g[0 + 1] = F[0][g[0]]
      BY <1>2
    <2> QED BY <1>2, <2>1
  <1>5. Equation(g)
    BY <1>2, <1>3, <1>4
  <1>6. Denominator = CHOOSE h : Equation(h)
    BY DEF Denominator
  <1>7. Equation(Denominator)
    <2> HIDE DEF Equation
    <2> QED BY <1>5, <1>6
  <1> QED
    <2> DEFINE S == {n \in Nat : Denominator[n] \in V}
    <2>1. Denominator[0] = 1 /\ Denominator[1] = 1
      BY <1>7
    <2>2. ASSUME NEW n \in Nat \ {0} PROVE Denominator[n + 1] = Denominator[n] * (10 + 3 * n)
      BY <1>7
    <2>3. ASSUME NEW n \in Nat, n \in S PROVE n + 1 \in S
      <3>1. CASE n = 0
        BY <2>1, <3>1
      <3>2. CASE n # 0
        <4>1. 10 + 3 * n \in Nat \ {0} /\ Denominator[n] \in Nat \ {0}
          BY <2>3
        <4>2. Denominator[n] * (10 + 3 * n) \in Nat \ {0}
          BY <4>1, Positive
        <4> QED BY <2>2, <3>2, <4>2
      <3> QED BY <3>1, <3>2
    <2>4. Nat \subseteq S
      <3>1. 0 \in S
        BY <2>1
      <3> HIDE DEF S
      <3> QED BY <2>3, <3>1, Induction
    <2> QED BY <1>7, <2>1, <2>2, <2>4

(* The total of one alert more, from the total of n.                       *)
NextTotal(scores, n, total) ==
    total * (10 + 3 * n) + scores[n + 1] * 10 * Denominator[n]

LEMMA NextTotalType ==
    ASSUME NEW scores \in Seq(Nat), NEW n \in Nat, n < Len(scores), NEW total \in Nat
    PROVE  NextTotal(scores, n, total) \in Nat
  <1>1. scores[n + 1] \in Nat
    OBVIOUS
  <1>2. Denominator[n] \in Nat
    BY DenominatorEquation
  <1> DEFINE s == scores[n + 1]
             d == Denominator[n]
  <1> HIDE DEF s, d
  <1>3. total * (10 + 3 * n) \in Nat
    BY Product
  <1>4. s \in Nat /\ d \in Nat
    BY <1>1, <1>2 DEF s, d
  <1>5. s * 10 * d \in Nat
    BY <1>4, Product
  <1>6. NextTotal(scores, n, total) = total * (10 + 3 * n) + s * 10 * d
    BY DEF NextTotal, s, d
  <1>7. ASSUME NEW a \in Nat, NEW b \in Nat PROVE a + b \in Nat
    OBVIOUS
  <1> QED BY <1>3, <1>5, <1>6, <1>7, Zenon

LEMMA TotalsEquation ==
    ASSUME NEW scores \in Seq(Nat)
    PROVE  /\ Totals(scores) \in [0 .. Len(scores) -> Nat]
           /\ Totals(scores)[0] = 0
           /\ Len(scores) >= 1 => Totals(scores)[1] = scores[1]
           /\ \A n \in 1 .. Len(scores) - 1 :
                  Totals(scores)[n + 1] = NextTotal(scores, n, Totals(scores)[n])
  <1> DEFINE N == Len(scores)
             V == Nat
             F == [i \in Nat |-> [x \in V |->
                     IF i >= N THEN 0 ELSE IF i = 0 THEN scores[1] ELSE NextTotal(scores, i, x)]]
             Equation(g) ==
                 g = [n \in 0 .. N |->
                         CASE n = 0 -> 0
                           [] n = 1 -> scores[1]
                           [] OTHER -> g[n - 1] * (10 + 3 * (n - 1))
                                           + scores[n] * 10 * Denominator[n - 1]]
             T == Totals(scores)
  <1>1. N \in Nat /\ (N >= 1 => scores[1] \in Nat)
    OBVIOUS
  <1>2. \A i, x \in Nat : i < N => NextTotal(scores, i, x) \in Nat
    BY NextTotalType
  <1>3. T = CHOOSE g : Equation(g)
    BY DEF Totals
  <1>4. ASSUME NEW n \in 0 .. N, n # 0, NEW total
        PROVE  NextTotal(scores, n - 1, total)
                   = total * (10 + 3 * (n - 1)) + scores[n] * 10 * Denominator[n - 1]
    BY <1>1, <1>4 DEF NextTotal
  <1> HIDE DEF N
  <1>5. Steps(V, F)
    BY <1>1, <1>2 DEF Steps
  <1>6. 0 \in V
    OBVIOUS
  <1>7. ASSUME NEW i \in 0 .. N - 1, NEW x \in V
        PROVE  F[i][x] = IF i = 0 THEN scores[1] ELSE NextTotal(scores, i, x)
    BY <1>1, <1>7
  <1> HIDE DEF F, V
  <1>8. PICK g : Beginning(N, g, V, 0, F)
    BY <1>1, <1>5, <1>6, BeginningsExist, Zenon
  <1>9. \A n \in 0 .. N : n # 0 =>
           g[n] = IF n = 1 THEN scores[1] ELSE NextTotal(scores, n - 1, g[n - 1])
    <2> SUFFICES ASSUME NEW n \in 0 .. N, n # 0
                 PROVE  g[n] = IF n = 1 THEN scores[1] ELSE NextTotal(scores, n - 1, g[n - 1])
      OBVIOUS
    <2>1. n - 1 \in 0 .. N - 1 /\ (n - 1) + 1 = n /\ n - 1 \in 0 .. N
      BY <1>1
    <2>2. g[(n - 1) + 1] = F[n - 1][g[n - 1]] /\ g[n - 1] \in V
      BY <1>8, <2>1 DEF Beginning
    <2> QED BY <1>7, <2>1, <2>2
  <1>10. Equation(g)
    <2>1. g = [n \in 0 .. N |-> g[n]] /\ g[0] = 0
      BY <1>8 DEF Beginning
    <2>2. ASSUME NEW n \in 0 .. N
          PROVE  g[n] = CASE n = 0 -> 0
                          [] n = 1 -> scores[1]
                          [] OTHER -> g[n - 1] * (10 + 3 * (n - 1))
                                           + scores[n] * 10 * Denominator[n - 1]
      <3>1. CASE n = 0
        BY <2>1, <3>1
      <3>2. CASE n = 1
        BY <1>9, <2>2, <3>2
      <3>3. CASE n # 0 /\ n # 1
        <4>1. g[n] = NextTotal(scores, n - 1, g[n - 1])
          BY <1>9, <2>2, <3>3
        <4>2. g[n] = g[n - 1] * (10 + 3 * (n - 1)) + scores[n] * 10 * Denominator[n - 1]
          BY <1>4, <2>2, <3>3, <4>1
        <4> QED BY <3>3, <4>2
      <3> QED BY <3>1, <3>2, <3>3
    <2> QED BY <2>1, <2>2
  <1>11. Equation(T)
    <2> HIDE DEF Equation, T
    <2> QED BY <1>3, <1>10
  <1> HIDE DEF T
  <1>12. T = [n \in 0 .. N |-> T[n]] /\ T[0] = 0
    BY <1>1, <1>11
  <1>13. ASSUME NEW n \in 0 .. N - 1
         PROVE  T[n + 1] = IF n = 0 THEN scores[1] ELSE NextTotal(scores, n, T[n])
    <2>1. n + 1 \in 0 .. N /\ n + 1 # 0 /\ (n + 1) - 1 = n /\ (n + 1 = 1 <=> n = 0)
      BY <1>1
    <2>2. T[n + 1] = CASE n + 1 = 0 -> 0
                       [] n + 1 = 1 -> scores[1]
                       [] OTHER -> T[(n + 1) - 1] * (10 + 3 * ((n + 1) - 1))
                                           + scores[n + 1] * 10 * Denominator[(n + 1) - 1]
      BY <1>11, <2>1
    <2>3. NextTotal(scores, n, T[n])
              = T[(n + 1) - 1] * (10 + 3 * ((n + 1) - 1))
                                           + scores[n + 1] * 10 * Denominator[(n + 1) - 1]
      BY <2>1 DEF NextTotal
    <2> QED BY <2>1, <2>2, <2>3
  <1>14. Beginning(N, T, V, 0, F)
    <2>1. \A i \in 0 .. N - 1 : T[i] \in V => T[i + 1] = F[i][T[i]]
      BY <1>7, <1>13
    <2> QED BY <1>1, <1>5, <1>6, <1>12, <2>1, BeginningUpTo
  <1>15. T \in [0 .. N -> Nat]
    BY <1>14 DEF Beginning, V
  <1>16. N >= 1 => T[1] = scores[1]
    <2>1. N >= 1 => 0 \in 0 .. N - 1 /\ 0 + 1 = 1
      BY <1>1
    <2> QED BY <1>13, <2>1
  <1>17. \A n \in 1 .. N - 1 : T[n + 1] = NextTotal(scores, n, T[n])
    <2>1. \A n \in 1 .. N - 1 : n \in 0 .. N - 1 /\ n # 0
      BY <1>1
    <2> QED BY <1>13, <2>1
  <1> QED BY <1>12, <1>15, <1>16, <1>17 DEF T, N

(* The totals do not depend on the alerts that follow.                     *)
LEMMA TotalsAppend ==
    ASSUME NEW scores \in Seq(Nat), NEW s \in Nat, NEW n \in 0 .. Len(scores)
    PROVE  Totals(Append(scores, s))[n] = Totals(scores)[n]
  <1> DEFINE longer == Append(scores, s)
             N == Len(scores)
             T == Totals(scores)
             U == Totals(longer)
             S == {i \in Nat : i <= N => U[i] = T[i]}
  <1>1. longer \in Seq(Nat) /\ Len(longer) = N + 1 /\ N \in Nat
        /\ \A i \in 1 .. N : longer[i] = scores[i]
    OBVIOUS
  <1>2. T[0] = 0 /\ U[0] = 0
    BY <1>1, TotalsEquation
  <1>3. ASSUME NEW i \in Nat, i \in S PROVE i + 1 \in S
    <2> SUFFICES ASSUME i + 1 <= N PROVE U[i + 1] = T[i + 1]
      OBVIOUS
    <2>1. CASE i = 0
      <3>1. T[1] = scores[1] /\ U[1] = longer[1]
        BY <1>1, <2>1, TotalsEquation
      <3> QED BY <1>1, <2>1, <3>1
    <2>2. CASE i # 0
      <3>1. i \in 1 .. N - 1 /\ i \in 1 .. Len(longer) - 1 /\ i + 1 \in 1 .. N
        BY <1>1, <2>2
      <3>2. T[i + 1] = NextTotal(scores, i, T[i]) /\ U[i + 1] = NextTotal(longer, i, U[i])
        BY <1>1, <3>1, TotalsEquation
      <3>3. U[i] = T[i]
        BY <1>1, <1>3, <3>1
      <3>4. longer[i + 1] = scores[i + 1]
        BY <1>1, <3>1
      <3> HIDE DEF T, U, longer
      <3> QED BY <3>2, <3>3, <3>4 DEF NextTotal
    <2> QED BY <2>1, <2>2
  <1>4. Nat \subseteq S
    <2>1. 0 \in S
      BY <1>2
    <2> HIDE DEF S
    <2> QED BY <1>3, <2>1, Induction
  <1>5. n \in Nat /\ n <= N
    BY <1>1
  <1> QED BY <1>4, <1>5

-----------------------------------------------------------------------------
(* The scores.                                                             *)

LEMMA CampaignGrows ==
    ASSUME NEW n \in Nat \ {0}
    PROVE  /\ Campaign(n) \in Nat /\ Campaign(1) = 10
           /\ Campaign(n + 1) \in Nat /\ Campaign(n) <= Campaign(n + 1)
  BY DEF Campaign

(* The fraction that IncidentScore rounds.                                 *)
LEMMA ScoreFraction ==
    ASSUME NEW scores \in Seq(Nat), scores # << >>
    PROVE  /\ Len(scores) \in Nat \ {0}
           /\ Diminished(scores) \in Nat
           /\ Diminished(scores) * Campaign(Len(scores)) \in Nat
           /\ 10 * Denominator[Len(scores)] \in Nat \ {0}
  <1> DEFINE N == Len(scores)
  <1>1. N \in Nat \ {0}
    OBVIOUS
  <1>2. Diminished(scores) \in Nat
    BY <1>1, TotalsEquation DEF Diminished
  <1>3. Campaign(N) \in Nat
    BY <1>1, CampaignGrows
  <1>4. Denominator[N] \in Nat \ {0}
    BY <1>1, DenominatorEquation
  <1>5. Diminished(scores) * Campaign(N) \in Nat
    BY <1>2, <1>3, Product
  <1> QED BY <1>1, <1>2, <1>4, <1>5

(* The score of an incident is between 0 and 100, however many alerts it   *)
(* has.                                                                    *)
THEOREM ScoreInRange ==
    ASSUME NEW scores \in Seq(Nat)
    PROVE  IncidentScore(scores) \in 0 .. 100
  <1>1. CASE scores = << >>
    BY <1>1 DEF IncidentScore
  <1>2. CASE scores # << >>
    BY <1>2, ScoreFraction, ClampedRange DEF IncidentScore
  <1> QED BY <1>1, <1>2

(* So is that of an alert.                                                 *)
THEOREM RiskScoreInRange ==
    ASSUME NEW severity \in Severity, NEW confidence \in Nat
    PROVE  RiskScore(severity, confidence) \in 0 .. 100
  <1>1. Weight[severity] \in Nat
    BY DEF Weight, Severity
  <1>2. Weight[severity] * confidence \in Nat
    BY <1>1, Product
  <1> QED BY <1>2, ClampedRange DEF RiskScore

(* The score of an incident of one alert is the alert's.                   *)
THEOREM ScoreOfOne ==
    ASSUME NEW s \in 0 .. 100
    PROVE  IncidentScore(<<s>>) = s
  <1>1. <<s>> \in Seq(Nat) /\ Len(<<s>>) = 1 /\ <<s>> # << >> /\ <<s>>[1] = s
    OBVIOUS
  <1>2. Diminished(<<s>>) = s
    <2> DEFINE one == <<s>>
    <2>1. one \in Seq(Nat) /\ Len(one) = 1 /\ one[1] = s
      BY <1>1
    <2> HIDE DEF one
    <2>2. Totals(one)[1] = one[1]
      BY <2>1, TotalsEquation
    <2> QED BY <2>1, <2>2 DEF Diminished, one
  <1>3. Denominator[1] = 1 /\ Campaign(1) = 10
    BY DenominatorEquation DEF Campaign
  <1>4. IncidentScore(<<s>>) = Clamped(s * 10, 10 * 1)
    BY <1>1, <1>2, <1>3 DEF IncidentScore
  <1>5. s * 10 < 1000 => (2 * (s * 10) + 10) \div 20 = s
    OBVIOUS
  <1>6. s * 10 >= 1000 => s = 100
    OBVIOUS
  <1> QED BY <1>4, <1>5, <1>6 DEF Clamped, Rounded

(* One more alert never lowers the score that CalculateIncidentScore gives *)
(* an incident, whatever the scores of its alerts and however many it has: *)
(* it takes nothing from the others, and multiplier, rounding and the      *)
(* cut-off at 100 keep the order.                                          *)
THEOREM ScoreNeverFalls ==
    ASSUME NEW scores \in Seq(Nat), NEW s \in Nat
    PROVE  IncidentScore(Append(scores, s)) >= IncidentScore(scores)
  <1> DEFINE longer == Append(scores, s)
             N == Len(scores)
  <1>1. longer \in Seq(Nat) /\ longer # << >> /\ Len(longer) = N + 1 /\ N \in Nat
        /\ longer[N + 1] = s
    OBVIOUS
  <1>2. CASE scores = << >>
    <2>1. IncidentScore(scores) = 0
      BY <1>2 DEF IncidentScore
    <2>2. IncidentScore(longer) \in 0 .. 100
      BY <1>1, ScoreInRange
    <2> HIDE DEF longer
    <2>3. ASSUME NEW x \in 0 .. 100 PROVE x >= 0
      OBVIOUS
    <2>4. IncidentScore(longer) >= IncidentScore(scores)
      BY <2>1, <2>2, <2>3, Zenon
    <2> QED BY <2>4 DEF longer
  <1>3. CASE scores # << >>
    <2> DEFINE t == Diminished(scores)
               u == Diminished(longer)
               d == Denominator[N]
               b == Campaign(N)
               c == Campaign(N + 1)
               f == 10 + 3 * N
    <2>1. N \in Nat \ {0} /\ t \in Nat /\ t * b \in Nat /\ 10 * d \in Nat \ {0}
      BY <1>3, ScoreFraction
    <2>2. u \in Nat /\ u * c \in Nat /\ 10 * Denominator[N + 1] \in Nat \ {0}
      BY <1>1, ScoreFraction
    <2>3. d \in Nat \ {0} /\ Denominator[N + 1] = d * f
      BY <2>1, DenominatorEquation
    <2>4. u = t * f + s * 10 * d
      <3>1. N \in 1 .. Len(longer) - 1
        BY <1>1, <2>1
      <3>2. Totals(longer)[N + 1] = NextTotal(longer, N, Totals(longer)[N])
        BY <1>1, <3>1, TotalsEquation
      <3>3. Totals(longer)[N] = Totals(scores)[N]
        BY <2>1, TotalsAppend
      <3> QED BY <1>1, <3>2, <3>3 DEF NextTotal, Diminished
    <2>5. b \in Nat /\ c \in Nat /\ b <= c
      BY <2>1, CampaignGrows
    <2>6. IncidentScore(scores) = Clamped(t * b, 10 * d)
          /\ IncidentScore(longer) = Clamped(u * c, 10 * (d * f))
      BY <1>1, <1>3, <2>3 DEF IncidentScore
    <2>7. f \in Nat
      BY <1>1
    <2> HIDE DEF t, u, d, b, c, f, N
    <2>8. (t * b) * (10 * (d * f)) <= (u * c) * (10 * d)
      <3>1. t * f <= u
        <4>1. s * 10 * d \in Nat
          BY <2>3, Product
        <4>2. t * f \in Nat
          BY <2>1, <2>7, Product
        <4> DEFINE x == s * 10 * d
                   y == t * f
        <4> HIDE DEF x, y
        <4>3. u = y + x /\ x \in Nat /\ y \in Nat
          BY <2>4, <4>1, <4>2 DEF x, y
        <4>4. y <= u
          BY <4>3
        <4> QED BY <4>4 DEF y
      <3>2. (t * f) * b <= u * b
        BY <2>1, <2>2, <2>5, <2>7, <3>1, Product
      <3>3. b * u <= c * u
        BY <2>2, <2>5, Product
      <3>4. (t * f) * b <= u * c
        <4>1. u * b = b * u /\ u * c = c * u /\ (t * f) * b \in Nat /\ u * b \in Nat /\ u * c \in Nat
          BY <2>1, <2>2, <2>5, <2>7
        <4> QED BY <3>2, <3>3, <4>1
      <3>5. ((t * f) * b) * (10 * d) <= (u * c) * (10 * d)
        <4>1. (t * f) * b \in Nat /\ u * c \in Nat /\ 10 * d \in Nat
          BY <2>1, <2>2, <2>5, <2>7
        <4> QED BY <3>4, <4>1, Product
      <3>6. ((t * f) * b) * (10 * d) = (t * b) * (10 * (d * f))
        BY <2>1, <2>3, <2>5, <2>7
      <3> QED BY <3>5, <3>6
    <2>9. 10 * (d * f) \in Nat \ {0}
      BY <2>2, <2>3
    <2>10. Clamped(t * b, 10 * d) <= Clamped(u * c, 10 * (d * f))
      BY <2>1, <2>2, <2>8, <2>9, ClampedMonotone
    <2>11. Clamped(t * b, 10 * d) \in 0 .. 100 /\ Clamped(u * c, 10 * (d * f)) \in 0 .. 100
      BY <2>1, <2>2, <2>9, ClampedRange
    <2> QED BY <2>6, <2>10, <2>11
  <1> QED BY <1>2, <1>3

=============================================================================
