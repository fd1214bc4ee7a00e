-------------------------- MODULE ArithmeticLemmas ---------------------------
(***************************************************************************)
(* What the proofs need of numbers: differences of a clock that wraps, the *)
(* places of a ring, the least and the greatest of a set, induction, and   *)
(* functions that are defined by recursion.  The induction theorems of the *)
(* library have an operator as a parameter; here the induction is over the *)
(* set of the numbers that satisfy a statement, and a recursive function   *)
(* is any solution of its equation.                                        *)
(***************************************************************************)
EXTENDS Integers, Sequences, FiniteSetsExt, WellFoundedInduction, TLAPS

-----------------------------------------------------------------------------
\* Unsigned differences.

\* Division with a remainder.
LEMMA Division ==
  ASSUME NEW m \in Nat \ {0}, NEW a \in Int
  PROVE  /\ a % m \in 0 .. m - 1
         /\ a \div m \in Int
         /\ a = m * (a \div m) + (a % m)
  OBVIOUS

\* What is left of a multiple and a remainder.
LEMMA Remainder ==
  ASSUME NEW m \in Nat \ {0}, NEW k \in Int, NEW r \in 0 .. m - 1
  PROVE  (m * k + r) % m = r
  OBVIOUS

\* A multiple of a sum.
LEMMA MultipleOfSum ==
  ASSUME NEW m \in Int, NEW k \in Int, NEW q \in Int
  PROVE  m * (k + q) = m * k + m * q
  OBVIOUS

\* A multiple of the modulus makes no difference.
LEMMA AddMultiple ==
  ASSUME NEW m \in Nat \ {0}, NEW a \in Int, NEW k \in Int
  PROVE  (a + m * k) % m = a % m
  <1> DEFINE q == a \div m
             r == a % m
  <1>1. r \in 0 .. m - 1 /\ q \in Int /\ a = m * q + r
    BY Division
  <1> HIDE DEF q, r
  <1>2. m * (q + k) = m * q + m * k
    BY <1>1, MultipleOfSum
  <1>3. a + m * k = m * (q + k) + r
    BY <1>1, <1>2
  <1>4. q + k \in Int
    BY <1>1
  <1>5. (m * (q + k) + r) % m = r
    BY <1>1, <1>4, Remainder
  <1> QED BY <1>3, <1>5 DEF r

\* A time that is subtracted may be reduced before.
LEMMA SubRemainder ==
  ASSUME NEW m \in Nat \ {0}, NEW a \in Int, NEW b \in Int
  PROVE  (a - (b % m)) % m = (a - b) % m
  <1> DEFINE q == b \div m
             r == b % m
  <1>1. r \in 0 .. m - 1 /\ q \in Int /\ b = m * q + r
    BY Division
  <1> HIDE DEF q, r
  <1>2. m * q \in Int /\ a - b \in Int /\ a - r = (a - b) + m * q
    BY <1>1
  <1>3. ((a - b) + m * q) % m = (a - b) % m
    BY <1>1, <1>2, AddMultiple
  <1> QED BY <1>2, <1>3 DEF r

\* A time that is added to may be reduced before.
LEMMA AddRemainder ==
  ASSUME NEW m \in Nat \ {0}, NEW a \in Int, NEW b \in Int
  PROVE  ((b % m) + a) % m = (b + a) % m
  <1> DEFINE q == b \div m
             r == b % m
  <1>1. r \in 0 .. m - 1 /\ q \in Int /\ b = m * q + r
    BY Division
  <1> HIDE DEF q, r
  <1>2. 0 - q \in Int /\ m * q \in Int /\ m * (0 - q) = 0 - m * q /\ b + a \in Int
    BY <1>1
  <1>3. r + a = (b + a) + m * (0 - q)
    BY <1>1, <1>2
  <1>4. ((b + a) + m * (0 - q)) % m = (b + a) % m
    BY <1>2, AddMultiple
  <1> QED BY <1>3, <1>4 DEF r

\* A time that did not wrap.
LEMMA SmallRemainder ==
  ASSUME NEW m \in Nat \ {0}, NEW a \in 0 .. m - 1 PROVE a % m = a
  OBVIOUS

\* The age of a stored time, d ticks later.
LEMMA LaterAge ==
  ASSUME NEW m \in Nat \ {0}, NEW a \in Int, NEW b \in Int, NEW d \in Int
  PROVE  (((a + d) % m) - b) % m = (((a - b) % m) + d) % m
  <1> DEFINE sum == a + d
             age == a - b
             minus == 0 - b
  <1>1. sum \in Int /\ age \in Int /\ minus \in Int /\ sum + minus = age + d
    OBVIOUS
  <1>2. (sum % m) + minus = (sum % m) - b
    BY <1>1, Division
  <1> HIDE DEF sum, age, minus
  <1>3. ((sum % m) + minus) % m = (sum + minus) % m
    BY <1>1, AddRemainder
  <1>4. ((age % m) + d) % m = (age + d) % m
    BY <1>1, AddRemainder
  <1>5. ((sum % m) - b) % m = ((age % m) + d) % m
    BY <1>1, <1>2, <1>3, <1>4
  <1> QED BY <1>5 DEF sum, age

\* A difference is a time of the clock.
LEMMA AgeRange ==
  ASSUME NEW m \in Nat \ {0}, NEW a \in Int, NEW b \in Int
  PROVE  (a - b) % m \in 0 .. m - 1
  OBVIOUS

\* The age of what is stored now.
LEMMA NoAge == ASSUME NEW m \in Nat \ {0}, NEW a \in Int PROVE (a - a) % m = 0
  OBVIOUS

\* The age of a stored time grows by the ticks that pass while it stays in the
\* range of the clock.
LEMMA AgeGrows ==
  ASSUME NEW m \in Nat \ {0}, NEW a \in Int, NEW b \in Int, NEW d \in Nat,
         ((a - b) % m) + d < m
  PROVE  (((a + d) % m) - b) % m = ((a - b) % m) + d
  <1> DEFINE age == (a - b) % m
  <1>1. age \in 0 .. m - 1
    BY AgeRange
  <1>2. (((a + d) % m) - b) % m = (age + d) % m
    BY d \in Int, LaterAge, Zenon
  <1> HIDE DEF age
  <1>3. age + d \in 0 .. m - 1
    BY <1>1 DEF age
  <1>4. (age + d) % m = age + d
    BY <1>3, SmallRemainder
  <1> QED BY <1>2, <1>4 DEF age

\* It never grows by more.
LEMMA AgeBounded ==
  ASSUME NEW m \in Nat \ {0}, NEW a \in Int, NEW b \in Int, NEW d \in Nat
  PROVE  (((a + d) % m) - b) % m <= ((a - b) % m) + d
  <1> DEFINE age == (a - b) % m
  <1>1. age \in 0 .. m - 1
    BY AgeRange
  <1>2. (((a + d) % m) - b) % m = (age + d) % m
    BY d \in Int, LaterAge, Zenon
  <1> HIDE DEF age
  <1>3. (age + d) % m <= age + d
    BY <1>1
  <1> QED BY <1>2, <1>3 DEF age

-----------------------------------------------------------------------------
\* Rings.

\* The index of the i-th place of a ring of n entries that starts at r: at most
\* one wrap is needed.
LEMMA RingPlace ==
  ASSUME NEW n \in Nat \ {0}, NEW r \in 0 .. n - 1, NEW i \in 0 .. n
  PROVE  /\ (r + i) % n \in 0 .. n - 1
         /\ (r + i) % n = IF r + i < n THEN r + i ELSE r + i - n
  <1>1. CASE r + i < n
    BY <1>1
  <1>2. CASE ~(r + i < n)
    <2>1. r + i \in n .. (2 * n - 1)
      BY <1>2
    <2>2. (r + i) % n = r + i - n
      BY <2>1
    <2> QED BY <1>2, <2>1, <2>2
  <1> QED BY <1>1, <1>2

\* The place behind the last of k entries, and its successor.
LEMMA RingEnd ==
  ASSUME NEW n \in Nat \ {0}, NEW r \in 0 .. n - 1, NEW k \in 0 .. n - 1
  PROVE  /\ (((r + k) % n) + 1) % n = (r + (k + 1)) % n
         /\ \A i \in 0 .. k - 1 : (r + i) % n # (r + k) % n
  <1> DEFINE w == (r + k) % n
  <1>1. 1 \in 0 .. n /\ k \in 0 .. n /\ k + 1 \in 0 .. n /\ \A i \in 0 .. k - 1 : i \in 0 .. n
    OBVIOUS
  <1>2. w \in 0 .. n - 1 /\ w = IF r + k < n THEN r + k ELSE r + k - n
    BY <1>1, RingPlace, Zenon
  <1> HIDE DEF w
  <1>3. (w + 1) % n = IF w + 1 < n THEN w + 1 ELSE w + 1 - n
    BY <1>1, <1>2, RingPlace, Zenon
  <1>4. (r + (k + 1)) % n = IF r + (k + 1) < n THEN r + (k + 1) ELSE r + (k + 1) - n
    BY <1>1, RingPlace, Zenon
  <1>5. ASSUME NEW i \in 0 .. k - 1 PROVE (r + i) % n # w
    <2>1. (r + i) % n = IF r + i < n THEN r + i ELSE r + i - n
      BY <1>1, RingPlace, Zenon
    <2> QED BY <1>2, <2>1
  <1>6. (w + 1) % n = (r + (k + 1)) % n
    BY <1>2, <1>3, <1>4
  <1> QED BY <1>5, <1>6 DEF w

\* The places of a ring whose first entry was taken.
LEMMA RingShift ==
  ASSUME NEW n \in Nat \ {0}, NEW r \in 0 .. n - 1, NEW i \in 0 .. n - 1
  PROVE  (((r + 1) % n) + i) % n = (r + (i + 1)) % n
  <1> DEFINE w == (r + 1) % n
  <1>1. 1 \in 0 .. n /\ i \in 0 .. n /\ i + 1 \in 0 .. n
    OBVIOUS
  <1>2. w \in 0 .. n - 1 /\ w = IF r + 1 < n THEN r + 1 ELSE r + 1 - n
    BY <1>1, RingPlace, Zenon
  <1> HIDE DEF w
  <1>3. (w + i) % n = IF w + i < n THEN w + i ELSE w + i - n
    BY <1>1, <1>2, RingPlace, Zenon
  <1>4. (r + (i + 1)) % n = IF r + (i + 1) < n THEN r + (i + 1) ELSE r + (i + 1) - n
    BY <1>1, RingPlace, Zenon
  <1>5. (w + i) % n = (r + (i + 1)) % n
    BY <1>2, <1>3, <1>4
  <1> QED BY <1>5 DEF w

-----------------------------------------------------------------------------
\* Sets of naturals.

\* A set of naturals that is not empty has a least element.
LEMMA LeastNatural ==
  ASSUME NEW T, T \subseteq Nat, T # {}
  PROVE  \E x \in T : \A y \in T : x <= y
  <1> DEFINE Less == {ss \in Nat \X Nat : ss[1] < ss[2]}
  <1>1. IsWellFoundedOn(Less, Nat)
    BY NatLessThanWellFounded DEF OpToRel
  <1> HIDE DEF Less
  <1>2. PICK x \in T : \A y \in T : ~(<<y, x>> \in Less)
    BY <1>1, WFMin, Zenon
  <1>3. ASSUME NEW y \in T PROVE x <= y
    <2>1. y < x => <<y, x>> \in Less
      BY DEF Less
    <2> QED BY <1>2, <2>1
  <1> QED BY <1>3

\* It is the one that Min chooses.
LEMMA MinInSet ==
  ASSUME NEW T, T \subseteq Nat, T # {}
  PROVE  Min(T) \in T /\ \A y \in T : Min(T) <= y
  BY LeastNatural DEF Min

\* A set of naturals that is bounded has a greatest element, which Max chooses.
LEMMA MaxInSet ==
  ASSUME NEW n \in Nat, NEW T, T \subseteq 0 .. n, T # {}
  PROVE  Max(T) \in T /\ \A y \in T : Max(T) >= y
  <1> DEFINE U == {n - x : x \in T}
  <1>1. U \subseteq Nat /\ U # {}
    <2>1. U \subseteq Nat
      OBVIOUS
    <2>2. PICK t \in T : TRUE
      OBVIOUS
    <2>3. n - t \in U
      BY <2>2
    <2> QED BY <2>1, <2>3
  <1> HIDE DEF U
  <1>2. PICK u \in U : \A y \in U : u <= y
    BY <1>1, LeastNatural
  <1>3. PICK x \in T : u = n - x
    BY <1>2 DEF U
  <1>4. ASSUME NEW y \in T PROVE x >= y
    <2>1. n - y \in U
      BY DEF U
    <2>2. n - x <= n - y
      BY <1>2, <1>3, <2>1
    <2> QED BY <2>2
  <1>5. \E z \in T : \A y \in T : z >= y
    BY <1>4
  <1> QED BY <1>5 DEF Max

\* Induction: a set that holds 0, and with a number the next one, holds all of
\* them.
LEMMA EveryNatural ==
  ASSUME NEW P, P \subseteq Nat, 0 \in P, \A n \in P : n + 1 \in P
  PROVE  P = Nat
  <1> SUFFICES ASSUME Nat \ P # {} PROVE FALSE
    OBVIOUS
  <1>1. PICK x \in Nat \ P : \A y \in Nat \ P : x <= y
    BY LeastNatural
  <1>2. x # 0 /\ x - 1 \in Nat
    BY <1>1
  <1>3. x - 1 \in P
    BY <1>1, <1>2
  <1>4. (x - 1) + 1 \in P
    BY <1>3
  <1> QED BY <1>1, <1>4

\* The elements of a sequence of naturals have a greatest one.
LEMMA GreatestElement ==
  ASSUME NEW q \in Seq(Nat), q # <<>>
  PROVE  LET E == {q[d] : d \in 1 .. Len(q)}
         IN  Max(E) \in Nat /\ \A d \in 1 .. Len(q) : q[d] <= Max(E)
  <1> DEFINE E == {q[d] : d \in 1 .. Len(q)}
             Bound(n) == \E b \in Nat : \A d \in 1 .. Len(q) : d <= n => q[d] <= b
             Bounded == {n \in Nat : Bound(n)}
  <1>0. Len(q) \in Nat \ {0} /\ \A d \in 1 .. Len(q) : q[d] \in Nat
    OBVIOUS
  <1>1. 0 \in Bounded
    <2>1. \A d \in 1 .. Len(q) : d <= 0 => q[d] <= 0
      BY <1>0
    <2> QED BY <2>1
  <1>2. ASSUME NEW n \in Nat, Bound(n) PROVE Bound(n + 1)
    <2>1. PICK b \in Nat : \A d \in 1 .. Len(q) : d <= n => q[d] <= b
      BY <1>2
    <2>2. n \in Nat
      BY <1>2
    <2>3. CASE n + 1 \in 1 .. Len(q)
      <3> DEFINE c == IF q[n + 1] <= b THEN b ELSE q[n + 1]
      <3>1. q[n + 1] \in Nat
        BY <1>0, <2>3
      <3>2. c \in Nat /\ b <= c /\ q[n + 1] <= c
        BY <2>1, <3>1
      <3> HIDE DEF c
      <3>3. ASSUME NEW d \in 1 .. Len(q), d <= n + 1 PROVE q[d] <= c
        <4>1. d <= n \/ d = n + 1
          BY <1>0, <2>2, <3>3
        <4>2. d <= n => q[d] <= b /\ q[d] \in Nat
          BY <1>0, <2>1
        <4> QED BY <2>1, <3>2, <4>1, <4>2
      <3> QED BY <3>2, <3>3
    <2>4. CASE n + 1 \notin 1 .. Len(q)
      <3>1. \A d \in 1 .. Len(q) : d <= n + 1 => d <= n
        BY <1>0, <2>2, <2>4
      <3>2. \A d \in 1 .. Len(q) : d <= n + 1 => q[d] <= b
        BY <2>1, <3>1
      <3> QED BY <2>1, <3>2
    <2> QED BY <2>3, <2>4
  <1> HIDE DEF Bound
  <1>3. Bounded \subseteq Nat /\ \A n \in Bounded : n + 1 \in Bounded
    BY <1>2
  <1>4. Bounded = Nat
    <2> HIDE DEF Bounded
    <2> QED BY <1>1, <1>3, EveryNatural
  <1>5. PICK b \in Nat : \A d \in 1 .. Len(q) : d <= Len(q) => q[d] <= b
    <2>1. Bound(Len(q))
      BY <1>0, <1>4
    <2> QED BY <2>1, Zenon DEF Bound
  <1>6. E \subseteq 0 .. b
    BY <1>0, <1>5
  <1>7. q[1] \in E
    BY <1>0
  <1>8. \A d \in 1 .. Len(q) : q[d] \in E
    OBVIOUS
  <1> HIDE DEF E
  <1>9. Max(E) \in E /\ \A y \in E : Max(E) >= y
    BY <1>6, <1>7, MaxInSet
  <1>10. Max(E) \in Nat
    <2>1. 0 .. b \subseteq Nat
      OBVIOUS
    <2> QED BY <1>6, <1>9, <2>1, Zenon
  <1>11. ASSUME NEW d \in 1 .. Len(q) PROVE q[d] <= Max(E)
    BY <1>0, <1>8, <1>9, <1>10
  <1> QED BY <1>10, <1>11 DEF E

\* Strong induction: a set that holds a number when it holds all smaller ones.
LEMMA EveryNaturalStrong ==
  ASSUME NEW P, P \subseteq Nat, \A n \in Nat : (\A m \in 0 .. n - 1 : m \in P) => n \in P
  PROVE  P = Nat
  <1> SUFFICES ASSUME Nat \ P # {} PROVE FALSE
    OBVIOUS
  <1>1. PICK x \in Nat \ P : \A y \in Nat \ P : x <= y
    BY LeastNatural
  <1>2. \A m \in 0 .. x - 1 : m \in P
    BY <1>1
  <1> QED BY <1>1, <1>2

\* Recursion: a function on 0 .. n whose value at i is made, by step, of its
\* value at a smaller place.
Recursive(n, V, base, prev, step) ==
  /\ n \in Nat /\ base \in V
  /\ prev \in [1 .. n -> Nat] /\ \A i \in 1 .. n : prev[i] < i
  /\ step \in [1 .. n -> [V -> V]]

\* g is such a function.
Solution(g, n, V, base, prev, step) ==
  /\ g \in [0 .. n -> V] /\ g[0] = base
  /\ \A i \in 1 .. n : g[i] = step[i][g[prev[i]]]

\* There is one.
LEMMA Recursion ==
  ASSUME NEW n, NEW V, NEW base, NEW prev, NEW step, Recursive(n, V, base, prev, step)
  PROVE  \E g : Solution(g, n, V, base, prev, step)
  <1>0. /\ n \in Nat /\ base \in V
        /\ prev \in [1 .. n -> Nat] /\ \A i \in 1 .. n : prev[i] < i
        /\ step \in [1 .. n -> [V -> V]]
    BY DEF Recursive
  <1> USE <1>0
  <1> DEFINE Upto(m) == \E g \in [0 .. m -> V] :
                          g[0] = base /\ \A i \in 1 .. m : g[i] = step[i][g[prev[i]]]
             P == {m \in Nat : m <= n => Upto(m)}
  <1>1. 0 \in P
    <2> DEFINE g == [i \in 0 .. 0 |-> base]
    <2>1. g \in [0 .. 0 -> V] /\ g[0] = base /\ \A i \in 1 .. 0 : g[i] = step[i][g[prev[i]]]
      OBVIOUS
    <2>2. Upto(0)
      <3> HIDE DEF g
      <3> QED BY <2>1
    <2> QED BY <2>2
  <1>2. ASSUME NEW m \in P PROVE m + 1 \in P
    <2> SUFFICES ASSUME m + 1 <= n PROVE Upto(m + 1)
      OBVIOUS
    <2>1. m \in Nat /\ m + 1 \in 1 .. n /\ Upto(m)
      OBVIOUS
    <2>2. PICK g \in [0 .. m -> V] :
                 g[0] = base /\ \A i \in 1 .. m : g[i] = step[i][g[prev[i]]]
      BY <2>1
    <2> DEFINE h == [i \in 0 .. m + 1 |->
                       IF i = m + 1 THEN step[m + 1][g[prev[m + 1]]] ELSE g[i]]
    <2>3. prev[m + 1] \in 0 .. m
      BY <2>1
    <2>4. g[prev[m + 1]] \in V
      BY <2>3
    <2>5. step[m + 1][g[prev[m + 1]]] \in V
      BY <2>1, <2>4
    <2>6. h \in [0 .. m + 1 -> V] /\ h[0] = base
      BY <2>1, <2>2, <2>5
    <2>7. ASSUME NEW i \in 1 .. m + 1 PROVE h[i] = step[i][h[prev[i]]]
      <3>1. i \in 1 .. n /\ prev[i] \in 0 .. m + 1 /\ prev[i] # m + 1 /\ prev[i] < i /\ i \in 0 .. m + 1
        BY <2>1
      <3>2. h[prev[i]] = g[prev[i]]
        BY <3>1
      <3>3. CASE i = m + 1
        BY <3>1, <3>2, <3>3
      <3>4. CASE i # m + 1
        <4>1. i \in 1 .. m /\ h[i] = g[i]
          BY <2>1, <3>1, <3>4
        <4> QED BY <2>2, <3>2, <4>1
      <3> QED BY <3>3, <3>4
    <2> HIDE DEF h
    <2> QED BY <2>6, <2>7
  <1>3. P = Nat
    <2>1. P \subseteq Nat
      OBVIOUS
    <2> HIDE DEF P
    <2> QED BY <1>1, <1>2, <2>1, EveryNatural
  <1> HIDE DEF Upto
  <1>4. Upto(n)
    BY <1>3
  <1> QED BY <1>4 DEF Upto, Solution

\* g and h begin alike, and agree at a place when they do at the one it is made
\* of.
Agree(n, prev, g, h) ==
  /\ n \in Nat /\ prev \in [1 .. n -> Nat] /\ \A i \in 1 .. n : prev[i] < i
  /\ g[0] = h[0] /\ \A i \in 1 .. n : g[prev[i]] = h[prev[i]] => g[i] = h[i]

\* There is only one.
LEMMA RecursionUnique ==
  ASSUME NEW n, NEW prev, NEW g, NEW h, Agree(n, prev, g, h)
  PROVE  \A i \in 0 .. n : g[i] = h[i]
  <1>0. /\ n \in Nat /\ prev \in [1 .. n -> Nat] /\ \A i \in 1 .. n : prev[i] < i
        /\ g[0] = h[0] /\ \A i \in 1 .. n : g[prev[i]] = h[prev[i]] => g[i] = h[i]
    BY DEF Agree
  <1> USE <1>0
  <1> DEFINE P == {m \in Nat : m <= n => g[m] = h[m]}
  <1>1. ASSUME NEW m \in Nat, \A k \in 0 .. m - 1 : k \in P PROVE m \in P
    <2> SUFFICES ASSUME m <= n, m # 0 PROVE g[m] = h[m]
      OBVIOUS
    <2>1. m \in 1 .. n /\ prev[m] \in 0 .. m - 1 /\ prev[m] <= n
      OBVIOUS
    <2>2. g[prev[m]] = h[prev[m]]
      BY <1>1, <2>1
    <2> QED BY <2>1, <2>2
  <1>2. P = Nat
    <2>1. P \subseteq Nat
      OBVIOUS
    <2> HIDE DEF P
    <2> QED BY <1>1, <2>1, EveryNaturalStrong
  <1> QED BY <1>2
==============================================================================
