---------------------------- MODULE Heights_proof ----------------------------
(***************************************************************************)
(* Proofs about Heights, for every number of levels, all heights, values   *)
(* and targets, and every precision of the heights.                        *)
(*                                                                         *)
(* Rounding keeps the order of the heights, so that the levels of a point  *)
(* are ascending once they are turned round if need be, though no longer   *)
(* strictly.  The number of levels at a target or below it is then the     *)
(* place of the last of them: the bracket is made of the highest level at  *)
(* the target or below it and of the lowest above it (InterpolatedIs),     *)
(* which is all that the three properties need.                            *)
(***************************************************************************)
EXTENDS Heights, FiniteSetTheorems, SequenceTheorems, WellFoundedInduction, TLAPS

-----------------------------------------------------------------------------
(* Numbers *)

LEMMA Division ==
    ASSUME NEW z \in Int, NEW q \in Nat \ {0}
    PROVE  /\ z \div q \in Int /\ z % q \in 0..(q - 1)
           /\ z = q * (z \div q) + (z % q)
OBVIOUS

LEMMA Times ==
    ASSUME NEW q \in Nat, NEW a \in Int, NEW b \in Int, a <= b
    PROVE  q * a \in Int /\ q * b \in Int /\ q * a <= q * b
OBVIOUS

\* A rounded number is one of the two multiples next to it, and the nearer one.
LEMMA RoundedNear ==
    ASSUME NEW z \in Int
    PROVE  /\ Rounded(z) \in Int
           /\ 2 * (Rounded(z) - z) <= Quantum /\ 2 * (z - Rounded(z)) <= Quantum
<1> DEFINE low == z \div Quantum
           rem == z % Quantum
           up  == 2 * rem > Quantum \/ (2 * rem = Quantum /\ low % 2 = 1)
<1>1. low \in Int /\ rem \in 0..(Quantum - 1) /\ z = Quantum * low + rem
      /\ Quantum \in Nat \ {0}
  BY Division, HeightsAssumption
<1>2. Rounded(z) = Quantum * (IF up THEN low + 1 ELSE low)
  BY DEF Rounded
<1> HIDE DEF low, rem
<1>3. CASE up
  <2>1. Rounded(z) = Quantum * low + Quantum /\ 2 * rem >= Quantum
    BY <1>1, <1>2, <1>3
  <2> QED
    BY <1>1, <2>1
<1>4. CASE ~up
  <2>1. Rounded(z) = Quantum * low /\ 2 * rem <= Quantum
    BY <1>1, <1>2, <1>4
  <2> QED
    BY <1>1, <2>1
<1> QED
  BY <1>3, <1>4

\* Rounding keeps the order.
LEMMA RoundedMonotone ==
    ASSUME NEW x \in Int, NEW y \in Int, x <= y
    PROVE  Rounded(x) <= Rounded(y)
<1> DEFINE a  == x \div Quantum
           ra == x % Quantum
           b  == y \div Quantum
           rb == y % Quantum
           upA == 2 * ra > Quantum \/ (2 * ra = Quantum /\ a % 2 = 1)
           upB == 2 * rb > Quantum \/ (2 * rb = Quantum /\ b % 2 = 1)
<1>1. /\ a \in Int /\ ra \in 0..(Quantum - 1) /\ x = Quantum * a + ra
      /\ b \in Int /\ rb \in 0..(Quantum - 1) /\ y = Quantum * b + rb
      /\ Quantum \in Nat \ {0}
  BY Division, HeightsAssumption
<1>2. /\ Rounded(x) = Quantum * (IF upA THEN a + 1 ELSE a)
      /\ Rounded(y) = Quantum * (IF upB THEN b + 1 ELSE b)
  BY DEF Rounded
<1> HIDE DEF a, ra, b, rb
<1>3. a <= b
  <2>1. SUFFICES ASSUME b + 1 <= a PROVE FALSE
    BY <1>1
  <2>2. Quantum * (b + 1) <= Quantum * a
    BY <1>1, <2>1, Times
  <2>3. Quantum * (b + 1) = Quantum * b + Quantum
    BY <1>1
  <2>4. Quantum * a \in Int /\ Quantum * b \in Int
    BY <1>1
  <2> QED
    BY <1>1, <2>2, <2>3, <2>4
<1>4. CASE a = b
  <2>1. ra <= rb
    BY <1>1, <1>4
  <2>2. upA => upB
    BY <1>1, <1>4, <2>1
  <2>3. (IF upA THEN a + 1 ELSE a) <= (IF upB THEN b + 1 ELSE b)
    BY <1>1, <1>4, <2>2
  <2>4. (IF upA THEN a + 1 ELSE a) \in Int /\ (IF upB THEN b + 1 ELSE b) \in Int
    BY <1>1
  <2> QED
    BY <1>1, <1>2, <2>3, <2>4, Times
<1>5. CASE a < b
  <2>1. (IF upA THEN a + 1 ELSE a) <= (IF upB THEN b + 1 ELSE b)
    BY <1>1, <1>5
  <2>2. (IF upA THEN a + 1 ELSE a) \in Int /\ (IF upB THEN b + 1 ELSE b) \in Int
    BY <1>1
  <2> QED
    BY <1>1, <1>2, <2>1, <2>2, Times
<1> QED
  BY <1>1, <1>3, <1>4, <1>5

\* A set of numbers that is not empty has a least one.
LEMMA HasLeast ==
    ASSUME NEW S \in SUBSET Nat, S # {}
    PROVE  \E x \in S : \A y \in S : x <= y
<1> DEFINE R == OpToRel(<, Nat)
<1>1. IsWellFoundedOn(R, Nat)
  BY NatLessThanWellFounded
<1> HIDE DEF R
<1>2. PICK x \in S : \A y \in S : ~(<<y, x>> \in R)
  BY <1>1, WFMin
<1>3. ASSUME NEW y \in S PROVE x <= y
  <2>1. y < x => <<y, x>> \in R
    BY DEF R, OpToRel
  <2> QED
    BY <1>2, <2>1
<1> QED
  BY <1>3

-----------------------------------------------------------------------------
(* Sequences of levels *)

Rising(z, n)  == \A i, j \in 1..n : i <= j => z[i] <= z[j]
Falling(z, n) == \A i, j \in 1..n : i <= j => z[i] >= z[j]

\* What does not fall between neighbours does not fall at all.
LEMMA StepsRise ==
    ASSUME NEW n \in Nat, NEW z \in [1..n -> Int],
           \A k \in 1..(n - 1) : z[k] <= z[k + 1]
    PROVE  Rising(z, n)
<1> SUFFICES ASSUME NEW i \in 1..n, NEW j \in 1..n, i <= j, z[i] > z[j] PROVE FALSE
  BY DEF Rising
<1> DEFINE S == {k \in i..n : z[i] > z[k]}
<1>1. S \in SUBSET Nat /\ S # {}
  OBVIOUS
<1> HIDE DEF S
<1>2. PICK k \in S : \A y \in S : k <= y
  BY <1>1, HasLeast
<1>3. k \in i..n /\ z[i] > z[k] /\ \A y \in i..n : z[i] > z[y] => k <= y
  BY <1>2 DEF S
<1>4. k # i /\ k - 1 \in i..n /\ k - 1 \in 1..(n - 1) /\ (k - 1) + 1 = k
  BY <1>3
<1>5. ~(z[i] > z[k - 1]) /\ z[k - 1] <= z[k]
  BY <1>3, <1>4
<1> QED
  BY <1>3, <1>4, <1>5

LEMMA StepsFall ==
    ASSUME NEW n \in Nat, NEW z \in [1..n -> Int],
           \A k \in 1..(n - 1) : z[k] >= z[k + 1]
    PROVE  Falling(z, n)
<1> DEFINE y == [k \in 1..n |-> -z[k]]
<1>1. y \in [1..n -> Int] /\ \A k \in 1..n : y[k] = -z[k] /\ z[k] \in Int
  OBVIOUS
<1>2. \A k \in 1..(n - 1) : y[k] <= y[k + 1]
  BY <1>1
<1> HIDE DEF y
<1>3. Rising(y, n)
  BY <1>1, <1>2, StepsRise
<1> QED
  BY <1>1, <1>3 DEF Rising, Falling

\* A function on 1..n is a sequence of length n.
LEMMA FunctionIsSeq ==
    ASSUME NEW n \in Nat, NEW s \in [1..n -> Int]
    PROVE  s \in Seq(Int) /\ Len(s) = n
<1>1. s \in Seq(Int)
  BY SeqDef
<1>2. Len(s) \in Nat /\ DOMAIN s = 1..Len(s)
  BY <1>1, LenProperties
<1>3. 1..Len(s) = 1..n
  BY <1>2
<1>4. Len(s) = n
  <2>1. CASE n = 0
    BY <1>2, <1>3, <2>1
  <2>2. CASE n > 0
    BY <1>2, <1>3, <2>2
  <2> QED
    BY <2>1, <2>2
<1> QED
  BY <1>1, <1>4

\* Turning a sequence round, if the levels fall, keeps values and levels together.
LEMMA AscendingIs ==
    ASSUME NEW n \in Nat \ {0}, NEW z \in [1..n -> Int], NEW f \in [1..n -> Int],
           Rising(z, n) \/ Falling(z, n)
    PROVE  \E p \in [1..n -> 1..n] :
              /\ Len(Ascending(z, z)) = n /\ Rising(Ascending(z, z), n)
              /\ \A k \in 1..n : Ascending(z, z)[k] = z[p[k]] /\ Ascending(f, z)[k] = f[p[k]]
              /\ \A k \in 1..n : \E i \in 1..n : p[i] = k
<1>1. Len(z) = n /\ Len(f) = n
  BY FunctionIsSeq
<1>2. CASE z[1] > z[n]
  <2> DEFINE p == [k \in 1..n |-> (n - k) + 1]
             y == [k \in 1..n |-> z[(n - k) + 1]]
             g == [k \in 1..n |-> f[(n - k) + 1]]
  <2>1. Ascending(z, z) = y /\ Ascending(f, z) = g
    BY <1>1, <1>2 DEF Ascending, Reverse
  <2>2. p \in [1..n -> 1..n] /\ y \in [1..n -> Int]
    OBVIOUS
  <2>3. \A k \in 1..n : y[k] = z[p[k]] /\ g[k] = f[p[k]]
    OBVIOUS
  <2>4. ASSUME NEW k \in 1..n PROVE \E i \in 1..n : p[i] = k
    <3>1. (n - k) + 1 \in 1..n /\ p[(n - k) + 1] = k
      OBVIOUS
    <3> QED
      BY <3>1
  <2>5. Falling(z, n)
    BY <1>2 DEF Rising
  <2>6. Rising(y, n)
    <3>1. ASSUME NEW i \in 1..n, NEW j \in 1..n, i <= j PROVE y[i] <= y[j]
      <4>1. /\ (n - i) + 1 \in 1..n /\ (n - j) + 1 \in 1..n
            /\ (n - j) + 1 <= (n - i) + 1
        BY <3>1
      <4>2. z[(n - j) + 1] >= z[(n - i) + 1]
        BY <2>5, <4>1 DEF Falling
      <4> QED
        BY <4>1, <4>2
    <3> QED
      BY <3>1 DEF Rising
  <2>7. Len(y) = n
    BY <2>2, FunctionIsSeq
  <2> HIDE DEF p, y, g
  <2>8. p \in [1..n -> 1..n]
    BY <2>2
  <2>9. Len(Ascending(z, z)) = n /\ Rising(Ascending(z, z), n)
    BY <2>1, <2>6, <2>7
  <2>10. \A k \in 1..n : Ascending(z, z)[k] = z[p[k]] /\ Ascending(f, z)[k] = f[p[k]]
    BY <2>1, <2>3
  <2> QED
    BY <2>4, <2>8, <2>9, <2>10
<1>3. CASE ~(z[1] > z[n])
  <2> DEFINE p == [k \in 1..n |-> k]
  <2>1. Ascending(z, z) = z /\ Ascending(f, z) = f
    BY <1>1, <1>3 DEF Ascending
  <2>2. p \in [1..n -> 1..n] /\ \A k \in 1..n : p[k] = k
    OBVIOUS
  <2>3. Rising(z, n)
    <3>1. CASE Rising(z, n)
      BY <3>1
    \* All levels are the same.
    <3>2. CASE Falling(z, n)
      <4>1. \A k \in 1..n : z[1] >= z[k] /\ z[k] >= z[n] /\ z[k] \in Int
        BY <3>2 DEF Falling
      <4>2. \A k \in 1..n : z[k] = z[1]
        BY <1>3, <4>1
      <4> QED
        BY <4>1, <4>2 DEF Rising
    <3> QED
      BY <3>1, <3>2
  <2> HIDE DEF p
  <2> QED
    BY <1>1, <2>1, <2>2, <2>3
<1> QED
  BY <1>2, <1>3

\* The levels at t or below it are the first ones, as many as Lower counts.
LEMMA LowerIs ==
    ASSUME NEW n \in Nat, NEW z, Len(z) = n, \A k \in 1..n : z[k] \in Int,
           Rising(z, n), NEW t \in Int
    PROVE  Lower(z, t) \in 0..n /\ \A k \in 1..n : z[k] <= t <=> k <= Lower(z, t)
<1> DEFINE S == {k \in 1..n : z[k] > t} \union {n + 1}
<1>1. S \in SUBSET Nat /\ S # {}
  OBVIOUS
<1> HIDE DEF S
<1>2. PICK m \in S : \A y \in S : m <= y
  BY <1>1, HasLeast
<1>3. m \in 1..(n + 1) /\ (m \in 1..n => z[m] > t) /\ \A k \in 1..n : z[k] > t => m <= k
  BY <1>2 DEF S
<1>4. ASSUME NEW k \in 1..n PROVE z[k] <= t <=> k <= m - 1
  <2>1. CASE k <= m - 1
    BY <1>3, <2>1
  <2>2. CASE k >= m
    <3>1. m \in 1..n /\ z[m] > t
      BY <1>3, <2>2
    <3>2. z[m] <= z[k]
      BY <2>2, <3>1 DEF Rising
    <3> QED
      BY <1>3, <2>2, <3>1, <3>2
  <2> QED
    BY <1>3, <2>1, <2>2
<1>5. {k \in 1..Len(z) : z[k] <= t} = 1..(m - 1)
  BY <1>3, <1>4
<1>6. Cardinality(1..(m - 1)) = m - 1
  <2> DEFINE u == m - 1
  <2>1. u \in Int /\ 1 \in Int /\ u \in Nat
    BY <1>3
  <2> HIDE DEF u
  <2>2. Cardinality(1..u) = u
    BY <2>1, FS_Interval
  <2> QED
    BY <2>2 DEF u
<1>7. Lower(z, t) = m - 1
  BY <1>5, <1>6 DEF Lower
<1> QED
  BY <1>3, <1>4, <1>7

-----------------------------------------------------------------------------
(* The bracket *)

\* lo is a highest level at t or below it, hi a lowest one above it.
Bracketed(z, n, t, lo, hi) ==
    /\ lo \in 1..n /\ z[lo] <= t /\ \A j \in 1..n : z[j] <= t => z[j] <= z[lo]
    /\ hi \in 1..n /\ z[hi] > t /\ \A j \in 1..n : z[j] > t => z[j] >= z[hi]

\* A target with a level at it or below and one above is interpolated between
\* those next to it; any other is null.
LEMMA InterpolatedIs ==
    ASSUME NEW n \in Nat \ {0}, NEW z \in [1..n -> Int], NEW f \in [1..n -> Int],
           Rising(z, n) \/ Falling(z, n), NEW target \in Int
    PROVE  LET t == 2 * target IN
           IF \E j, k \in 1..n : z[j] <= t /\ t < z[k]
           THEN \E lo, hi \in 1..n :
                   /\ Bracketed(z, n, t, lo, hi)
                   /\ Interpolated(f, z, target) = Weighted(f[lo], f[hi], z[lo], z[hi], t)
           ELSE Interpolated(f, z, target) = Null
<1> DEFINE t == 2 * target
           y == Ascending(z, z)
           g == Ascending(f, z)
           k == Lower(y, t)
<1>1. PICK p \in [1..n -> 1..n] :
        /\ Len(y) = n /\ Rising(y, n)
        /\ \A i \in 1..n : y[i] = z[p[i]] /\ g[i] = f[p[i]]
        /\ \A j \in 1..n : \E i \in 1..n : p[i] = j
  BY AscendingIs
<1>2. Len(f) = n /\ Len(z) = n /\ t \in Int
  BY FunctionIsSeq
<1>3. Interpolated(f, z, target) =
        IF Valid(k, n)
        THEN Weighted(g[Bracket(k, n)], g[Bracket(k, n) + 1],
                      y[Bracket(k, n)], y[Bracket(k, n) + 1], t)
        ELSE Null
  BY <1>1, <1>2 DEF Interpolated
<1> HIDE DEF y, g, t
<1>4. k \in 0..n /\ \A i \in 1..n : y[i] <= t <=> i <= k
  <2>1. \A i \in 1..n : y[i] \in Int
    BY <1>1
  <2> QED
    BY <1>1, <1>2, <2>1, LowerIs
<1> HIDE DEF k
<1>5. CASE Valid(k, n)
  <2> DEFINE lo == p[k]
             hi == p[k + 1]
  <2>1. k \in 1..n /\ k + 1 \in 1..n /\ Bracket(k, n) = k
    BY <1>4, <1>5 DEF Valid, Bracket
  <2>2. /\ lo \in 1..n /\ hi \in 1..n /\ y[k] = z[lo] /\ y[k + 1] = z[hi]
        /\ g[k] = f[lo] /\ g[k + 1] = f[hi]
    BY <1>1, <2>1
  <2> HIDE DEF lo, hi
  <2>3. z[lo] <= t /\ z[hi] > t
    <3>1. y[k] <= t /\ ~(y[k + 1] <= t)
      <4>1. (y[k] <= t <=> k <= k) /\ (y[k + 1] <= t <=> k + 1 <= k)
        BY <1>4, <2>1
      <4>2. k <= k /\ ~(k + 1 <= k)
        BY <2>1
      <4> QED
        BY <4>1, <4>2
    <3>2. y[k + 1] \in Int
      BY <2>2
    <3> QED
      BY <1>2, <2>2, <3>1, <3>2
  <2>4. ASSUME NEW j \in 1..n
        PROVE  (z[j] <= t => z[j] <= z[lo]) /\ (z[j] > t => z[j] >= z[hi])
    <3>1. PICK i \in 1..n : p[i] = j
      BY <1>1
    <3>2. y[i] = z[j] /\ z[j] \in Int /\ z[lo] \in Int /\ z[hi] \in Int
      BY <1>1, <2>2, <3>1
    <3>3. i <= k => y[i] <= y[k]
      BY <1>1, <2>1 DEF Rising
    <3>4. i >= k + 1 => y[k + 1] <= y[i]
      BY <1>1, <2>1 DEF Rising
    <3>5. y[i] <= t <=> i <= k
      BY <1>4
    <3>6. CASE i <= k
      <4>1. y[i] <= t /\ y[i] <= y[k]
        BY <3>3, <3>5, <3>6
      <4> QED
        BY <1>2, <2>2, <3>2, <4>1
    <3>7. CASE i >= k + 1
      <4>1. ~(i <= k)
        BY <1>4, <3>7
      <4>2. ~(y[i] <= t) /\ y[k + 1] <= y[i]
        BY <3>4, <3>5, <3>7, <4>1
      <4> QED
        BY <1>2, <2>2, <3>2, <4>2
    <3> QED
      BY <1>4, <3>6, <3>7
  <2>5. Bracketed(z, n, t, lo, hi)
    BY <2>2, <2>3, <2>4 DEF Bracketed
  <2>6. Interpolated(f, z, target) = Weighted(f[lo], f[hi], z[lo], z[hi], t)
    BY <1>3, <1>5, <2>1, <2>2
  <2>7. z[lo] <= t /\ t < z[hi]
    BY <1>2, <2>2, <2>3
  <2> QED
    BY <2>2, <2>5, <2>6, <2>7 DEF t
<1>6. CASE ~Valid(k, n)
  <2>1. ASSUME NEW a \in 1..n, NEW b \in 1..n, z[a] <= t, t < z[b] PROVE FALSE
    <3>1. PICK i \in 1..n : p[i] = a
      BY <1>1
    <3>2. PICK j \in 1..n : p[j] = b
      BY <1>1
    <3>3. y[i] = z[a] /\ y[j] = z[b] /\ z[a] \in Int /\ z[b] \in Int
      BY <1>1, <3>1, <3>2
    <3>4. (y[i] <= t <=> i <= k) /\ (y[j] <= t <=> j <= k)
      BY <1>4
    <3>5. i <= k /\ ~(j <= k)
      BY <1>2, <2>1, <3>3, <3>4
    <3> QED
      BY <1>4, <1>6, <3>5 DEF Valid
  <2>2. Interpolated(f, z, target) = Null
    BY <1>3, <1>6
  <2> QED
    BY <2>1, <2>2 DEF t
<1> QED
  BY <1>5, <1>6

-----------------------------------------------------------------------------
(* The profile of a point, and the bands it has so far *)

ProfileOK ==
    /\ half \in [1..NHalf -> Int] /\ field \in [1..NHalf -> Int]
    /\ \/ \A k \in 1..NFull : half[k] > half[k + 1]
       \/ \A k \in 1..NFull : half[k] < half[k + 1]
    /\ nU \in {NFull - 1, NFull} /\ nW \in {NFull - 1, NFull, NHalf}

Fraction == [num : Int, den : Int]

\* Both fields of a band are the field on the full levels, interpolated, or null.
BandsInterpolated ==
    /\ bands \in Seq([u : Fraction, w : Fraction]) /\ Len(bands) <= Len(Targets)
    /\ \A i \in 1..Len(bands) :
          /\ bands[i].u = IF nU = NFull THEN Interpolated(OnFull, FullHeights, Targets[i])
                                         ELSE Null
          /\ bands[i].w = IF nU = NFull /\ nW # NFull - 1
                          THEN Interpolated(OnFull, FullHeights, Targets[i]) ELSE Null

HeightsInv == ProfileOK /\ BandsInterpolated

LEMMA LevelsAre ==
    ASSUME ProfileOK
    PROVE  /\ NFull \in Nat \ {0}
           /\ FullHeights \in [1..NFull -> Int] /\ OnFull \in [1..NFull -> Int]
           /\ Rising(FullHeights, NFull) \/ Falling(FullHeights, NFull)
<1>1. NHalf \in Nat /\ NHalf > 2 /\ NFull = NHalf - 1 /\ NFull \in Nat \ {0}
  BY HeightsAssumption DEF NFull
<1>2. \A k \in 1..NFull : /\ k \in 1..NHalf /\ k + 1 \in 1..NHalf
                          /\ half[k] \in Int /\ half[k + 1] \in Int
                          /\ field[k] \in Int /\ field[k + 1] \in Int
  BY <1>1 DEF ProfileOK
<1>3. \A k \in 1..NFull : /\ FullHeights[k] = Rounded(half[k] + half[k + 1])
                          /\ half[k] + half[k + 1] \in Int /\ FullHeights[k] \in Int
  <2>1. \A k \in 1..NFull : half[k] + half[k + 1] \in Int
    BY <1>2
  <2> QED
    BY <2>1, RoundedNear DEF FullHeights
<1>4. FullHeights \in [1..NFull -> Int]
  BY <1>3 DEF FullHeights
<1>5. OnFull \in [1..NFull -> Int]
  BY <1>2 DEF OnFull
<1>6. CASE \A k \in 1..NFull : half[k] < half[k + 1]
  <2>1. ASSUME NEW k \in 1..(NFull - 1) PROVE FullHeights[k] <= FullHeights[k + 1]
    <3>1. k \in 1..NFull /\ k + 1 \in 1..NFull
      BY <1>1
    <3>2. half[k] + half[k + 1] <= half[k + 1] + half[(k + 1) + 1]
      BY <1>2, <1>6, <3>1
    <3> QED
      BY <1>3, <3>1, <3>2, RoundedMonotone
  <2>2. Rising(FullHeights, NFull)
    BY <1>1, <1>4, <2>1, StepsRise
  <2> QED
    BY <1>1, <1>4, <1>5, <2>2
<1>7. CASE \A k \in 1..NFull : half[k] > half[k + 1]
  <2>1. ASSUME NEW k \in 1..(NFull - 1) PROVE FullHeights[k] >= FullHeights[k + 1]
    <3>1. k \in 1..NFull /\ k + 1 \in 1..NFull
      BY <1>1
    <3>2. half[k + 1] + half[(k + 1) + 1] <= half[k] + half[k + 1]
      BY <1>2, <1>7, <3>1
    <3>3. FullHeights[k + 1] <= FullHeights[k]
      BY <1>3, <3>1, <3>2, RoundedMonotone
    <3> QED
      BY <1>3, <3>1, <3>3
  <2>2. Falling(FullHeights, NFull)
    BY <1>1, <1>4, <2>1, StepsFall
  <2> QED
    BY <1>1, <1>4, <1>5, <2>2
<1> QED
  BY <1>6, <1>7 DEF ProfileOK

\* W, from half-levels or from full levels, is aligned with U; with any other
\* number of levels it is missing.
LEMMA AlignedIs ==
    ASSUME ProfileOK
    PROVE  /\ nU = NFull => U = OnFull
           /\ nW # NFull - 1 => WAligned = OnFull
           /\ nW = NFull - 1 => WAligned = <<>>
<1>1. NHalf \in Nat /\ NHalf > 2 /\ NFull = NHalf - 1 /\ NFull \in Nat
  BY HeightsAssumption DEF NFull
<1>2. CASE nW = NHalf
  <2>1. NHalf = NFull + 1 /\ NHalf # NFull /\ NHalf # NFull - 1
    BY <1>1
  <2>2. WAligned = [k \in 1..NFull |-> (OnHalf[k] + OnHalf[k + 1]) \div 2]
    BY <1>2, <2>1 DEF WAligned
  <2>3. ASSUME NEW k \in 1..NFull
        PROVE  (OnHalf[k] + OnHalf[k + 1]) \div 2 = field[k] + field[k + 1]
    <3>1. k \in 1..NHalf /\ k + 1 \in 1..NHalf
      BY <1>1
    <3>2. /\ OnHalf[k] = 2 * field[k] /\ OnHalf[k + 1] = 2 * field[k + 1]
          /\ field[k] \in Int /\ field[k + 1] \in Int
      BY <3>1 DEF OnHalf, ProfileOK
    <3> QED
      BY <3>2
  <2>4. WAligned = OnFull
    BY <2>2, <2>3 DEF OnFull
  <2> QED
    BY <1>2, <2>1, <2>4 DEF U
<1>3. CASE nW = NFull
  <2>1. NFull # NFull + 1 /\ NFull # NFull - 1
    BY <1>1
  <2> QED
    BY <1>3, <2>1 DEF WAligned, U
<1>4. CASE nW = NFull - 1
  <2>1. NFull - 1 # NFull + 1 /\ NFull - 1 # NFull
    BY <1>1
  <2> QED
    BY <1>4, <2>1 DEF WAligned, U, Missing
<1> QED
  BY <1>2, <1>3, <1>4 DEF ProfileOK

LEMMA FractionTyped ==
    ASSUME ProfileOK, NEW target \in Int
    PROVE  Interpolated(OnFull, FullHeights, target) \in Fraction
<1> DEFINE t == 2 * target
           b == Interpolated(OnFull, FullHeights, target)
           z == FullHeights
           f == OnFull
<1>1. /\ NFull \in Nat \ {0} /\ z \in [1..NFull -> Int] /\ f \in [1..NFull -> Int]
      /\ Rising(z, NFull) \/ Falling(z, NFull)
  BY LevelsAre
<1> HIDE DEF z, f
<1>2. \/ \E lo, hi \in 1..NFull : Interpolated(f, z, target) = Weighted(f[lo], f[hi], z[lo], z[hi], t)
      \/ Interpolated(f, z, target) = Null
  BY <1>1, InterpolatedIs
<1>3. Interpolated(f, z, target) \in Fraction
  <2>1. CASE Interpolated(f, z, target) = Null
    BY <2>1 DEF Null, Fraction
  <2>2. CASE Interpolated(f, z, target) # Null
    <3>1. PICK lo \in 1..NFull, hi \in 1..NFull :
             Interpolated(f, z, target) = Weighted(f[lo], f[hi], z[lo], z[hi], t)
      BY <1>2, <2>2
    <3>2. f[lo] \in Int /\ f[hi] \in Int /\ z[lo] \in Int /\ z[hi] \in Int /\ t \in Int
      BY <1>1
    <3> DEFINE num == f[lo] * (z[hi] - t) + f[hi] * (t - z[lo])
               den == 2 * (z[hi] - z[lo])
    <3>3. num \in Int /\ den \in Int
      BY <3>2
    <3>4. Weighted(f[lo], f[hi], z[lo], z[hi], t) = [num |-> num, den |-> den]
      BY DEF Weighted
    <3> HIDE DEF num, den
    <3> QED
      BY <3>1, <3>3, <3>4 DEF Fraction
  <2> QED
    BY <2>1, <2>2
<1> QED
  BY <1>3 DEF z, f

LEMMA InitHeights == Init => HeightsInv
<1> SUFFICES ASSUME Init PROVE HeightsInv
  OBVIOUS
<1>1. half \in [1..NHalf -> Int] /\ field \in [1..NHalf -> Int]
  <2>1. half \in [1..NHalf -> Heights] /\ field \in [1..NHalf -> Values] \union {half}
    BY DEF Init
  <2>2. Heights \subseteq Int /\ Values \subseteq Int
    BY HeightsAssumption
  <2> QED
    BY <2>1, <2>2
<1>2. ProfileOK
  BY <1>1 DEF Init, ProfileOK
<1>3. BandsInterpolated
  BY HeightsAssumption DEF Init, BandsInterpolated
<1> QED
  BY <1>2, <1>3 DEF HeightsInv

LEMMA NextHeights == HeightsInv /\ [Next]_vars => HeightsInv'
<1> SUFFICES ASSUME HeightsInv, [Next]_vars PROVE HeightsInv'
  OBVIOUS
<1>1. CASE Band
  <2> DEFINE n == Len(bands) + 1
             t == Targets[n]
             At(values) == IF nU = NFull THEN Interpolated(values, FullHeights, t) ELSE Null
             new == [u |-> At(U), w |-> At(WAligned)]
             b == Interpolated(OnFull, FullHeights, t)
  <2>1. /\ Len(bands) < Len(Targets) /\ bands' = Append(bands, new)
        /\ half' = half /\ field' = field /\ nU' = nU /\ nW' = nW
    BY <1>1 DEF Band
  <2>2. ProfileOK'
    BY <2>1 DEF HeightsInv, ProfileOK
  <2>3. OnFull' = OnFull /\ FullHeights' = FullHeights
    BY <2>1 DEF OnFull, FullHeights
  <2>4. /\ bands \in Seq([u : Fraction, w : Fraction]) /\ Len(bands) \in Nat
        /\ Len(Targets) \in Nat /\ t \in Int
    BY <2>1, HeightsAssumption DEF HeightsInv, BandsInterpolated
  <2>5. b \in Fraction /\ Null \in Fraction
    <3>1. Null \in Fraction
      BY DEF Null, Fraction
    <3> HIDE DEF t
    <3> QED
      BY <2>4, <3>1, FractionTyped DEF HeightsInv
  <2>6. At(U) = IF nU = NFull THEN b ELSE Null
    BY AlignedIs DEF HeightsInv
  <2>7. At(WAligned) = IF nU = NFull /\ nW # NFull - 1 THEN b ELSE Null
    <3>1. CASE nW = NFull - 1
      <4>1. WAligned = <<>>
        BY <3>1, AlignedIs DEF HeightsInv
      <4>2. Len(FullHeights) # Len(<<>>)
        <5>1. NFull \in Nat \ {0} /\ FullHeights \in [1..NFull -> Int]
          BY LevelsAre DEF HeightsInv
        <5> QED
          BY <5>1, FunctionIsSeq
      <4>3. Interpolated(<<>>, FullHeights, t) = Null
        BY <4>2 DEF Interpolated
      <4> QED
        BY <3>1, <4>1, <4>3
    <3>2. CASE nW # NFull - 1
      BY <3>2, AlignedIs DEF HeightsInv
    <3> QED
      BY <3>1, <3>2
  <2> HIDE DEF b, At
  <2>8. new \in [u : Fraction, w : Fraction] /\ new.u = At(U) /\ new.w = At(WAligned)
    BY <2>5, <2>6, <2>7
  <2> HIDE DEF new
  <2>9. /\ bands' \in Seq([u : Fraction, w : Fraction]) /\ Len(bands') = n
        /\ \A i \in 1..Len(bands) : bands'[i] = bands[i]
        /\ bands'[n] = new
    BY <2>1, <2>4, <2>8
  <2>10. ASSUME NEW i \in 1..Len(bands')
         PROVE  /\ bands'[i].u = IF nU = NFull THEN Interpolated(OnFull, FullHeights, Targets[i])
                                               ELSE Null
                /\ bands'[i].w = IF nU = NFull /\ nW # NFull - 1
                                 THEN Interpolated(OnFull, FullHeights, Targets[i]) ELSE Null
    <3>1. CASE i = n
      BY <2>6, <2>7, <2>8, <2>9, <3>1 DEF b
    <3>2. CASE i # n
      <4>1. i \in 1..Len(bands) /\ bands'[i] = bands[i]
        BY <2>4, <2>9, <3>2
      <4> QED
        BY <4>1 DEF HeightsInv, BandsInterpolated
    <3> QED
      BY <3>1, <3>2
  <2>11. Len(bands') <= Len(Targets)
    BY <2>1, <2>4, <2>9
  <2>12. BandsInterpolated'
    BY <2>1, <2>3, <2>9, <2>10, <2>11 DEF BandsInterpolated, Null
  <2> QED
    BY <2>2, <2>12 DEF HeightsInv
<1>2. CASE UNCHANGED vars
  <2>1. ProfileOK'
    BY <1>2 DEF HeightsInv, ProfileOK, vars
  <2>2. OnFull' = OnFull /\ FullHeights' = FullHeights
    BY <1>2 DEF OnFull, FullHeights, vars
  <2>3. BandsInterpolated'
    BY <1>2, <2>2 DEF HeightsInv, BandsInterpolated, vars
  <2> QED
    BY <2>1, <2>3 DEF HeightsInv
<1> QED
  BY <1>1, <1>2 DEF Next

-----------------------------------------------------------------------------
(* The properties *)

Inside(i) == \E j, k \in 1..NFull : /\ FullHeights[j] <= TargetOf(i)
                                    /\ TargetOf(i) < FullHeights[k]

\* A band that is not null lies between two levels, and is what they make of it.
LEMMA BandIs ==
    ASSUME HeightsInv, NEW i \in 1..Len(bands)
    PROVE  /\ TargetOf(i) \in Int
           /\ nU = NFull /\ Inside(i) <=> bands[i].u # Null
           /\ nU = NFull /\ nW # NFull - 1 /\ Inside(i) <=> bands[i].w # Null
           /\ \A b \in {bands[i].u, bands[i].w} : b # Null =>
                 \E lo, hi \in 1..NFull :
                    /\ Bracketed(FullHeights, NFull, TargetOf(i), lo, hi)
                    /\ b = Weighted(OnFull[lo], OnFull[hi],
                                    FullHeights[lo], FullHeights[hi], TargetOf(i))
<1> DEFINE b == Interpolated(OnFull, FullHeights, Targets[i])
           z == FullHeights
           f == OnFull
           t == TargetOf(i)
<1>1. /\ NFull \in Nat \ {0} /\ z \in [1..NFull -> Int] /\ f \in [1..NFull -> Int]
      /\ Rising(z, NFull) \/ Falling(z, NFull)
  BY LevelsAre DEF HeightsInv
<1>2. Targets[i] \in Int /\ t = 2 * Targets[i] /\ t \in Int
  <2>1. i \in 1..Len(Targets) /\ Targets \in Seq(Int)
    BY HeightsAssumption DEF HeightsInv, BandsInterpolated
  <2> QED
    BY <2>1 DEF TargetOf
<1> HIDE DEF z, f, t
<1>3. IF \E j, k \in 1..NFull : z[j] <= t /\ t < z[k]
      THEN \E lo, hi \in 1..NFull :
              /\ Bracketed(z, NFull, t, lo, hi)
              /\ Interpolated(f, z, Targets[i]) = Weighted(f[lo], f[hi], z[lo], z[hi], t)
      ELSE Interpolated(f, z, Targets[i]) = Null
  BY <1>1, <1>2, InterpolatedIs
<1>4. b = Interpolated(f, z, Targets[i])
  BY DEF z, f
<1>5. Inside(i) <=> \E j, k \in 1..NFull : z[j] <= t /\ t < z[k]
  BY DEF Inside, z, t
<1> HIDE DEF b
<1>6. ASSUME NEW lo \in 1..NFull, NEW hi \in 1..NFull, Bracketed(z, NFull, t, lo, hi)
      PROVE  Weighted(f[lo], f[hi], z[lo], z[hi], t) # Null
  <2>1. z[lo] \in Int /\ z[hi] \in Int /\ z[lo] <= t /\ z[hi] > t
    BY <1>1, <1>6 DEF Bracketed
  <2>2. 2 * (z[hi] - z[lo]) # 0
    BY <1>2, <2>1
  <2>3. Weighted(f[lo], f[hi], z[lo], z[hi], t).den # 0
    BY <2>2 DEF Weighted
  <2> QED
    BY <2>3 DEF Null
<1>7. Inside(i) <=> b # Null
  BY <1>3, <1>4, <1>5, <1>6
<1>8. b # Null => \E lo, hi \in 1..NFull : /\ Bracketed(z, NFull, t, lo, hi)
                                           /\ b = Weighted(f[lo], f[hi], z[lo], z[hi], t)
  BY <1>3, <1>4
<1>9. /\ bands[i].u = IF nU = NFull THEN b ELSE Null
      /\ bands[i].w = IF nU = NFull /\ nW # NFull - 1 THEN b ELSE Null
  BY DEF HeightsInv, BandsInterpolated, b
<1>10. ASSUME NEW x \in {bands[i].u, bands[i].w}, x # Null
       PROVE  \E lo, hi \in 1..NFull :
                 /\ Bracketed(FullHeights, NFull, TargetOf(i), lo, hi)
                 /\ x = Weighted(OnFull[lo], OnFull[hi],
                                 FullHeights[lo], FullHeights[hi], TargetOf(i))
  <2>1. x = b /\ b # Null
    BY <1>9, <1>10
  <2> QED
    BY <1>8, <2>1 DEF z, f, t
<1> QED
  BY <1>2, <1>7, <1>9, <1>10 DEF t

LEMMA NullSuffices == HeightsInv => NullExactlyOutside
<1> SUFFICES ASSUME HeightsInv, NEW i \in 1..Len(bands)
             PROVE  /\ bands[i].u = Null <=> ~(nU = NFull /\ Inside(i))
                    /\ bands[i].w = Null <=> ~(nU = NFull /\ nW # NFull - 1 /\ Inside(i))
  BY DEF NullExactlyOutside, Inside
<1> QED
  BY BandIs

\* A weighted mean lies between its two values, and is the first at its level.
MeanOf(b, f0, f1) ==
    /\ b.den > 0
    /\ \/ f0 * b.den <= 2 * b.num /\ 2 * b.num <= f1 * b.den
       \/ f1 * b.den <= 2 * b.num /\ 2 * b.num <= f0 * b.den

IsValue(b, f0) == 2 * b.num = f0 * b.den

LEMMA WeightedBetween ==
    ASSUME NEW f0 \in Int, NEW f1 \in Int, NEW z0 \in Int, NEW z1 \in Int, NEW t \in Int,
           z0 <= t, t < z1
    PROVE  /\ MeanOf(Weighted(f0, f1, z0, z1, t), f0, f1)
           /\ z0 = t => IsValue(Weighted(f0, f1, z0, z1, t), f0)
<1> DEFINE p == t - z0
           q == z1 - t
           b == Weighted(f0, f1, z0, z1, t)
<1>1. p \in Nat /\ q \in Nat /\ q > 0 /\ z1 - z0 = p + q /\ (z0 = t => p = 0)
  OBVIOUS
<1>2. b.num = f0 * q + f1 * p /\ b.den = 2 * (p + q)
  BY <1>1 DEF Weighted
<1> HIDE DEF p, q, b
<1>3. /\ f0 * q \in Int /\ f0 * p \in Int /\ f1 * q \in Int /\ f1 * p \in Int
      /\ f0 * b.den = 2 * (f0 * p) + 2 * (f0 * q)
      /\ f1 * b.den = 2 * (f1 * p) + 2 * (f1 * q)
  BY <1>1, <1>2
<1>4. f0 <= f1 => f0 * p <= f1 * p /\ f0 * q <= f1 * q
  BY <1>1
<1>5. f1 <= f0 => f1 * p <= f0 * p /\ f1 * q <= f0 * q
  BY <1>1
<1>6. b.den > 0 /\ 2 * b.num = 2 * (f0 * q) + 2 * (f1 * p)
  BY <1>1, <1>2, <1>3
<1>7. z0 = t => IsValue(b, f0)
  <2>1. z0 = t => f0 * p = 0 /\ f1 * p = 0
    BY <1>1
  <2> QED
    BY <1>3, <1>6, <2>1 DEF IsValue
<1>8. CASE f0 <= f1
  <2>1. f0 * b.den <= 2 * b.num /\ 2 * b.num <= f1 * b.den
    BY <1>3, <1>4, <1>6, <1>8
  <2> QED
    BY <1>6, <1>7, <2>1 DEF MeanOf, b
<1>9. CASE f1 <= f0
  <2>1. f1 * b.den <= 2 * b.num /\ 2 * b.num <= f0 * b.den
    BY <1>3, <1>5, <1>6, <1>9
  <2> QED
    BY <1>6, <1>7, <2>1 DEF MeanOf, b
<1> QED
  BY <1>8, <1>9

\* Interpolated between two heights that were rounded, a height comes out no more
\* than half a quantum off.
ShowsHeight(b, t) == 2 * Abs(2 * b.num - b.den * t) <= b.den * Quantum

LEMMA RoundedBetween ==
    ASSUME NEW m0 \in Int, NEW m1 \in Int, NEW t \in Int,
           Rounded(m0) <= t, t < Rounded(m1)
    PROVE  ShowsHeight(Weighted(m0, m1, Rounded(m0), Rounded(m1), t), t)
<1> DEFINE d0 == m0 - Rounded(m0)
           d1 == m1 - Rounded(m1)
           p  == t - Rounded(m0)
           q  == Rounded(m1) - t
           b  == Weighted(m0, m1, Rounded(m0), Rounded(m1), t)
<1>1. /\ Rounded(m0) \in Int /\ 2 * (Rounded(m0) - m0) <= Quantum
      /\ 2 * (m0 - Rounded(m0)) <= Quantum
      /\ Rounded(m1) \in Int /\ 2 * (Rounded(m1) - m1) <= Quantum
      /\ 2 * (m1 - Rounded(m1)) <= Quantum
  BY RoundedNear
<1>2. d0 \in Int /\ d1 \in Int /\ p \in Nat /\ q \in Nat /\ Quantum \in Nat
  <2> DEFINE r0 == Rounded(m0)
             r1 == Rounded(m1)
  <2>1. r0 \in Int /\ r1 \in Int /\ r0 <= t /\ t < r1
    BY <1>1
  <2> HIDE DEF r0, r1
  <2>2. m0 - r0 \in Int /\ m1 - r1 \in Int /\ t - r0 \in Nat /\ r1 - t \in Nat
    BY <2>1
  <2> QED
    BY <2>2, HeightsAssumption DEF r0, r1
<1>3. 2 * d0 <= Quantum /\ -(2 * d0) <= Quantum /\ 2 * d1 <= Quantum /\ -(2 * d1) <= Quantum
  BY <1>1, <1>2
<1>4. m0 = (t - p) + d0 /\ m1 = (t + q) + d1 /\ Rounded(m1) - Rounded(m0) = p + q
  BY <1>1
<1>5. b.num = m0 * q + m1 * p /\ b.den = 2 * (p + q)
  BY <1>4 DEF Weighted
<1> HIDE DEF d0, d1, p, q, b
<1> DEFINE x0 == d0 * q
           x1 == d1 * p
           w0 == Quantum * q
           w1 == Quantum * p
           tp == t * p
           tq == t * q
           pq == p * q
<1>6. /\ x0 \in Int /\ x1 \in Int /\ w0 \in Int /\ w1 \in Int
      /\ tp \in Int /\ tq \in Int /\ pq \in Int
  BY <1>2
<1>7. 2 * x0 <= w0 /\ -(2 * x0) <= w0
  BY <1>2, <1>3
<1>8. 2 * x1 <= w1 /\ -(2 * x1) <= w1
  BY <1>2, <1>3
<1>9. m0 * q = (tq - pq) + x0 /\ m1 * p = (tp + pq) + x1
  BY <1>2, <1>4
<1>10. b.den * t = 2 * tp + 2 * tq /\ b.den * Quantum = 2 * w1 + 2 * w0
  BY <1>2, <1>5
<1> HIDE DEF x0, x1, w0, w1, tp, tq, pq
<1>11. 2 * b.num - b.den * t = 2 * (x0 + x1)
  BY <1>5, <1>6, <1>9, <1>10
<1>12. 2 * Abs(2 * (x0 + x1)) <= 2 * w1 + 2 * w0
  BY <1>6, <1>7, <1>8 DEF Abs
<1> QED
  BY <1>10, <1>11, <1>12 DEF ShowsHeight, b

LEMMA NeighboursSuffice == HeightsInv => BetweenNeighbours
<1> SUFFICES ASSUME HeightsInv, NEW i \in 1..Len(bands), bands[i].u # Null
             PROVE  LET z    == FullHeights
                        t    == TargetOf(i)
                        near == {k \in 1..NFull :
                            \/ z[k] <= t /\ \A j \in 1..NFull : z[j] <= t => z[j] <= z[k]
                            \/ z[k] > t /\ \A j \in 1..NFull : z[j] > t => z[j] >= z[k]}
                        b    == bands[i].u
                    IN  /\ b.den > 0
                        /\ \E j, k \in near :
                              OnFull[j] * b.den <= 2 * b.num /\ 2 * b.num <= OnFull[k] * b.den
                        /\ \A k \in 1..NFull : z[k] = t =>
                              \E j \in 1..NFull : z[j] = t /\ 2 * b.num = OnFull[j] * b.den
  BY DEF BetweenNeighbours
<1> DEFINE z == FullHeights
           f == OnFull
           t == TargetOf(i)
           b == bands[i].u
           near == {k \in 1..NFull :
                       \/ z[k] <= t /\ \A j \in 1..NFull : z[j] <= t => z[j] <= z[k]
                       \/ z[k] > t /\ \A j \in 1..NFull : z[j] > t => z[j] >= z[k]}
<1>1. z \in [1..NFull -> Int] /\ f \in [1..NFull -> Int] /\ t \in Int
  BY LevelsAre, BandIs DEF HeightsInv
<1>2. PICK lo \in 1..NFull, hi \in 1..NFull :
        Bracketed(z, NFull, t, lo, hi) /\ b = Weighted(f[lo], f[hi], z[lo], z[hi], t)
  BY BandIs
<1> HIDE DEF z, f, t, b
<1>3. /\ z[lo] <= t /\ \A j \in 1..NFull : z[j] <= t => z[j] <= z[lo]
      /\ z[hi] > t /\ \A j \in 1..NFull : z[j] > t => z[j] >= z[hi]
  BY <1>2 DEF Bracketed
<1>4. lo \in near /\ hi \in near
  BY <1>3
<1>5. MeanOf(b, f[lo], f[hi]) /\ (z[lo] = t => IsValue(b, f[lo]))
  <2>1. f[lo] \in Int /\ f[hi] \in Int /\ z[lo] \in Int /\ z[hi] \in Int /\ t < z[hi]
    BY <1>1, <1>3
  <2> QED
    BY <1>1, <1>2, <1>3, <2>1, WeightedBetween
<1> HIDE DEF near
<1>6. /\ b.den > 0
      /\ \E j, k \in near : f[j] * b.den <= 2 * b.num /\ 2 * b.num <= f[k] * b.den
  BY <1>4, <1>5 DEF MeanOf
<1>7. ASSUME NEW k \in 1..NFull, z[k] = t
      PROVE  \E j \in 1..NFull : z[j] = t /\ 2 * b.num = f[j] * b.den
  <2>1. z[k] <= z[lo] /\ z[lo] \in Int
    BY <1>1, <1>3, <1>7
  <2>2. z[lo] = t
    BY <1>1, <1>3, <1>7, <2>1
  <2> QED
    BY <1>5, <2>2 DEF IsValue
<1> QED
  BY <1>6, <1>7 DEF z, f, t, b, near

LEMMA LinearSuffices == HeightsInv => LinearWindReproduced
<1> SUFFICES ASSUME HeightsInv, field = half, NEW i \in 1..Len(bands),
                    NEW b \in {bands[i].u, bands[i].w}, b # Null
             PROVE  ShowsHeight(b, TargetOf(i))
  BY DEF LinearWindReproduced, ShowsHeight
<1> DEFINE z == FullHeights
           m == OnFull
           t == TargetOf(i)
<1>1. z \in [1..NFull -> Int] /\ m \in [1..NFull -> Int] /\ t \in Int
  BY LevelsAre, BandIs DEF HeightsInv
<1>2. PICK lo \in 1..NFull, hi \in 1..NFull :
        Bracketed(z, NFull, t, lo, hi) /\ b = Weighted(m[lo], m[hi], z[lo], z[hi], t)
  BY BandIs
<1>3. z[lo] = Rounded(m[lo]) /\ z[hi] = Rounded(m[hi])
  BY DEF FullHeights, OnFull
<1> HIDE DEF z, m, t
<1>4. m[lo] \in Int /\ m[hi] \in Int /\ z[lo] <= t /\ z[hi] > t /\ z[hi] \in Int
  BY <1>1, <1>2 DEF Bracketed
<1>5. t < z[hi]
  BY <1>1, <1>4
<1>6. ShowsHeight(b, t)
  BY <1>1, <1>2, <1>3, <1>4, <1>5, RoundedBetween
<1> QED
  BY <1>6 DEF t

LEMMA HeightsAlways == Spec => []HeightsInv
<1> QED
  BY InitHeights, NextHeights, PTL DEF Spec

\* Whatever the heights of a point and the numbers of levels in the files are, a
\* band is null exactly when no level is at it or below, or none above.
THEOREM NullOutside == Spec => []NullExactlyOutside
<1> QED
  BY HeightsAlways, NullSuffices, PTL

\* The value of a band lies between those of the nearest levels below and above,
\* and at a level it is that of the level.
THEOREM ValuesBetween == Spec => []BetweenNeighbours
<1> QED
  BY HeightsAlways, NeighboursSuffice, PTL

\* A wind that grows with the height is found at every band, of U and of W and in
\* either order of the file, to within the precision of the heights.
THEOREM LinearReproduced == Spec => []LinearWindReproduced
<1> QED
  BY HeightsAlways, LinearSuffices, PTL

=============================================================================
