--------------------------- MODULE PriceFeedProofs ---------------------------
(***************************************************************************)
(* Proofs about the simulated market: a price is shown only as a positive  *)
(* number of cents, which rests on the floor of one tick alone, whatever   *)
(* the seed was; a tick moves a live price by no more than the walk; and   *)
(* the browser's and the server's figures agree to the cent, which rests   *)
(* on the running sums of a book and on what rounding lets through.        *)
(***************************************************************************)
EXTENDS PriceFeed, ListingProofs

-----------------------------------------------------------------------------
(* Sums *)

\* The running sums of a sequence of integers exist and end in its total.
LEMMA RunningSums ==
    ASSUME NEW w \in Seq(Int)
    PROVE  \E g \in [0 .. Len(w) -> Int] :
              /\ g[0] = 0
              /\ \A n \in 1 .. Len(w) : g[n] = g[n - 1] + w[n]
              /\ Total(w) = g[Len(w)]
<1> DEFINE N == Len(w)
           Sums(k) == [0 .. k -> Int]
           Is(g, k) == g = [n \in 0 .. k |-> IF n = 0 THEN 0 ELSE g[n - 1] + w[n]]
           Bad == {k \in 0 .. N : ~\E g \in Sums(k) : Is(g, k)}
<1>1. N \in Nat /\ \A n \in 1 .. N : w[n] \in Int
  OBVIOUS
<1> HIDE DEF N
<1>2. Bad = {}
  <2> SUFFICES ASSUME Bad # {} PROVE FALSE
    OBVIOUS
  <2>1. Bad \in SUBSET Nat
    BY <1>1
  <2>2. PICK k \in Bad : \A j \in Bad : k <= j
    BY <2>1, LeastNatural
  <2>3. k \in 0 .. N
    OBVIOUS
  <2>4. CASE k = 0
    <3>1. [n \in 0 .. 0 |-> 0] \in Sums(0)
      OBVIOUS
    <3>2. Is([n \in 0 .. 0 |-> 0], 0)
      OBVIOUS
    <3> QED
      BY <2>4, <3>1, <3>2
  <2>5. CASE k # 0
    <3>1. PICK j \in Nat : k = j + 1
      BY <2>3, <2>5, <1>1
    <3>2. j \in 0 .. N /\ ~(k <= j)
      BY <2>3, <3>1, <1>1
    <3>3. j \notin Bad
      BY <2>2, <3>2
    <3>4. PICK g \in Sums(j) : Is(g, j)
      BY <3>2, <3>3
    <3> DEFINE h == [n \in 0 .. k |-> IF n = k THEN g[j] + w[k] ELSE g[n]]
    <3>5. h \in Sums(k)
      BY <1>1, <2>3, <2>5, <3>1, <3>4
    <3>6. \A n \in 0 .. k : h[n] = IF n = 0 THEN 0 ELSE h[n - 1] + w[n]
      <4> SUFFICES ASSUME NEW n \in 0 .. k
                   PROVE  h[n] = IF n = 0 THEN 0 ELSE h[n - 1] + w[n]
        OBVIOUS
      <4>1. CASE n = 0
        BY <2>3, <2>5, <3>1, <3>4, <4>1
      <4>2. CASE n = k
        BY <2>3, <2>5, <3>1, <3>4, <4>2
      <4>3. CASE n # 0 /\ n # k
        <5>1. n \in 1 .. j /\ n - 1 \in 0 .. j
          BY <2>3, <3>1, <4>3
        <5>2. g[n] = g[n - 1] + w[n]
          BY <3>4, <5>1
        <5>3. h[n] = g[n] /\ h[n - 1] = g[n - 1]
          BY <2>3, <3>1, <5>1
        <5> QED
          BY <4>3, <5>2, <5>3
      <4> QED
        BY <4>1, <4>2, <4>3
    <3>7. Is(h, k)
      <4> DEFINE r == [n \in 0 .. k |-> IF n = 0 THEN 0 ELSE h[n - 1] + w[n]]
      <4>1. h = [n \in 0 .. k |-> h[n]]
        OBVIOUS
      <4> HIDE DEF h
      <4>2. \A n \in 0 .. k : h[n] = r[n]
        BY <3>6
      <4>3. h = r
        BY <4>1, <4>2
      <4> QED
        BY <4>3
    <3> QED
      BY <3>5, <3>7
  <2> QED
    BY <2>4, <2>5
<1>3. \E g : Is(g, N)
  <2>1. N \in 0 .. N
    BY <1>1
  <2>2. \E g \in Sums(N) : Is(g, N)
    BY <1>2, <2>1
  <2> QED
    BY <2>2
<1> DEFINE sum == CHOOSE g : Is(g, N)
<1>4. Is(sum, N)
  BY <1>3
<1>5. Total(w) = sum[N]
  BY DEF Total, N
<1> HIDE DEF sum
<1>6. sum[0] = 0 /\ \A n \in 1 .. N : sum[n] = sum[n - 1] + w[n]
  BY <1>1, <1>4
<1>7. sum \in [0 .. N -> Int]
  <2> DEFINE Odd == {n \in 0 .. N : sum[n] \notin Int}
  <2>1. Odd = {}
    <3> SUFFICES ASSUME Odd # {} PROVE FALSE
      OBVIOUS
    <3>1. Odd \in SUBSET Nat
      BY <1>1
    <3>2. PICK k \in Odd : \A j \in Odd : k <= j
      BY <3>1, LeastNatural
    <3>3. k # 0 /\ k \in 1 .. N
      BY <1>1, <1>6, <3>2
    <3>4. k - 1 \in 0 .. N /\ ~(k <= k - 1)
      BY <1>1, <3>3
    <3>5. k - 1 \notin Odd
      BY <3>2, <3>4
    <3>6. sum[k - 1] \in Int
      BY <3>4, <3>5
    <3>7. sum[k] = sum[k - 1] + w[k] /\ w[k] \in Int
      BY <1>1, <1>6, <3>3
    <3>8. sum[k] \in Int
      BY <3>6, <3>7
    <3> QED
      BY <3>8
  <2>2. sum = [n \in 0 .. N |-> sum[n]]
    BY <1>4
  <2> QED
    BY <2>1, <2>2
<1> QED
  BY <1>5, <1>6, <1>7 DEF N

\* A sum of natural numbers is one, and is 0 only if all of them are.
LEMMA TotalOfNaturals ==
    ASSUME NEW w \in Seq(Nat)
    PROVE  /\ Total(w) \in Nat
           /\ Total(w) = 0 <=> \A n \in DOMAIN w : w[n] = 0
<1> DEFINE N == Len(w)
<1>1. w \in Seq(Int) /\ N \in Nat /\ DOMAIN w = 1 .. N /\ \A n \in 1 .. N : w[n] \in Nat
  OBVIOUS
<1>2. PICK g \in [0 .. N -> Int] : /\ g[0] = 0
                                   /\ \A n \in 1 .. N : g[n] = g[n - 1] + w[n]
                                   /\ Total(w) = g[N]
  BY <1>1, RunningSums
<1> HIDE DEF N
<1> DEFINE Good(n) == /\ g[n] \in Nat
                      /\ \A m \in 1 .. n : w[m] <= g[n]
                      /\ (\A m \in 1 .. n : w[m] = 0) => g[n] = 0
           Bad == {n \in 0 .. N : ~Good(n)}
<1>3. Bad = {}
  <2> SUFFICES ASSUME Bad # {} PROVE FALSE
    OBVIOUS
  <2>1. Bad \in SUBSET Nat
    BY <1>1
  <2>2. PICK k \in Bad : \A j \in Bad : k <= j
    BY <2>1, LeastNatural
  <2>3. k \in 0 .. N
    OBVIOUS
  <2>4. k # 0
    <3>1. Good(0)
      BY <1>2
    <3> QED
      BY <3>1, <2>2
  <2>5. PICK j \in Nat : k = j + 1
    BY <2>3, <2>4, <1>1
  <2>6. j \in 0 .. N /\ k \in 1 .. N /\ j = k - 1
    BY <1>1, <2>3, <2>4, <2>5
  <2>7. Good(j)
    BY <2>2, <2>5, <2>6
  <2>8. g[k] = g[j] + w[k] /\ w[k] \in Nat
    BY <1>1, <1>2, <2>6
  <2>9. \A m \in 1 .. k : m = k \/ m \in 1 .. j
    BY <2>5
  <2>10. Good(k)
    <3>1. g[j] \in Nat /\ \A m \in 1 .. j : w[m] <= g[j]
      BY <2>7
    <3>2. \A m \in 1 .. k : w[m] \in Nat
      BY <1>1, <2>6
    <3>3. g[k] \in Nat /\ \A m \in 1 .. k : w[m] <= g[k]
      <4>1. g[k] \in Nat /\ g[j] <= g[k] /\ w[k] <= g[k]
        BY <2>8, <3>1
      <4>2. ASSUME NEW m \in 1 .. j, m \in 1 .. k PROVE w[m] <= g[k]
        <5>1. w[m] <= g[j] /\ w[m] \in Nat
          BY <3>1, <3>2, <4>2
        <5> QED
          BY <3>1, <4>1, <5>1
      <4> QED
        BY <2>9, <4>1, <4>2
    <3>4. ASSUME \A m \in 1 .. k : w[m] = 0 PROVE g[k] = 0
      <4>1. k \in 1 .. k /\ \A m \in 1 .. j : m \in 1 .. k
        BY <2>5
      <4>2. g[j] = 0 /\ w[k] = 0
        BY <2>7, <3>4, <4>1
      <4> QED
        BY <2>8, <4>2
    <3> QED
      BY <3>3, <3>4
  <2> QED
    BY <2>2, <2>10
<1>4. N \in 0 .. N
  BY <1>1
<1>5. Good(N)
  BY <1>3, <1>4
<1>6. (\A n \in 1 .. N : w[n] = 0) => Total(w) = 0
  BY <1>2, <1>5
<1>7. ASSUME Total(w) = 0, NEW n \in 1 .. N PROVE w[n] = 0
  BY <1>1, <1>2, <1>5, <1>7
<1> QED
  BY <1>1, <1>2, <1>5, <1>6, <1>7

-----------------------------------------------------------------------------
(* Rounding *)

\* Multiplication by a natural number keeps the order.
LEMMA TimesMonotone ==
    ASSUME NEW k \in Nat, NEW x \in Int, NEW y \in Int, x <= y
    PROVE  k * x <= k * y
<1>1. y - x \in Nat
  OBVIOUS
<1>2. k * (y - x) >= 0
  BY <1>1
<1>3. k * (y - x) = k * y - k * x
  OBVIOUS
<1> QED
  BY <1>2, <1>3

\* The quotient is the only number of its kind.
LEMMA Quotient ==
    ASSUME NEW a \in Int, NEW b \in Nat \ {0}, NEW q \in Int,
           b * q <= a, a < b * q + b
    PROVE  a \div b = q
<1>1. PICK p \in Int : p = a \div b
  OBVIOUS
<1>2. b * p <= a /\ a < b * p + b
  BY <1>1
<1>3. ASSUME p < q PROVE FALSE
  <2>1. b * (p + 1) <= b * q
    BY <1>3, TimesMonotone
  <2>2. b * (p + 1) = b * p + b
    OBVIOUS
  <2>3. b * p \in Int /\ b * q \in Int
    OBVIOUS
  <2> QED
    BY <1>2, <2>1, <2>2, <2>3
<1>4. ASSUME q < p PROVE FALSE
  <2>1. b * (q + 1) <= b * p
    BY <1>4, TimesMonotone
  <2>2. b * (q + 1) = b * q + b
    OBVIOUS
  <2>3. b * p \in Int /\ b * q \in Int
    OBVIOUS
  <2> QED
    BY <1>2, <2>1, <2>2, <2>3
<1> QED
  BY <1>1, <1>3, <1>4

\* A common factor cancels.
LEMMA QuotientScaled ==
    ASSUME NEW a \in Int, NEW b \in Nat \ {0}, NEW k \in Nat \ {0}
    PROVE  (k * a) \div (k * b) = a \div b
<1>1. PICK q \in Int : q = a \div b
  OBVIOUS
<1>2. b * q <= a /\ a < b * q + b
  BY <1>1
<1>3. PICK r \in Int : r = a - b * q
  OBVIOUS
<1>4. 0 <= r /\ r + 1 <= b /\ a = b * q + r
  BY <1>2, <1>3
<1>5. k * 0 <= k * r /\ k * (r + 1) <= k * b
  BY <1>4, TimesMonotone
<1>6. k * a = k * (b * q) + k * r
  BY <1>4
<1>7. PICK m \in Nat \ {0} : m = k * b
  OBVIOUS
<1>8. k * (b * q) = m * q
  BY <1>7
<1>9. PICK c \in Int, d \in Int : c = k * a /\ d = k * r
  OBVIOUS
<1>10. m * q \in Int /\ k * (r + 1) = d + k
  BY <1>9
<1>11. m * q <= c /\ c < m * q + m
  BY <1>5, <1>6, <1>7, <1>8, <1>9, <1>10
<1>12. c \div m = q
  BY <1>11, Quotient
<1> QED
  BY <1>1, <1>7, <1>9, <1>12

\* Whole numbers pass through the quotient.
LEMMA QuotientShifted ==
    ASSUME NEW a \in Int, NEW b \in Nat \ {0}, NEW k \in Int
    PROVE  (a + b * k) \div b = a \div b + k
<1>1. PICK q \in Int : q = a \div b
  OBVIOUS
<1>2. b * q <= a /\ a < b * q + b
  BY <1>1
<1>3. PICK c \in Int, p \in Int : c = a + b * k /\ p = q + k
  OBVIOUS
<1>4. b * p = b * q + b * k /\ b * k \in Int /\ b * q \in Int
  BY <1>3
<1>5. b * p <= c /\ c < b * p + b
  BY <1>2, <1>3, <1>4
<1>6. c \div b = p
  BY <1>5, Quotient
<1> QED
  BY <1>1, <1>3, <1>6

\* round2 returns whole cents, and none below zero for a sum that is not.
LEMMA RoundType ==
    ASSUME NEW x \in Int, NEW d \in Nat \ {0}
    PROVE  \E k \in Int : /\ round2(x, d) = Cent * k
                          /\ x \in Nat => k \in Nat
<1>1. PICK n \in Int, m \in Nat \ {0} : /\ n = 2 * x + d * Cent
                                       /\ m = 2 * d * Cent
  BY CentAssumption
<1>2. PICK k \in Int : k = n \div m
  OBVIOUS
<1>3. ASSUME x \in Nat PROVE k \in Nat
  <2>1. n \in Nat
    BY <1>1, <1>3, CentAssumption
  <2>2. n < m * k + m
    BY <1>2
  <2>3. ASSUME k + 1 <= 0 PROVE FALSE
    <3>1. m * (k + 1) <= m * 0
      BY <2>3, TimesMonotone
    <3>2. m * (k + 1) = m * k + m /\ m * k \in Int
      OBVIOUS
    <3> QED
      BY <2>1, <2>2, <3>1, <3>2
  <2> QED
    BY <2>3
<1> QED
  BY <1>1, <1>2, <1>3 DEF round2

\* An amount over a denominator is rounded as the amount is.
LEMMA RoundScaled ==
    ASSUME NEW x \in Int, NEW k \in Nat \ {0}
    PROVE  round2(k * x, k) = round2(x, 1)
<1>1. PICK a \in Int, b \in Nat \ {0} : a = 2 * x + Cent /\ b = 2 * Cent
  BY CentAssumption
<1>2. (k * a) \div (k * b) = a \div b
  BY QuotientScaled
<1>3. k * a = 2 * (k * x) + k * Cent /\ k * b = 2 * k * Cent
  BY <1>1, CentAssumption
<1>4. 1 * Cent = Cent /\ 2 * 1 * Cent = 2 * Cent
  BY CentAssumption
<1> QED
  BY <1>1, <1>2, <1>3, <1>4 DEF round2

\* Whole cents pass through the rounding.
LEMMA RoundShifted ==
    ASSUME NEW x \in Int, NEW k \in Int
    PROVE  round2(x + Cent * k, 1) = round2(x, 1) + Cent * k
<1>1. PICK a \in Int, b \in Nat \ {0} : a = 2 * x + Cent /\ b = 2 * Cent
  BY CentAssumption
<1>2. (a + b * k) \div b = a \div b + k
  BY QuotientShifted
<1>3. a + b * k = 2 * (x + Cent * k) + Cent
  BY <1>1, CentAssumption
<1>4. 1 * Cent = Cent /\ 2 * 1 * Cent = 2 * Cent
  BY CentAssumption
<1>5. PICK q \in Int : q = a \div b
  OBVIOUS
<1>6. Cent * (q + k) = Cent * q + Cent * k
  BY CentAssumption
<1> QED
  BY <1>1, <1>2, <1>3, <1>4, <1>5, <1>6 DEF round2

\* The lesser of two numbers.
LEMMA LesserOfTwo ==
    ASSUME NEW a \in Int, NEW b \in Int
    PROVE  Min({a, b}) = IF a <= b THEN a ELSE b
<1>1. CASE a <= b
  <2>1. \A x \in {a, b} : (\A y \in {a, b} : x <= y) <=> x = a
    BY <1>1
  <2>2. Min({a, b}) = CHOOSE x \in {a, b} : x = a
    BY <2>1 DEF Min
  <2> QED
    BY <1>1, <2>2
<1>2. CASE ~(a <= b)
  <2>1. \A x \in {a, b} : (\A y \in {a, b} : x <= y) <=> x = b
    BY <1>2
  <2>2. Min({a, b}) = CHOOSE x \in {a, b} : x = b
    BY <2>1 DEF Min
  <2> QED
    BY <1>2, <2>2
<1> QED
  BY <1>1, <1>2

\* The greater of two numbers.
LEMMA GreaterOfTwo ==
    ASSUME NEW a \in Int, NEW b \in Int
    PROVE  Max({a, b}) = IF a >= b THEN a ELSE b
<1>1. CASE a >= b
  <2>1. \A x \in {a, b} : (\A y \in {a, b} : x >= y) <=> x = a
    BY <1>1
  <2>2. Max({a, b}) = CHOOSE x \in {a, b} : x = a
    BY <2>1 DEF Max
  <2> QED
    BY <1>1, <2>2
<1>2. CASE ~(a >= b)
  <2>1. \A x \in {a, b} : (\A y \in {a, b} : x >= y) <=> x = b
    BY <1>2
  <2>2. Max({a, b}) = CHOOSE x \in {a, b} : x = b
    BY <2>1 DEF Max
  <2> QED
    BY <1>2, <2>2
<1> QED
  BY <1>1, <1>2

\* A number of whole cents.
Cents == {Cent * k : k \in Nat}

\* What whole cents are.
LEMMA CentsAreCents ==
    ASSUME NEW p \in Cents
    PROVE  p \in Nat /\ p % Cent = 0
<1>1. PICK k \in Nat : p = Cent * k
  BY DEF Cents
<1>2. PICK c \in Nat \ {0} : c = Cent
  BY CentAssumption
<1>3. c * k \in Nat
  OBVIOUS
<1>4. c * k <= c * k /\ c * k < c * k + c
  BY <1>3
<1>5. (c * k) \div c = k
  BY <1>3, <1>4, Quotient
<1>6. PICK x \in Nat : x = c * k
  BY <1>3
<1>7. x % c = x - c * (x \div c)
  OBVIOUS
<1> QED
  BY <1>1, <1>2, <1>5, <1>6, <1>7

-----------------------------------------------------------------------------
(* One row of the view *)

\* The view's total of one symbol, bought or sold alone or both.
LEMMA TotalOfPosition ==
    ASSUME NEW bq \in Nat, NEW sq \in Nat, bq # sq,
           NEW bc \in Nat, bq = 0 => bc = 0,
           NEW sc \in Nat, sq = 0 => sc = 0,
           NEW mp \in Cents,
           NEW net \in Int, net = bq - sq,
           NEW x \in Int, x = sc - bc
    PROVE  /\ Position(bq, sq, bc, sc, mp).netQty = net
           /\ Position(bq, sq, bc, sc, mp).totalPnl = round2(x, 1) + net * mp
<1>1. net = bq - sq /\ x = sc - bc
  OBVIOUS
<1>2. PICK k \in Nat : mp \in Int /\ mp = Cent * k
  BY CentsAreCents DEF Cents
<1> DEFINE db == Divisor(bq)
           ds == Divisor(sq)
           avg == IF net > 0 THEN bc * ds ELSE sc * db
           all == net * (mp * (db * ds) - avg) + Min({bq, sq}) * (sc * db - bc * ds)
<1>3. db \in Nat \ {0} /\ ds \in Nat \ {0}
  BY DEF Divisor
<1>4. PICK scale \in Nat \ {0} : scale = db * ds
  BY <1>3
<1>5. Min({bq, sq}) = IF bq <= sq THEN bq ELSE sq
  BY LesserOfTwo
<1>6. all = (db * ds) * (x + net * mp)
  <2>1. CASE net > 0 /\ sq # 0
    <3>1. db = bq /\ ds = sq /\ Min({bq, sq}) = sq /\ avg = bc * sq
      BY <1>1, <1>5, <2>1 DEF Divisor
    <3>2. all = net * (mp * (bq * sq) - bc * sq) + sq * (sc * bq - bc * sq)
      BY <1>2, <3>1
    <3> QED
      BY <1>1, <1>2, <3>1, <3>2
  <2>2. CASE net > 0 /\ sq = 0
    <3>1. db = bq /\ ds = 1 /\ Min({bq, sq}) = 0 /\ avg = bc * 1
      BY <1>1, <1>5, <2>2 DEF Divisor
    <3>2. sc = 0 /\ net = bq
      BY <1>1, <2>2
    <3>3. all = net * (mp * (bq * 1) - bc * 1)
      BY <1>2, <3>1
    <3> QED
      BY <1>1, <1>2, <3>1, <3>2, <3>3
  <2>3. CASE ~(net > 0) /\ bq # 0
    <3>1. db = bq /\ ds = sq /\ Min({bq, sq}) = bq /\ avg = sc * bq
      BY <1>1, <1>5, <2>3 DEF Divisor
    <3>2. all = net * (mp * (bq * sq) - sc * bq) + bq * (sc * bq - bc * sq)
      BY <1>2, <3>1
    <3> QED
      BY <1>1, <1>2, <3>1, <3>2
  <2>4. CASE ~(net > 0) /\ bq = 0
    <3>1. db = 1 /\ ds = sq /\ Min({bq, sq}) = 0 /\ avg = sc * 1
      BY <1>1, <1>5, <2>4 DEF Divisor
    <3>2. bc = 0 /\ net = 0 - sq
      BY <1>1, <2>4
    <3>3. all = net * (mp * (1 * sq) - sc * 1)
      BY <1>2, <3>1
    <3> QED
      BY <1>1, <1>2, <3>1, <3>2, <3>3
  <2> QED
    BY <2>1, <2>2, <2>3, <2>4
<1>7. Position(bq, sq, bc, sc, mp).totalPnl = round2(all, db * ds)
  BY <1>1 DEF Position
<1>8. PICK y \in Int : y = x + net * mp
  BY <1>2
<1>9. round2(scale * y, scale) = round2(y, 1)
  BY RoundScaled
<1>10. PICK m \in Int : m = net * k
  OBVIOUS
<1>11. Cent * m = net * mp
  BY <1>2, <1>10, CentAssumption
<1>12. round2(x + Cent * m, 1) = round2(x, 1) + Cent * m
  BY RoundShifted
<1>13. Position(bq, sq, bc, sc, mp).netQty = net
  BY <1>1 DEF Position
<1> QED
  BY <1>1, <1>4, <1>6, <1>7, <1>8, <1>9, <1>11, <1>12, <1>13

-----------------------------------------------------------------------------
(* The book and its sums *)

Rows == {Row(t, status) : t \in Tickets, status \in {"ACTIVE", "CANCELLED"}}

\* What the routes have admitted of a trade.
LEMMA RowType ==
    ASSUME NEW row \in Rows
    PROVE  /\ row.side \in {"BUY", "SELL"}
           /\ row.quantity \in Nat \ {0}
           /\ row.price \in Nat \ {0}
           /\ row.price * row.quantity \in Nat \ {0}
<1>1. PICK t \in Tickets, status \in {"ACTIVE", "CANCELLED"} : row = Row(t, status)
  BY DEF Rows
<1>2. /\ row.side = t.side
      /\ row.quantity = t.quantity
      /\ row.price = t.price
  BY <1>1 DEF Row
<1>3. PICK q \in Nat \ {0}, p \in Nat \ {0} : q = t.quantity /\ p = t.price
  BY TicketAssumption
<1>4. p * q \in Nat \ {0}
  OBVIOUS
<1> QED
  BY <1>2, <1>3, <1>4, TicketAssumption

\* Quantities and amounts of some trades add up to natural numbers, and to 0 only
\* if there are none.
LEMMA BookSums ==
    ASSUME NEW b \in Seq(Rows), NEW T \in SUBSET DOMAIN b
    PROVE  /\ Quantity(b, T) \in Nat
           /\ Notional(b, T) \in Nat
           /\ Quantity(b, T) = 0 <=> T = {}
           /\ Notional(b, T) = 0 <=> T = {}
<1> DEFINE q == [i \in DOMAIN b |-> IF i \in T THEN b[i].quantity ELSE 0]
           n == [i \in DOMAIN b |-> IF i \in T THEN b[i].price * b[i].quantity ELSE 0]
<1>1. \A i \in DOMAIN b : b[i] \in Rows
  OBVIOUS
<1>2. \A i \in DOMAIN b : /\ b[i].quantity \in Nat \ {0}
                          /\ b[i].price * b[i].quantity \in Nat \ {0}
  BY <1>1, RowType
<1>3. DOMAIN b = 1 .. Len(b) /\ Len(b) \in Nat
  OBVIOUS
<1>4. q \in [1 .. Len(b) -> Nat] /\ n \in [1 .. Len(b) -> Nat]
  BY <1>2, <1>3
<1>5. q \in Seq(Nat) /\ n \in Seq(Nat)
  BY <1>3, <1>4
<1>6. DOMAIN q = DOMAIN b /\ DOMAIN n = DOMAIN b
  OBVIOUS
<1>7. /\ (\A i \in DOMAIN q : q[i] = 0) <=> T = {}
      /\ (\A i \in DOMAIN n : n[i] = 0) <=> T = {}
  BY <1>2, <1>6
<1>8. Quantity(b, T) = Total(q) /\ Notional(b, T) = Total(n)
  BY DEF Quantity, Notional
<1> HIDE DEF q, n
<1> QED
  BY <1>5, <1>7, <1>8, TotalOfNaturals

\* The trades of one side of one symbol are trades of the book.
LEMMA SidesOfBook ==
    ASSUME NEW b \in Seq(Rows), NEW s
    PROVE  /\ OfSide(b, s, "BUY") \in SUBSET DOMAIN b
           /\ OfSide(b, s, "SELL") \in SUBSET DOMAIN b
           /\ {i \in Active(b) : b[i].symbol = s} \in SUBSET DOMAIN b
BY DEF OfSide, Active

\* An average of the book is a number of whole cents.
LEMMA AverageType ==
    ASSUME NEW b \in Seq(Rows), NEW s \in ActiveSymbols(b)
    PROVE  computeVwap(b)[s] \in Cents
<1> DEFINE T == {i \in Active(b) : b[i].symbol = s}
<1>1. T \in SUBSET DOMAIN b /\ T # {}
  BY DEF ActiveSymbols, Active
<1>2. computeVwap(b)[s] = round2(Notional(b, T), Quantity(b, T))
  BY DEF computeVwap
<1> HIDE DEF T
<1>3. Notional(b, T) \in Nat /\ Quantity(b, T) \in Nat \ {0}
  BY <1>1, BookSums
<1>4. PICK n \in Nat, q \in Nat \ {0} : n = Notional(b, T) /\ q = Quantity(b, T)
  BY <1>3
<1>5. \E k \in Int : round2(n, q) = Cent * k /\ (n \in Nat => k \in Nat)
  BY RoundType
<1> QED
  BY <1>2, <1>4, <1>5 DEF Cents

\* The walk turns whole cents into whole cents, at least one.
LEMMA DriftType ==
    ASSUME NEW price, NEW p \in Drift(price)
    PROVE  p \in Cents /\ p >= Cent
<1>1. PICK q \in Rounded(price) : p = Max({Cent, q})
  BY DEF Drift
<1>2. PICK k \in Int : q = Cent * k
  BY <1>1 DEF Rounded
<1>3. Cent \in Nat \ {0} /\ q \in Int
  BY <1>2, CentAssumption
<1>4. p = IF Cent >= q THEN Cent ELSE q
  BY <1>1, <1>3, GreaterOfTwo
<1>5. CASE Cent >= q
  <2>1. p = Cent * 1
    BY <1>3, <1>4, <1>5
  <2> QED
    BY <1>3, <1>4, <1>5, <2>1 DEF Cents
<1>6. CASE ~(Cent >= q)
  <2>1. ASSUME k + 1 <= 0 PROVE FALSE
    <3>1. Cent * (k + 1) <= Cent * 0
      BY <1>3, <2>1, TimesMonotone
    <3>2. Cent * (k + 1) = q + Cent
      BY <1>2, <1>3
    <3> QED
      BY <1>3, <1>6, <3>1, <3>2
  <2>2. k \in Nat
    BY <2>1
  <2> QED
    BY <1>2, <1>3, <1>4, <1>6, <2>2 DEF Cents
<1> QED
  BY <1>5, <1>6

\* It stays near the old price.
LEMMA DriftNear ==
    ASSUME NEW price \in Cents, NEW p \in Drift(price)
    PROVE  /\ 1000 * p <= 1002 * Max({price, Cent}) + 500 * Cent
           /\ 1000 * p >= 998 * price - 500 * Cent
<1>1. PICK q \in Rounded(price) : p = Max({Cent, q})
  BY DEF Drift
<1>2. PICK k \in Int : q = Cent * k
  BY <1>1 DEF Rounded
<1>3. price \in Nat /\ Cent \in Nat \ {0} /\ q \in Int
  BY <1>2, CentsAreCents, CentAssumption
<1>4. 1000 * q - 500 * Cent < 1002 * price /\ 1000 * q + 500 * Cent > 998 * price
  BY <1>1 DEF Rounded
<1>5. p = IF Cent >= q THEN Cent ELSE q
  BY <1>1, <1>3, GreaterOfTwo
<1>6. Max({price, Cent}) = IF price >= Cent THEN price ELSE Cent
  BY <1>3, GreaterOfTwo
<1> QED
  BY <1>3, <1>4, <1>5, <1>6

-----------------------------------------------------------------------------
(* The inductive invariant *)

\* Every trade of the book was a ticket, and every price is whole cents.
FeedInv ==
    /\ book \in Seq(Rows)
    /\ \A s \in DOMAIN prices : prices[s] \in Cents
    /\ \A s \in DOMAIN marketPrices : marketPrices[s] \in Cents

\* One tick: every price it knew walks, and the browser is shown the result.
LEMMA TickShows ==
    ASSUME NEW base, tick(base)
    PROVE  book' = book /\ marketPrices' = prices' /\ DOMAIN prices' = DOMAIN base
BY DEF tick

\* A tick moves each price by a step of the walk, and no lower than a cent.
LEMMA TickMoves ==
    ASSUME NEW base, tick(base), NEW s \in DOMAIN base
    PROVE  prices'[s] \in Drift(base[s]) /\ prices'[s] \in Cents /\ prices'[s] >= Cent
<1>1. prices'[s] \in Drift(base[s])
  BY DEF tick
<1> QED
  BY <1>1, DriftType

\* There is no book and no price at first.
LEMMA FeedInvInit == FeedInit => FeedInv
<1>1. <<>> \in Seq(Rows) /\ DOMAIN <<>> = {}
  OBVIOUS
<1> QED
  BY <1>1 DEF FeedInit, FeedInv

\* Every step keeps prices whole cents.
LEMMA FeedInvStep == FeedInv /\ [FeedNext]_feedVars => FeedInv'
<1> SUFFICES ASSUME FeedInv, [FeedNext]_feedVars PROVE FeedInv'
  OBVIOUS
<1>0. /\ book \in Seq(Rows)
      /\ \A s \in DOMAIN prices : prices[s] \in Cents
      /\ \A s \in DOMAIN marketPrices : marketPrices[s] \in Cents
  BY DEF FeedInv
<1>1. CASE createTrade
  <2>1. PICK t \in Tickets : book' = Append(book, Row(t, "ACTIVE"))
    BY <1>1 DEF createTrade
  <2>2. Row(t, "ACTIVE") \in Rows
    BY DEF Rows
  <2>3. book' \in Seq(Rows)
    BY <1>0, <2>1, <2>2
  <2> QED
    BY <1>0, <1>1, <2>3 DEF createTrade, FeedInv
<1>2. CASE amendTrade
  <2>1. PICK i \in Active(book), t \in Tickets, status \in {"ACTIVE", "CANCELLED"} :
           book' = [book EXCEPT ![i] = Row(t, status)]
    BY <1>2 DEF amendTrade
  <2>2. Row(t, status) \in Rows
    BY DEF Rows
  <2>3. book \in [1 .. Len(book) -> Rows] /\ Len(book) \in Nat
    BY <1>0
  <2>4. book' \in [1 .. Len(book) -> Rows]
    BY <2>1, <2>2, <2>3
  <2>5. book' \in Seq(Rows)
    BY <2>3, <2>4
  <2> QED
    BY <1>0, <1>2, <2>5 DEF amendTrade, FeedInv
<1>3. CASE cancelTrade
  <2>1. PICK i \in Active(book) : book' = [book EXCEPT ![i].status = "CANCELLED"]
    BY <1>3 DEF cancelTrade
  <2>2. i \in DOMAIN book
    BY DEF Active
  <2>3. PICK t \in Tickets, status \in {"ACTIVE", "CANCELLED"} :
           book[i] = Row(t, status)
    BY <1>0, <2>2 DEF Rows
  <2>4. [book[i] EXCEPT !.status = "CANCELLED"] = Row(t, "CANCELLED")
    BY <2>3 DEF Row
  <2>5. book' = [book EXCEPT ![i] = Row(t, "CANCELLED")]
    BY <2>1, <2>4
  <2>6. Row(t, "CANCELLED") \in Rows
    BY DEF Rows
  <2>7. book \in [1 .. Len(book) -> Rows] /\ Len(book) \in Nat
    BY <1>0
  <2>8. book' \in [1 .. Len(book) -> Rows]
    BY <2>5, <2>6, <2>7
  <2>9. book' \in Seq(Rows)
    BY <2>7, <2>8
  <2> QED
    BY <1>0, <1>3, <2>9 DEF cancelTrade, FeedInv
<1>4. CASE Interval
  <2>1. PICK base : base = ensureSymbols(computeVwap(book)) /\ tick(base)
    BY <1>4 DEF Interval
  <2>2. ASSUME NEW s \in DOMAIN base PROVE prices'[s] \in Cents
    BY <2>1, TickMoves
  <2>3. book' = book /\ marketPrices' = prices' /\ DOMAIN prices' = DOMAIN base
    BY <2>1, TickShows
  <2> QED
    BY <1>0, <2>2, <2>3 DEF FeedInv
<1>5. CASE IntervalWithoutBook
  <2>1. tick(prices)
    BY <1>5 DEF IntervalWithoutBook
  <2>2. ASSUME NEW s \in DOMAIN prices PROVE prices'[s] \in Cents
    BY <2>1, TickMoves
  <2>3. book' = book /\ marketPrices' = prices' /\ DOMAIN prices' = DOMAIN prices
    BY <2>1, TickShows
  <2> QED
    BY <1>0, <2>2, <2>3 DEF FeedInv
<1>6. CASE Restart
  <2>1. DOMAIN computeVwap(book) = ActiveSymbols(book)
    BY DEF computeVwap
  <2>2. \A s \in DOMAIN prices' : prices'[s] \in Cents
    BY <1>0, <1>6, <2>1, AverageType DEF Restart
  <2> QED
    BY <1>0, <1>6, <2>2 DEF Restart, FeedInv
<1>7. CASE UNCHANGED feedVars
  BY <1>7 DEF feedVars, FeedInv
<1> QED
  BY <1>1, <1>2, <1>3, <1>4, <1>5, <1>6, <1>7 DEF FeedNext

\* So they are in every reachable state.
LEMMA FeedInvariant == FeedSpec => []FeedInv
BY FeedInvInit, FeedInvStep, PTL DEF FeedSpec

-----------------------------------------------------------------------------
(* The prices *)

\* Prices are whole cents, of which averages fall short: computeVwap and
\* ensureSymbols round, and so does the walk (PriceFeed.round2).
THEOREM FeedTypeCorrect == FeedSpec => []FeedTypeOK
<1>1. FeedInv => FeedTypeOK
  BY CentsAreCents DEF FeedInv, FeedTypeOK
<1> QED
  BY <1>1, FeedInvariant, PTL

\* What a tick shows is positive.
LEMMA TickShowsPositive ==
    ASSUME NEW base, tick(base)
    PROVE  ShownPricesArePositive'
<1>1. ASSUME NEW s \in DOMAIN base PROVE prices'[s] >= Cent
  BY TickMoves
<1>2. marketPrices' = prices' /\ DOMAIN prices' = DOMAIN base
  BY TickShows
<1> QED
  BY <1>1, <1>2 DEF ShownPricesArePositive

\* Only a tick changes what is shown.
LEMMA ShownPricesStep ==
    ShownPricesArePositive /\ [FeedNext]_feedVars => ShownPricesArePositive'
<1> SUFFICES ASSUME ShownPricesArePositive, [FeedNext]_feedVars
             PROVE  ShownPricesArePositive'
  OBVIOUS
<1>1. CASE Interval
  BY <1>1, TickShowsPositive DEF Interval
<1>2. CASE IntervalWithoutBook
  BY <1>2, TickShowsPositive DEF IntervalWithoutBook
<1>3. CASE \/ createTrade \/ amendTrade \/ cancelTrade \/ Restart
           \/ UNCHANGED feedVars
  <2>1. marketPrices' = marketPrices
    BY <1>3 DEF createTrade, amendTrade, cancelTrade, Restart, feedVars
  <2> QED
    BY <2>1 DEF ShownPricesArePositive
<1> QED
  BY <1>1, <1>2, <1>3 DEF FeedNext

\* A price in the browser is at least one cent, for every book, every price of a
\* trade, every unit below the cent and every restart (PriceFeed.tick).
THEOREM PricesStayPositive == FeedSpec => []ShownPricesArePositive
<1>1. FeedInit => ShownPricesArePositive
  BY DEF FeedInit, ShownPricesArePositive
<1> QED
  BY <1>1, ShownPricesStep, PTL DEF FeedSpec

\* When new prices are shown, each price of the feed has moved by one tick.
LEMMA TicksAreSmallStep ==
    ASSUME FeedInv, [FeedNext]_feedVars, marketPrices' # marketPrices,
           NEW s \in DOMAIN prices
    PROVE  /\ s \in DOMAIN prices'
           /\ 1000 * prices'[s] <= 1002 * Max({prices[s], Cent}) + 500 * Cent
           /\ 1000 * prices'[s] >= 998 * prices[s] - 500 * Cent
<1>1. PICK price \in Cents : price = prices[s]
  BY DEF FeedInv
<1>2. s \in DOMAIN prices' /\ prices'[s] \in Drift(price)
  <2>1. CASE Interval
    <3>1. PICK base : base = ensureSymbols(computeVwap(book)) /\ tick(base)
      BY <2>1 DEF Interval
    <3>2. s \in DOMAIN base /\ base[s] = price
      BY <1>1, <3>1 DEF ensureSymbols
    <3> QED
      BY <3>1, <3>2, TickMoves, TickShows
  <2>2. CASE IntervalWithoutBook
    BY <1>1, <2>2, TickMoves, TickShows DEF IntervalWithoutBook
  <2> QED
    BY <2>1, <2>2
       DEF FeedNext, createTrade, amendTrade, cancelTrade, Restart, feedVars
<1>3. PICK p \in Drift(price) : p = prices'[s]
  BY <1>2
<1> QED
  BY <1>1, <1>2, <1>3, DriftNear

\* Only the walk moves a live price: whatever trades come in, and with a failed
\* read too, a tick changes it by no more than 0.2% and the rounding, and drops
\* none (PriceFeed.ensureSymbols, PriceFeed.tick).
THEOREM LivePricesOnlyDrift == FeedSpec => TicksAreSmall
<1>1. FeedInv /\ [FeedNext]_feedVars =>
        [marketPrices' # marketPrices =>
           \A s \in DOMAIN prices :
             /\ s \in DOMAIN prices'
             /\ 1000 * prices'[s] <= 1002 * Max({prices[s], Cent}) + 500 * Cent
             /\ 1000 * prices'[s] >= 998 * prices[s] - 500 * Cent]_feedVars
  BY TicksAreSmallStep
<1> QED
  BY <1>1, FeedInvariant, PTL DEF FeedSpec, TicksAreSmall

-----------------------------------------------------------------------------
(* Two ways to the same numbers *)

\* The browser computes profit and loss from averages, which it multiplies back
\* and rounds, the server from the cash that moved, which it rounds: the totals
\* are equal to the cent, for any book and any market price (computePositions,
\* getPositionSummary, getPnlSummary).
THEOREM TheFiguresAgree == FeedSpec => []BrowserAgreesWithServer
<1>1. FeedInv => BrowserAgreesWithServer
  <2> SUFFICES ASSUME FeedInv PROVE BrowserAgreesWithServer
    OBVIOUS
  <2> DEFINE Q(s, side) == Quantity(book, OfSide(book, s, side))
             C(s, side) == Notional(book, OfSide(book, s, side))
             Market(s) == IF s \in DOMAIN marketPrices THEN marketPrices[s] ELSE 0
             positions == computePositions(book, marketPrices)
             summary == getPositionSummary(book)
             pnl == getPnlSummary(book)
  <2>1. ASSUME NEW s
        PROVE  /\ Q(s, "BUY") \in Nat /\ Q(s, "SELL") \in Nat
               /\ C(s, "BUY") \in Nat /\ C(s, "SELL") \in Nat
               /\ Q(s, "BUY") = 0 => C(s, "BUY") = 0
               /\ Q(s, "SELL") = 0 => C(s, "SELL") = 0
    BY BookSums, SidesOfBook DEF FeedInv
  <2>2. /\ DOMAIN summary = ActiveSymbols(book)
        /\ \A s \in ActiveSymbols(book) :
              /\ summary[s].netQuantity = Q(s, "BUY") - Q(s, "SELL")
              /\ pnl[s].netQuantity = Q(s, "BUY") - Q(s, "SELL")
              /\ pnl[s].realizedPnl = round2(C(s, "SELL") - C(s, "BUY"), 1)
    BY DEF getPositionSummary, getPnlSummary
  <2>3. /\ DOMAIN positions = {s \in ActiveSymbols(book) : Q(s, "BUY") # Q(s, "SELL")}
        /\ \A s \in DOMAIN positions :
              positions[s] = Position(Q(s, "BUY"), Q(s, "SELL"), C(s, "BUY"),
                                      C(s, "SELL"), Market(s))
    BY DEF computePositions
  <2>4. ASSUME NEW s \in DOMAIN positions
        PROVE  /\ positions[s].netQty = summary[s].netQuantity
               /\ positions[s].netQty = pnl[s].netQuantity
               /\ positions[s].totalPnl =
                    pnl[s].realizedPnl + positions[s].netQty * Market(s)
    <3>1. PICK bq \in Nat, sq \in Nat, bc \in Nat, sc \in Nat :
             /\ bq = Q(s, "BUY") /\ sq = Q(s, "SELL")
             /\ bc = C(s, "BUY") /\ sc = C(s, "SELL")
      BY <2>1
    <3>2. s \in ActiveSymbols(book) /\ bq # sq
      BY <2>3, <3>1
    <3>3. (bq = 0 => bc = 0) /\ (sq = 0 => sc = 0)
      BY <2>1, <3>1
    <3>4. Market(s) \in Cents
      <4>1. Cent * 0 = 0
        BY CentAssumption
      <4>2. 0 \in Cents
        BY <4>1 DEF Cents
      <4> QED
        BY <4>2 DEF FeedInv
    <3>5. PICK mp \in Cents, net \in Int, x \in Int :
             mp = Market(s) /\ net = bq - sq /\ x = sc - bc
      BY <3>1, <3>4
    <3>6. positions[s] = Position(bq, sq, bc, sc, mp)
      BY <2>3, <3>1, <3>5
    <3>7. /\ Position(bq, sq, bc, sc, mp).netQty = net
          /\ Position(bq, sq, bc, sc, mp).totalPnl = round2(x, 1) + net * mp
      BY <3>1, <3>2, <3>3, <3>5, TotalOfPosition
    <3> HIDE DEF positions, summary, pnl, Market, Q, C
    <3> QED
      BY <2>2, <3>1, <3>2, <3>5, <3>6, <3>7
  <2>5. DOMAIN positions = {s \in DOMAIN summary : summary[s].netQuantity # 0}
    <3>1. \A s \in ActiveSymbols(book) :
             Q(s, "BUY") # Q(s, "SELL") <=> summary[s].netQuantity # 0
      BY <2>1, <2>2
    <3> HIDE DEF positions, summary, Q
    <3> QED
      BY <2>2, <2>3, <3>1
  <2> QED
    BY <2>4, <2>5 DEF BrowserAgreesWithServer
<1> QED
  BY <1>1, FeedInvariant, PTL
=============================================================================
