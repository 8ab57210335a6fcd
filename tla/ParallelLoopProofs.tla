------------------------- MODULE ParallelLoopProofs -------------------------
(***************************************************************************)
(* The shares wrapMultithreading computes partition the iterations of the  *)
(* loop, for any number of threads, step and bounds, as long as no         *)
(* intermediate result leaves the machine word.                            *)
(*                                                                         *)
(* The threads that walk them in one stack frame therefore leave in memory *)
(* what the sequential loop leaves, and never work on the same element, as *)
(* long as the calls in the region save nothing but lr on the stack.       *)
(***************************************************************************)
EXTENDS ParallelLoop, TLAPS

-----------------------------------------------------------------------------
(* Shares of a loop *)

Tid == 0 .. (mt_num_threads - 1)

\* Arithmetic the provers do not find on their own.
LEMMA MulMono ==
    ASSUME NEW a \in Int, NEW b \in Int, NEW c \in Nat, a <= b
    PROVE  a * c <= b * c
OBVIOUS

\* A quotient and a bound.
LEMMA DivLess ==
    ASSUME NEW x \in Nat, NEW d \in Nat \ {0}, NEW c \in Int
    PROVE  x \div d < c <=> x < c * d
OBVIOUS

\* A quotient and its bounds.
LEMMA DivBounds ==
    ASSUME NEW x \in Nat, NEW d \in Nat \ {0}
    PROVE  /\ x \div d \in Nat
           /\ (x \div d) * d <= x
           /\ x < (x \div d) * d + d
OBVIOUS

\* Division rounds down, below zero too.
LEMMA FloorBounds ==
    ASSUME NEW x \in Int, NEW d \in Nat \ {0}
    PROVE  /\ x \div d \in Int
           /\ (x \div d) * d <= x
           /\ x < (x \div d) * d + d
OBVIOUS

\* Rounding down is monotone.
LEMMA FloorMono ==
    ASSUME NEW x \in Int, NEW y \in Int, NEW d \in Nat \ {0}, x <= y
    PROVE  x \div d <= y \div d
<1> DEFINE p == x \div d
           q == y \div d
<1>1. /\ p \in Int /\ q \in Int
      /\ p * d <= x /\ y < q * d + d
  BY FloorBounds
<1> HIDE DEF p, q
<1>2. p * d < (q + 1) * d
  BY <1>1
<1>3. ~(q + 1 <= p)
  BY <1>1, <1>2, MulMono
<1>4. p <= q
  BY <1>1, <1>3
<1> QED BY <1>4 DEF p, q

\* A product with a small factor.
LEMMA MulSmall ==
    ASSUME NEW k \in Int, NEW a \in Nat \ {0}, k * a < a, -a < k * a
    PROVE  k = 0
<1>1. k >= 1 => 1 * a <= k * a
  BY MulMono
<1>2. k <= -1 => k * a <= (-1) * a
  BY MulMono
<1> QED BY <1>1, <1>2

\* A remainder is unique.
LEMMA ModUnique ==
    ASSUME NEW k \in Int, NEW a \in Nat \ {0}, NEW r \in 0 .. (a - 1)
    PROVE  (k * a + r) % a = r
<1> DEFINE z == k * a + r
           q == z \div a
           s == z % a
<1>1. z \in Int
  OBVIOUS
<1>2. q \in Int /\ z = q * a + s /\ s \in 0 .. (a - 1)
  BY <1>1
<1> HIDE DEF q, s
<1>3. (k - q) * a = s - r
  BY <1>2
<1>4. k - q = 0
  BY <1>2, <1>3, MulSmall
<1> QED BY <1>2, <1>3, <1>4 DEF s

\* Nothing divided.
LEMMA ZeroDiv == ASSUME NEW d \in Nat \ {0} PROVE 0 \div d = 0
OBVIOUS

\* What fits a word is not wrapped.
LEMMA WrapId == ASSUME NEW x \in Word PROVE Wrap(x) = x
  BY WordAssumption DEF Word, Wrap

\* The bounds of a loop whose intermediate results fit.
LEMMA Fits ==
    ASSUME NEW start, NEW end, NEW accuValue, NoOverflow(start, end, accuValue)
    PROVE  /\ start \in Int /\ end \in Int /\ accuValue \in Nat \ {0}
           /\ LET size == end - start
                  n == mt_num_threads
                  reach == (IF size >= 0 THEN size ELSE -size) * n + n + accuValue
              IN  /\ reach \in Nat
                  /\ reach < HalfRange
                  /\ start - reach >= -HalfRange
                  /\ start + reach < HalfRange
  BY WordAssumption DEF NoOverflow, Word

Magnitude(x) == IF x >= 0 THEN x ELSE -x

\* The number of iterations before thread t's share, if the step is 1.
Part(size, t) == (Magnitude(size) * t) \div mt_num_threads

\* The rounded exact quotient, for a loop that counts down.
NegativePart(size, t) == IF PowerOfTwo(mt_num_threads)
                         THEN (size * t) \div mt_num_threads ELSE -Part(size, t)

\* A machine word holds every share, and it is the rounded exact quotient.
LEMMA ShareIsExact ==
    ASSUME NEW start, NEW end, NEW accuValue, NoOverflow(start, end, accuValue),
           NEW t \in 0 .. mt_num_threads
    PROVE  /\ Part(end - start, t) \in 0 .. Magnitude(end - start)
           /\ NegativePart(end - start, t) \in Int
           /\ Share(start, end, t) = IF end - start >= 0 THEN Part(end - start, t)
                                     ELSE NegativePart(end - start, t)
           /\ Share(start, end, t) \in Int
           /\ -Magnitude(end - start) <= Share(start, end, t)
           /\ Share(start, end, t) <= Magnitude(end - start)
<1> DEFINE size == end - start
           n == mt_num_threads
           m == Magnitude(size)
           q == Part(size, t)
           z == size * t
           v == z \div n
<1>1. /\ size \in Int /\ m \in Nat /\ n \in Nat \ {0} /\ t \in Nat /\ t <= n
      /\ start \in Int /\ end \in Int /\ HalfRange \in Nat \ {0}
  BY Fits, WordAssumption DEF Magnitude
<1>2. m * n + n < HalfRange /\ m * n \in Nat
  BY <1>1, Fits DEF Magnitude
<1>3. m <= m * n /\ m * t <= m * n /\ m * t \in Nat
  <2>1. 1 * m <= n * m /\ t * m <= n * m
    BY <1>1, MulMono
  <2> HIDE DEF m, n
  <2> QED BY <1>1, <2>1
<1>4. itersize(start, end) = size
  <2>1. size \in Word
    BY <1>1, <1>2, <1>3 DEF Word, Magnitude
  <2> QED BY <2>1, WrapId DEF itersize, Sub
<1>5. z \in Int /\ z = IF size >= 0 THEN m * t ELSE -(m * t)
  BY <1>1 DEF Magnitude
<1>6. Mul(size, t) = z
  <2>1. z \in Word
    BY <1>1, <1>2, <1>3, <1>5 DEF Word
  <2> QED BY <2>1, WrapId DEF Mul
<1>7. q \in Nat /\ q * n <= m * t
  BY <1>1, <1>3, DivBounds DEF Part
<1>8. q <= m
  <2>1. q * n <= m * n
    BY <1>1, <1>2, <1>3, <1>7
  <2> HIDE DEF q, m, n
  <2> QED BY <1>1, <1>7, <2>1
<1>9. v \in Int /\ v * n <= z /\ z < v * n + n
  <2> HIDE DEF z
  <2> QED BY <1>1, <1>5, FloorBounds
<1>10. size < 0 => -m <= v /\ v <= 0
  <2> SUFFICES ASSUME size < 0 PROVE -m <= v /\ v <= 0
    OBVIOUS
  <2>1. -(m * n) <= z /\ z <= 0
    BY <1>1, <1>3, <1>5
  <2> HIDE DEF v, z, m, n
  <2>2. (-m) * n < (v + 1) * n
    <3>1. (-m) * n = -(m * n) /\ (v + 1) * n = v * n + n
      BY <1>1, <1>9
    <3>2. v * n \in Int /\ m * n \in Int /\ n \in Int
      BY <1>1, <1>9
    <3> QED BY <1>5, <1>9, <2>1, <3>1, <3>2
  <2>3. ~(v + 1 <= -m)
    BY <1>1, <1>9, <2>2, MulMono
  <2>4. v * n <= 0
    <3>1. v * n \in Int
      BY <1>1, <1>9
    <3> QED BY <1>5, <1>9, <2>1, <3>1
  <2>5. ~(1 <= v)
    <3>1. 1 <= v => 1 * n <= v * n
      BY <1>1, <1>9, MulMono
    <3> QED BY <1>1, <1>9, <2>4, <3>1
  <2> QED BY <1>1, <1>9, <2>3, <2>5
<1> DEFINE w == IF size >= 0 THEN q ELSE NegativePart(size, t)
<1>11. w \in Int /\ -m <= w /\ w <= m /\ NegativePart(size, t) \in Int
  <2>1. NegativePart(size, t) = IF PowerOfTwo(n) THEN v ELSE -q
    BY DEF NegativePart
  <2> HIDE DEF q, v, m, n
  <2> QED BY <1>1, <1>7, <1>8, <1>9, <1>10, <2>1
<1>12. w \in Word
  BY <1>1, <1>2, <1>3, <1>11 DEF Word
<1>13. Share(start, end, t) = Wrap(w)
  <2>1. Share(start, end, t) =
          Wrap(IF z >= 0 \/ PowerOfTwo(n) THEN z \div n ELSE -((-z) \div n))
    BY <1>4, <1>6 DEF Share, Div
  <2>2. CASE size >= 0
    BY <1>1, <1>3, <1>5, <2>1, <2>2 DEF Part
  <2>3. CASE size < 0
    <3>1. z = -(m * t) /\ -z = m * t
      BY <1>1, <1>3, <1>5, <2>3
    <3>2. CASE PowerOfTwo(n)
      BY <1>1, <2>1, <2>3, <3>2 DEF NegativePart
    <3>3. CASE ~PowerOfTwo(n)
      <4>1. w = -q
        BY <1>1, <2>3, <3>3 DEF NegativePart
      <4>2. (-z) \div n = q
        BY <3>1 DEF Part
      <4>3. CASE m * t = 0
        <5>1. z = 0 /\ z \div n = 0 /\ q = 0
          BY <1>1, <3>1, <4>2, <4>3, ZeroDiv
        <5> QED BY <1>1, <2>1, <4>1, <5>1
      <4>4. CASE m * t # 0
        <5>1. ~(z >= 0)
          BY <1>1, <1>3, <3>1, <4>4
        <5> QED BY <2>1, <3>3, <4>1, <4>2, <5>1
      <4> QED BY <4>3, <4>4
    <3> QED BY <3>2, <3>3
  <2> QED BY <1>1, <2>2, <2>3
<1>14. Share(start, end, t) = w
  BY <1>12, <1>13, WrapId
<1> QED BY <1>1, <1>7, <1>8, <1>11, <1>14

\* Shares follow each other: the next one does not begin earlier.
LEMMA PartMonotone ==
    ASSUME NEW size \in Int, NEW t \in Nat, NEW u \in Nat, t <= u
    PROVE  Part(size, t) <= Part(size, u)
<1> DEFINE m == Magnitude(size)
           n == mt_num_threads
           p == Part(size, t)
           q == Part(size, u)
<1>1. m \in Nat /\ n \in Nat \ {0}
  BY WordAssumption DEF Magnitude
<1>2. m * t <= m * u /\ m * t \in Nat /\ m * u \in Nat
  <2>1. t * m <= u * m
    BY <1>1, MulMono
  <2> HIDE DEF m
  <2> QED BY <1>1, <2>1
<1>3. /\ p \in Nat /\ q \in Nat
      /\ p * n <= m * t
      /\ m * u < q * n + n
  BY <1>1, <1>2, DivBounds DEF Part
<1> HIDE DEF m, n, p, q
<1>4. p * n < (q + 1) * n
  BY <1>1, <1>2, <1>3
<1>5. ~(q + 1 <= p)
  BY <1>1, <1>3, <1>4, MulMono
<1>6. p <= q
  BY <1>3, <1>5
<1> QED BY <1>6 DEF p, q

\* The multiple of a that the division makes of l + a - 1.
RoundUp(l, a) == (IF l + a - 1 >= 0 \/ PowerOfTwo(a) THEN (l + a - 1) \div a
                  ELSE -((-(l + a - 1)) \div a)) * a

\* Rounding up.
LEMMA RoundUpBounds ==
    ASSUME NEW l \in Int, NEW a \in Nat \ {0}
    PROVE  /\ RoundUp(l, a) \in Int
           /\ l <= RoundUp(l, a)
           /\ l >= 0 => RoundUp(l, a) < l + a
           /\ l <= 0 => RoundUp(l, a) <= 0
<1>1. CASE l + a - 1 >= 0 \/ PowerOfTwo(a)
  <2> DEFINE x == l + a - 1
             q == x \div a
  <2>1. x \in Int /\ q \in Int /\ q * a <= x /\ x < q * a + a
    BY FloorBounds
  <2>2. x = l + a - 1 /\ RoundUp(l, a) = q * a
    BY <1>1 DEF RoundUp
  <2> HIDE DEF x, q
  <2>3. l <= 0 => q * a <= 0
    <3> SUFFICES ASSUME l <= 0 PROVE q * a <= 0
      OBVIOUS
    <3>1. q * a < 1 * a
      BY <2>1, <2>2
    <3>2. ~(1 <= q)
      BY <2>1, <3>1, MulMono
    <3>3. q * a <= 0 * a
      BY <2>1, <3>2, MulMono
    <3> QED BY <3>3
  <2>4. q * a \in Int
    BY <2>1
  <2> QED BY <2>1, <2>2, <2>3, <2>4
<1>2. CASE ~(l + a - 1 >= 0 \/ PowerOfTwo(a))
  <2> DEFINE x == -(l + a - 1)
             q == x \div a
  <2>1. x \in Nat /\ q \in Nat /\ q * a <= x
    BY <1>2, DivBounds
  <2>2. RoundUp(l, a) = (-q) * a
    BY <1>2 DEF RoundUp
  <2>3. x = -(l + a - 1) /\ l + a - 1 < 0
    BY <1>2
  <2> HIDE DEF x, q
  <2>4. (-q) * a = -(q * a) /\ q * a \in Nat
    BY <2>1
  <2> QED BY <2>1, <2>2, <2>3, <2>4
<1> QED BY <1>1, <1>2

\* iterL and iterR as exact integers.
LEMMA BoundsAreExact ==
    ASSUME NEW start, NEW end, NEW accuValue, NoOverflow(start, end, accuValue),
           NEW t \in Tid
    PROVE  /\ t \in 0 .. mt_num_threads /\ t + 1 \in 0 .. mt_num_threads
           /\ iterR(start, end, t) = start + Share(start, end, t + 1)
           /\ iterL(start, end, accuValue, t) =
                start + RoundUp(Share(start, end, t), accuValue)
<1> DEFINE size == end - start
           m == Magnitude(size)
           n == mt_num_threads
           l == Share(start, end, t)
           a == accuValue
<1>1. /\ m \in Nat /\ n \in Nat \ {0} /\ a \in Nat \ {0} /\ size \in Int
      /\ start \in Int /\ HalfRange \in Nat \ {0}
      /\ t \in 0 .. n /\ t + 1 \in 0 .. n
  BY Fits, WordAssumption DEF Magnitude, Tid
<1>2. /\ m * n + n + a < HalfRange /\ m * n \in Nat
      /\ start - (m * n + n + a) >= -HalfRange
      /\ start + (m * n + n + a) < HalfRange
  BY <1>1, Fits DEF Magnitude
<1>3. m <= m * n
  <2>1. 1 * m <= n * m
    BY <1>1, MulMono
  <2> HIDE DEF m, n
  <2> QED BY <1>1, <2>1
<1>4. /\ l \in Int /\ -m <= l /\ l <= m
      /\ Share(start, end, t + 1) \in Int
      /\ -m <= Share(start, end, t + 1) /\ Share(start, end, t + 1) <= m
  BY <1>1, ShareIsExact
<1>5. Add(t, 1) = t + 1
  <2>1. t + 1 \in Word
    BY <1>1, <1>2 DEF Word
  <2> QED BY <2>1, WrapId DEF Add
<1>6. iterR(start, end, t) = start + Share(start, end, t + 1)
  <2>1. Share(start, end, t + 1) + start \in Word
    BY <1>1, <1>2, <1>3, <1>4 DEF Word
  <2> QED BY <1>1, <1>4, <1>5, <2>1, WrapId DEF iterR, Add
<1> DEFINE c == RoundUp(l, a)
<1>7. c \in Int /\ l <= c /\ (l >= 0 => c < l + a) /\ (l <= 0 => c <= 0)
  BY <1>1, <1>4, RoundUpBounds
<1>8. Add(l, a - 1) = l + (a - 1)
  <2>1. l + (a - 1) \in Word
    BY <1>1, <1>2, <1>3, <1>4 DEF Word
  <2> QED BY <2>1, WrapId DEF Add
<1> DEFINE q == IF l + a - 1 >= 0 \/ PowerOfTwo(a) THEN (l + a - 1) \div a
                ELSE -((-(l + a - 1)) \div a)
<1>9. c = q * a /\ q \in Int
  <2>1. (l + a - 1) \div a \in Int
    BY <1>1, <1>4, FloorBounds
  <2>2. l + a - 1 < 0 => (-(l + a - 1)) \div a \in Nat
    BY <1>1, <1>4, DivBounds
  <2>3. q \in Int
    BY <1>1, <1>4, <2>1, <2>2
  <2>4. c = q * a
    BY DEF RoundUp
  <2> QED BY <2>3, <2>4
<1>10. -(m + a) <= c /\ c <= m + a
  BY <1>1, <1>4, <1>7
<1>11. -(m + a) <= q /\ q <= m + a
  <2>1. 0 <= q => 1 * q <= a * q
    BY <1>1, <1>9, MulMono
  <2>2. q <= 0 => 1 * (-q) <= a * (-q)
    BY <1>1, <1>9, MulMono
  <2>3. q * a = a * q /\ a * (-q) = -(q * a)
    BY <1>1, <1>9
  <2> HIDE DEF q, c, m, l
  <2> QED BY <1>1, <1>9, <1>10, <2>1, <2>2, <2>3
<1>12. Div(l + (a - 1), a) = q
  <2>1. q \in Word
    BY <1>1, <1>2, <1>3, <1>9, <1>11 DEF Word
  <2>2. l + (a - 1) = l + a - 1
    BY <1>1, <1>4
  <2>3. Div(l + (a - 1), a) = Wrap(q)
    BY <2>2 DEF Div
  <2> QED BY <2>1, <2>3, WrapId
<1>13. Mul(q, a) = c
  <2>1. c \in Word
    BY <1>1, <1>2, <1>3, <1>7, <1>10 DEF Word
  <2> QED BY <1>9, <2>1, WrapId DEF Mul
<1>14. Add(c, start) = start + c
  <2>1. c + start \in Word /\ c + start = start + c
    BY <1>1, <1>2, <1>3, <1>7, <1>10 DEF Word
  <2> QED BY <2>1, WrapId DEF Add
<1>15. iterL(start, end, accuValue, t) = Add(Mul(Div(Add(l, a - 1), a), a), start)
  BY DEF iterL
<1>16. iterL(start, end, accuValue, t) = start + c
  BY <1>8, <1>12, <1>13, <1>14, <1>15
<1> QED BY <1>1, <1>6, <1>16

\* A loop that counts down has no iterations, whole or divided.
LEMMA NegativeLoop ==
    ASSUME NEW start, NEW end, NEW accuValue, NoOverflow(start, end, accuValue),
           end - start < 0, NEW t \in Tid
    PROVE  /\ Iterations(start, end, accuValue) = {}
           /\ ThreadIterations(start, end, accuValue, t) = {}
<1>1. start \in Int /\ end \in Int /\ accuValue \in Nat \ {0}
  BY Fits
<1>2. Iterations(start, end, accuValue) = {}
  BY <1>1 DEF Iterations, Word
<1> DEFINE l == Share(start, end, t)
           r == Share(start, end, t + 1)
<1>3. t \in 0 .. mt_num_threads /\ t + 1 \in 0 .. mt_num_threads /\ t \in Nat
  BY BoundsAreExact DEF Tid
<1> DEFINE size == end - start
<1>4. l = NegativePart(size, t) /\ r = NegativePart(size, t + 1) /\ size \in Int
  BY <1>1, <1>3, ShareIsExact
<1>5. l \in Int /\ r \in Int
  BY <1>3, ShareIsExact
<1>6. NegativePart(size, t + 1) <= NegativePart(size, t)
  <2>1. CASE PowerOfTwo(mt_num_threads)
    <3>1. size * (t + 1) <= size * t /\ size * (t + 1) \in Int /\ size * t \in Int
      BY <1>1, <1>3, <1>4
    <3>2. (size * (t + 1)) \div mt_num_threads <= (size * t) \div mt_num_threads
      <4> HIDE DEF size
      <4> QED BY <3>1, WordAssumption, FloorMono
    <3> QED BY <2>1, <3>2 DEF NegativePart
  <2>2. CASE ~PowerOfTwo(mt_num_threads)
    <3>1. Part(size, t) \in Int /\ Part(size, t + 1) \in Int
      BY <1>3, ShareIsExact DEF Magnitude
    <3>2. Part(size, t) <= Part(size, t + 1)
      BY <1>1, <1>3, PartMonotone
    <3> HIDE DEF size
    <3> QED BY <2>2, <3>1, <3>2 DEF NegativePart
  <2> QED BY <2>1, <2>2
<1>7. l \in Int /\ r \in Int /\ r <= l
  BY <1>4, <1>5, <1>6
<1>8. /\ iterR(start, end, t) = start + r
      /\ iterL(start, end, accuValue, t) = start + RoundUp(l, accuValue)
      /\ RoundUp(l, accuValue) \in Int /\ l <= RoundUp(l, accuValue)
  BY <1>1, <1>7, BoundsAreExact, RoundUpBounds
<1> HIDE DEF l, r
<1>9. ThreadIterations(start, end, accuValue, t) = {}
  BY <1>1, <1>7, <1>8 DEF ThreadIterations, Word
<1> QED BY <1>2, <1>9

\* RoundUp yields a multiple, so counting from it or from 0 is the same.
LEMMA RoundUpMultiple ==
    ASSUME NEW l \in Nat, NEW a \in Nat \ {0}, NEW d \in Nat
    PROVE  /\ RoundUp(l, a) % a = 0
           /\ (d - RoundUp(l, a)) % a = 0 <=> d % a = 0
           /\ d >= l /\ d % a = 0 => d >= RoundUp(l, a)
<1> DEFINE q == (l + a - 1) \div a
<1>1. q \in Nat /\ RoundUp(l, a) = q * a /\ q * a \in Nat
  BY DivBounds DEF RoundUp
<1>2. q * a < l + a
  BY RoundUpBounds, <1>1
<1> HIDE DEF q
<1>3. (q * a) % a = 0
  <2>1. q * a = q * a + 0
    BY <1>1
  <2> QED BY <1>1, <2>1, ModUnique
<1>4. (d - q * a) % a = d % a
  <2> DEFINE k == d \div a
             r == d % a
  <2>1. k \in Int /\ d = k * a + r /\ r \in 0 .. (a - 1)
    OBVIOUS
  <2> HIDE DEF k, r
  <2>2. d - q * a = (k - q) * a + r
    BY <1>1, <2>1
  <2>3. (d - q * a) % a = r
    BY <1>1, <2>1, <2>2, ModUnique
  <2> QED BY <2>3 DEF r
<1>5. ASSUME d >= l, d % a = 0 PROVE d >= q * a
  <2>1. PICK k \in Nat : d = k * a
    BY <1>5
  <2>2. q * a < (k + 1) * a
    BY <1>1, <1>2, <1>5, <2>1
  <2>3. ~(k + 1 <= q)
    BY <1>1, <2>2, MulMono
  <2>4. q <= k
    BY <1>1, <2>3
  <2> QED BY <1>1, <2>1, <2>4, MulMono
<1> QED BY <1>1, <1>3, <1>4, <1>5

\* What a thread runs, in exact arithmetic: the multiples in its share.
LEMMA ThreadRuns ==
    ASSUME NEW start, NEW end, NEW accuValue, NoOverflow(start, end, accuValue),
           end - start >= 0, NEW t \in Tid, NEW d \in Int
    PROVE  start + d \in ThreadIterations(start, end, accuValue, t)
             <=> /\ d \in Nat /\ d < end - start /\ d % accuValue = 0
                 /\ Part(end - start, t) <= d
                 /\ d < Part(end - start, t + 1)
<1> DEFINE l == Part(end - start, t)
           r == Part(end - start, t + 1)
           c == RoundUp(l, accuValue)
<1>1. /\ start \in Int /\ end \in Int /\ accuValue \in Nat \ {0}
      /\ start \in Word /\ end \in Word /\ HalfRange \in Nat \ {0}
  BY Fits, WordAssumption DEF NoOverflow
<1>2. t \in 0 .. mt_num_threads /\ t + 1 \in 0 .. mt_num_threads
  BY BoundsAreExact
<1>3. /\ l \in Nat /\ r \in Nat /\ r <= end - start
      /\ Share(start, end, t) = l /\ Share(start, end, t + 1) = r
  BY <1>1, <1>2, ShareIsExact DEF Magnitude
<1>4. /\ iterR(start, end, t) = start + r
      /\ iterL(start, end, accuValue, t) = start + c
  BY <1>3, BoundsAreExact
<1> HIDE DEF l, r
<1>5. c \in Int /\ l <= c
  BY <1>1, <1>3, RoundUpBounds
<1>6. start + d \in ThreadIterations(start, end, accuValue, t)
        <=> /\ start + d \in Word
            /\ start + d >= start + c
            /\ start + d < start + r
            /\ ((start + d) - (start + c)) % accuValue = 0
  BY <1>4 DEF ThreadIterations
<1>7. (start + d) - (start + c) = d - c
  BY <1>1, <1>5
<1> HIDE DEF c
<1>8. /\ start + d >= start + c <=> d >= c
      /\ start + d < start + r <=> d < r
  BY <1>1, <1>3, <1>5
<1>9. d >= c /\ d < r => start + d \in Word
  BY <1>1, <1>3, <1>5 DEF Word
<1>10. start + d \in ThreadIterations(start, end, accuValue, t)
        <=> d >= c /\ d < r /\ (d - c) % accuValue = 0
  BY <1>6, <1>7, <1>8, <1>9
<1>11. d \in Nat => /\ (d - c) % accuValue = 0 <=> d % accuValue = 0
                    /\ d >= l /\ d % accuValue = 0 => d >= c
  BY <1>1, <1>3, RoundUpMultiple DEF c
<1> QED BY <1>1, <1>3, <1>5, <1>10, <1>11 DEF l, r

-----------------------------------------------------------------------------
\* Every iteration of the loop is run by a thread: the one whose number is the
\* least t with  mt_num_threads * (d + 1) <= size * (t + 1).
LEMMA SomeThread ==
    ASSUME NEW size \in Nat, NEW d \in Nat, d < size
    PROVE  \E t \in Tid : Part(size, t) <= d /\ d < Part(size, t + 1)
<1> DEFINE n == mt_num_threads
           x == n * (d + 1) + size - 1
           u == x \div size
<1>1. n \in Nat \ {0} /\ size \in Nat \ {0} /\ Magnitude(size) = size
  BY WordAssumption DEF Magnitude
<1>2. n * (d + 1) \in Nat /\ n <= n * (d + 1) /\ n * (d + 1) <= n * size
  <2>1. 1 * n <= (d + 1) * n /\ (d + 1) * n <= size * n
    BY <1>1, MulMono
  <2> HIDE DEF n
  <2> QED BY <1>1, <2>1
<1>3. x \in Nat
  BY <1>1, <1>2
<1>4. /\ u \in Nat
      /\ u * size <= x
      /\ x < u * size + size
  BY <1>1, <1>3, DivBounds
<1>5. /\ n * (d + 1) <= u * size
      /\ (u - 1) * size < n * (d + 1)
  <2>1. x = n * (d + 1) + size - 1
    OBVIOUS
  <2> HIDE DEF x, u, n
  <2>2. (u - 1) * size = u * size - size
    BY <1>1, <1>4
  <2> QED BY <1>1, <1>2, <1>4, <2>1, <2>2
<1> HIDE DEF x, u
<1>6. 1 <= u
  <2>1. u = 0 => u * size = 0
    BY <1>1
  <2> HIDE DEF n
  <2> QED BY <1>1, <1>2, <1>4, <1>5, <2>1
<1>7. u <= n
  <2>1. (u - 1) * size < n * size
    <3> HIDE DEF n
    <3> QED BY <1>1, <1>2, <1>4, <1>5
  <2>2. ~(n <= u - 1)
    <3> HIDE DEF n
    <3> QED BY <1>1, <1>4, <2>1, MulMono
  <2> HIDE DEF n
  <2> QED BY <1>1, <1>4, <2>2
<1>8. u - 1 \in Tid
  BY <1>1, <1>4, <1>6, <1>7 DEF Tid
<1>9. Part(size, u - 1) <= d
  <2>1. size * (u - 1) \in Nat /\ size * (u - 1) < (d + 1) * n
    <3> HIDE DEF n
    <3> QED BY <1>1, <1>4, <1>5, <1>6
  <2>2. (size * (u - 1)) \div n < d + 1
    BY <1>1, <2>1, DivLess
  <2>3. (size * (u - 1)) \div n \in Nat
    BY <1>1, <2>1, DivBounds
  <2> QED BY <1>1, <2>2, <2>3 DEF Part
<1>10. d < Part(size, (u - 1) + 1)
  <2>1. (u - 1) + 1 = u
    BY <1>4
  <2>2. size * u \in Nat /\ ~(size * u < (d + 1) * n)
    <3> HIDE DEF n
    <3> QED BY <1>1, <1>2, <1>4, <1>5
  <2>3. ~((size * u) \div n < d + 1)
    BY <1>1, <2>2, DivLess
  <2>4. (size * u) \div n \in Nat
    BY <1>1, <2>2, DivBounds
  <2> QED BY <1>1, <2>1, <2>3, <2>4 DEF Part
<1> QED BY <1>8, <1>9, <1>10

\* wrapMultithreading divides a loop correctly: what the threads run is what
\* the loop runs, and no iteration is run by two threads.
THEOREM ChunksPartition ==
    ASSUME NEW start, NEW end, NEW accuValue, NoOverflow(start, end, accuValue)
    PROVE  /\ UNION {ThreadIterations(start, end, accuValue, t) : t \in Tid}
                = Iterations(start, end, accuValue)
           /\ \A t, u \in Tid : t # u =>
                ThreadIterations(start, end, accuValue, t)
                  \cap ThreadIterations(start, end, accuValue, u) = {}
<1>1. /\ start \in Int /\ end \in Int /\ accuValue \in Nat \ {0}
      /\ start \in Word /\ end \in Word
  BY Fits DEF NoOverflow
<1>2. CASE end - start < 0
  <2>1. \A t \in Tid : ThreadIterations(start, end, accuValue, t) = {}
    BY <1>2, NegativeLoop
  <2>2. 0 \in Tid
    BY WordAssumption DEF Tid
  <2>3. Iterations(start, end, accuValue) = {}
    BY <1>2, <2>2, NegativeLoop
  <2> QED BY <2>1, <2>3
<1>3. CASE end - start >= 0
  <2> DEFINE size == end - start
             Runs(t, i) == i \in ThreadIterations(start, end, accuValue, t)
  <2>1. ASSUME NEW i \in Word, NEW t \in Tid
        PROVE  Runs(t, i) <=> /\ i - start \in Nat /\ i - start < size
                              /\ (i - start) % accuValue = 0
                              /\ Part(size, t) <= i - start
                              /\ i - start < Part(size, t + 1)
    <3>1. i - start \in Int /\ start + (i - start) = i
      BY <1>1 DEF Word
    <3> QED BY <1>3, <3>1, ThreadRuns
  <2>2. ASSUME NEW i \in Word
        PROVE  i \in Iterations(start, end, accuValue)
                 <=> /\ i - start \in Nat /\ i - start < size
                     /\ (i - start) % accuValue = 0
    BY <1>1 DEF Iterations, Word
  <2>3. ASSUME NEW i \in Iterations(start, end, accuValue)
        PROVE  \E t \in Tid : Runs(t, i)
    <3>1. i \in Word
      BY DEF Iterations
    <3>2. size \in Nat /\ i - start \in Nat /\ i - start < size
      BY <1>1, <1>3, <2>2, <3>1
    <3>3. PICK t \in Tid : Part(size, t) <= i - start /\ i - start < Part(size, t + 1)
      BY <3>2, SomeThread
    <3> QED BY <2>1, <2>2, <3>1, <3>3
  <2>4. ASSUME NEW t \in Tid, NEW i \in ThreadIterations(start, end, accuValue, t)
        PROVE  i \in Iterations(start, end, accuValue)
    <3>1. i \in Word
      BY DEF ThreadIterations
    <3> QED BY <2>1, <2>2, <3>1
  <2>5. ASSUME NEW t \in Tid, NEW u \in Tid, t < u, NEW i, Runs(t, i), Runs(u, i)
        PROVE  FALSE
    <3>1. i \in Word
      BY <2>5 DEF ThreadIterations
    <3>2. i - start < Part(size, t + 1) /\ Part(size, u) <= i - start
      BY <2>1, <2>5, <3>1
    <3>3. t + 1 \in Nat /\ u \in Nat /\ t + 1 <= u /\ size \in Int
      BY <1>1, <2>5 DEF Tid
    <3>4. Part(size, t + 1) <= Part(size, u)
      BY <3>3, PartMonotone
    <3>5. Part(size, t + 1) \in Int /\ Part(size, u) \in Int /\ i - start \in Int
      <4>1. t + 1 \in 0 .. mt_num_threads /\ u \in 0 .. mt_num_threads
        BY BoundsAreExact
      <4> QED BY <1>1, <3>1, <4>1, ShareIsExact DEF Word, Magnitude
    <3> QED BY <3>2, <3>4, <3>5
  <2> HIDE DEF size
  <2>6. \A t, u \in Tid : t # u => t < u \/ u < t
    BY DEF Tid
  <2> QED BY <2>3, <2>4, <2>5, <2>6
<1> QED BY <1>1, <1>2, <1>3

-----------------------------------------------------------------------------
(* The inductive invariant of the wrapped loop *)

Own(t, slot) == slot + t * thread_stack_size
Phi(t) == stack[Own(t, PhiSlot)]
First(t) == iterL(loop.start, loop.end, loop.accuValue, t)
Bound(t) == iterR(loop.start, loop.end, t)
Todo(t) == ThreadIterations(loop.start, loop.end, loop.accuValue, t)

\* The calls save nothing on the stack that differs between the threads.
SavesOnlyLr == ~SavesAcc /\ ~SavesThreadId

InBody == {"body", "store", "call", "return", "next"}
InLoop == InBody \cup {"head"}

LoopTypeOK == /\ TypeOK
              /\ loop \in Bounds
              /\ at \in [Tids -> Label]
              /\ stack \in [Address -> Int]
              /\ array \in [Index -> Int]
              /\ acc \in [Tids -> Int]
              /\ r10 \in [Tids -> Int]

\* Where the threads are, as ForkJoin sees them.
PlaceInv == /\ \A t \in Tids : at[t] # "out" => t \in started \ ran /\ phase # "serial"
            /\ \A t \in started \ ran : at[t] = "out" => t = 0 /\ phase = "forking"
            /\ phase = "forking" => at[0] = "out" /\ 0 \in started \ ran
            /\ phase = "serial" => ran = started
            /\ phase = "running" => started = Tids
            /\ phase = "serial" => started \in {{}, Tids}

\* What the threads share of the stack is the same for all.
StackInv == /\ \A t \in Tids : r10[t] = t /\ at[t] # "lost"
            /\ stack[EndSlot] = loop.end
            /\ \A t \in Tids : at[t] = "return" => stack[LrWord] = CallSite

\* A thread walks its own share, with its own phi.
Walks(t) == at[t] \in InLoop =>
              /\ Phi(t) >= First(t)
              /\ (Phi(t) - First(t)) % loop.accuValue = 0
              /\ stack[Own(t, RightSlot)] = Bound(t)
              /\ at[t] \in InBody => Phi(t) < Bound(t)
              /\ at[t] = "store" => acc[t] = Phi(t)
WalkInv == \A t \in Tids : Walks(t)

\* The iterations a thread is through with.
Through(t, i) == \/ at[t] = "out" /\ t \in ran
                 \/ at[t] = "end"
                 \/ at[t] \in InLoop /\ i < Phi(t)
                 \/ at[t] \in {"call", "return", "next"} /\ i = Phi(t)

ArrayInv == \A i \in Index :
              array[i] = IF \E t \in Tids : i \in Todo(t) /\ Through(t, i) THEN i + 1 ELSE i

IInv == LoopTypeOK /\ PlaceInv /\ StackInv /\ WalkInv /\ ArrayInv

-----------------------------------------------------------------------------
(* The frames *)

\* What the constants of the region are.
LEMMA TidsAreTid == /\ Tids = Tid /\ 0 \in Tids /\ Tids \subseteq Nat /\ ~Lossy
  BY LoopAssumption, WordAssumption DEF Tid

\* Private slots of the threads lie in the frame, apart from each other and from
\* what they share.
LEMMA OwnSlots ==
    ASSUME NEW t \in Tids, NEW u \in Tids,
           NEW s \in {PhiSlot, RightSlot}, NEW r \in {PhiSlot, RightSlot}
    PROVE  /\ Own(t, s) \in Address
           /\ EndSlot \in Address /\ {AccWord, R10Word, LrWord} \subseteq Address
           /\ Own(t, s) \notin {EndSlot, AccWord, R10Word, LrWord}
           /\ EndSlot \notin {AccWord, R10Word, LrWord}
           /\ Own(t, s) = Own(u, r) <=> t = u /\ s = r
           /\ PhiSlot # RightSlot
<1> DEFINE z == thread_stack_size
           n == mt_num_threads
<1>1. /\ z \in Nat /\ z >= 3 /\ n \in Nat \ {0}
      /\ s \in 1 .. (z - 1) /\ r \in 1 .. (z - 1)
      /\ t \in 0 .. (n - 1) /\ u \in 0 .. (n - 1)
  BY StackAssumption, FrameAssumption, WordAssumption, TidsAreTid
     DEF PhiSlot, RightSlot, Tid
<1> HIDE DEF z, n
<1>2. ASSUME NEW v \in 0 .. (n - 1)
      PROVE  v * z \in Nat /\ v * z <= (n - 1) * z /\ (n - 1) * z = n * z - z
  BY <1>1, MulMono
<1>3. /\ s + t * z \in 1 .. (n * z - 1)
      /\ n * z \in Nat /\ z <= n * z
  <2>1. 1 * z <= n * z /\ n * z \in Nat
    BY <1>1, MulMono
  <2> QED BY <1>1, <1>2, <2>1
<1>4. s + t * z = r + u * z => t = u /\ s = r
  <2> SUFFICES ASSUME s + t * z = r + u * z PROVE t = u /\ s = r
    OBVIOUS
  <2>1. s = (t * z + s) % z /\ r = (u * z + r) % z
    BY <1>1, ModUnique
  <2>2. t * z + s = u * z + r
    BY <1>1, <1>2
  <2>3. s = r /\ (t - u) * z = 0
    BY <1>1, <2>1, <2>2
  <2>4. t - u = 0
    BY <1>1, <2>3, MulSmall
  <2> QED BY <1>1, <2>3, <2>4
<1>5. n * z = z * n
  BY <1>1
<1> QED BY <1>1, <1>3, <1>4, <1>5, FrameAssumption
        DEF z, n, Own, Address, Frame, EndSlot, AccWord, LrWord, R10Word, PhiSlot, RightSlot

\* What a thread reads and writes under a name of the region.
LEMMA OwnAccess ==
    ASSUME NEW t \in Tids, r10[t] = t
    PROVE  /\ \A s \in {PhiSlot, RightSlot} : StoreAddr(t, s) = Own(t, s)
           /\ Load(t, PhiSlot) = Phi(t)
           /\ Load(t, RightSlot) = stack[Own(t, RightSlot)]
           /\ Load(t, EndSlot) = stack[EndSlot]
<1>1. EndSlot \notin InMtEnv /\ PhiSlot \in InMtEnv /\ RightSlot \in InMtEnv
  BY FrameAssumption DEF InMtEnv, EndSlot, PhiSlot, RightSlot
<1> QED BY <1>1 DEF Load, LoadAddr, StoreAddr, PrivateAddr, Own, Phi

-----------------------------------------------------------------------------
(* The shares *)

\* The bounds of the loop leave room for its counters.
LEMMA LoopFits ==
    ASSUME loop \in Bounds
    PROVE  /\ NoOverflow(loop.start, loop.end, loop.accuValue)
           /\ loop.start \in Int /\ loop.end \in Int
           /\ loop.accuValue \in Nat \ {0}
<1>1. NoOverflow(loop.start, loop.end, loop.accuValue)
  BY LoopAssumption
<1> QED BY <1>1, Fits

\* A phi inside a share is an iteration of it, and the next one fits the word.
LEMMA InShare ==
    ASSUME loop \in Bounds, NEW t \in Tids
    PROVE  /\ First(t) \in Int /\ Bound(t) \in Int
           /\ \A p \in Int : p >= First(t) /\ p < Bound(t) =>
                /\ Add(p, loop.accuValue) = p + loop.accuValue
                /\ p \in Todo(t) <=> (p - First(t)) % loop.accuValue = 0
<1> DEFINE start == loop.start
           end == loop.end
           a == loop.accuValue
           m == Magnitude(end - start)
           n == mt_num_threads
           l == Share(start, end, t)
           r == Share(start, end, t + 1)
           c == RoundUp(l, a)
<1>1. NoOverflow(start, end, a) /\ t \in Tid
  BY LoopFits, TidsAreTid
<1>2. /\ start \in Int /\ end \in Int /\ a \in Nat \ {0}
      /\ m \in Nat /\ n \in Nat \ {0} /\ HalfRange \in Nat \ {0}
      /\ m * n + n + a < HalfRange /\ m * n \in Nat
      /\ start - (m * n + n + a) >= -HalfRange
      /\ start + (m * n + n + a) < HalfRange
  BY <1>1, Fits, WordAssumption DEF Magnitude
<1>3. m <= m * n
  <2>1. 1 * m <= n * m
    BY <1>2, MulMono
  <2> HIDE DEF m, n
  <2> QED BY <1>2, <2>1
<1>4. /\ Bound(t) = start + r
      /\ First(t) = start + c
      /\ t \in 0 .. n /\ t + 1 \in 0 .. n
  BY <1>1, BoundsAreExact DEF First, Bound
<1>5. l \in Int /\ -m <= l /\ r \in Int /\ r <= m
  BY <1>1, <1>4, ShareIsExact
<1>6. c \in Int /\ l <= c
  BY <1>2, <1>5, RoundUpBounds
<1> HIDE DEF l, r, c, m, n
<1>7. First(t) \in Int /\ Bound(t) \in Int
  BY <1>2, <1>4, <1>5, <1>6
<1>8. ASSUME NEW p \in Int, p >= First(t), p < Bound(t)
      PROVE  /\ Add(p, a) = p + a
             /\ p \in Todo(t) <=> (p - First(t)) % a = 0
  <2>1. p \in Word /\ p + a \in Word
    BY <1>2, <1>3, <1>4, <1>5, <1>6, <1>8 DEF Word, n
  <2>2. Add(p, a) = p + a
    BY <2>1, WrapId DEF Add
  <2>3. p \in Todo(t) <=> (p - First(t)) % a = 0
    BY <1>8, <2>1 DEF Todo, ThreadIterations, First, Bound
  <2> QED BY <2>2, <2>3
<1> QED BY <1>7, <1>8

\* The shares are disjoint, inside the array, and together the whole loop.
LEMMA Shares ==
    ASSUME loop \in Bounds
    PROVE  /\ \A t, u \in Tids : \A i \in Todo(t) : i \in Todo(u) => t = u
           /\ \A t \in Tids : Todo(t) \subseteq Index
           /\ \A i : i \in Iterations(loop.start, loop.end, loop.accuValue)
                       <=> \E t \in Tids : i \in Todo(t)
           /\ \A t \in Tids : \A i \in Todo(t) :
                /\ i \in Int /\ First(t) <= i /\ i < Bound(t)
                /\ (i - First(t)) % loop.accuValue = 0
<1> DEFINE I == Iterations(loop.start, loop.end, loop.accuValue)
           Fit == NoOverflow(loop.start, loop.end, loop.accuValue)
<1>1. Fit /\ Tids = Tid
  BY LoopFits, TidsAreTid
<1>2. /\ UNION {Todo(t) : t \in Tid} = I
      /\ \A t, u \in Tid : t # u => Todo(t) \cap Todo(u) = {}
  BY <1>1, ChunksPartition DEF Todo
<1>3. I \subseteq Index
  <2>1. ASSUME NEW i \in I
        PROVE  i \in (loop.start - loop.accuValue) .. (loop.end + loop.accuValue)
    BY LoopFits, WordAssumption DEF Iterations, Word
  <2> QED BY <2>1 DEF Index
<1>4. ASSUME NEW t \in Tids, NEW i \in Todo(t)
      PROVE  /\ i \in Int /\ First(t) <= i /\ i < Bound(t)
             /\ (i - First(t)) % loop.accuValue = 0
  <2>1. /\ i \in Word /\ i >= First(t) /\ i < Bound(t)
        /\ (i - First(t)) % loop.accuValue = 0
    BY <1>4 DEF Todo, ThreadIterations, First, Bound
  <2>2. First(t) \in Int /\ i \in Int
    BY <2>1, InShare, WordAssumption DEF Word
  <2> QED BY <2>1, <2>2
<1> HIDE DEF I
<1>5. \A i : i \in I <=> \E t \in Tids : i \in Todo(t)
  BY <1>1, <1>2
<1>6. \A t \in Tids : Todo(t) \subseteq Index
  BY <1>3, <1>5
<1>7. \A t, u \in Tids : \A i \in Todo(t) : i \in Todo(u) => t = u
  BY <1>1, <1>2
<1> QED BY <1>4, <1>5, <1>6, <1>7 DEF I

\* Between an iteration and the next one there is none.
LEMMA NextIteration ==
    ASSUME NEW f \in Int, NEW p \in Int, NEW i \in Int, NEW a \in Nat \ {0},
           (p - f) % a = 0, (i - f) % a = 0
    PROVE  /\ ((p + a) - f) % a = 0
           /\ i < p + a <=> i < p \/ i = p
<1>1. PICK k \in Int : p - f = k * a
  <2> DEFINE k == (p - f) \div a
  <2>1. k \in Int /\ p - f = k * a
    OBVIOUS
  <2> QED BY <2>1
<1>2. PICK j \in Int : i - f = j * a
  <2> DEFINE j == (i - f) \div a
  <2>1. j \in Int /\ i - f = j * a
    OBVIOUS
  <2> QED BY <2>1
<1>3. ((p + a) - f) % a = 0
  <2>1. (p + a) - f = (k + 1) * a + 0 /\ k + 1 \in Int
    BY <1>1
  <2> QED BY <2>1, ModUnique
<1>4. i - p = (j - k) * a
  BY <1>1, <1>2
<1>5. ASSUME i < p + a, ~(i < p) PROVE i = p
  <2>1. (j - k) * a < a /\ -a < (j - k) * a
    BY <1>4, <1>5
  <2>2. j - k = 0
    BY <2>1, MulSmall
  <2> QED BY <1>4, <2>2
<1> QED BY <1>3, <1>5

-----------------------------------------------------------------------------
(* The steps *)

\* The subscripts are integers.
LEMMA IndexInt == Index \subseteq Int
<1> SUFFICES ASSUME NEW b \in Bounds,
                    NEW i \in (b.start - b.accuValue) .. (b.end + b.accuValue)
             PROVE  i \in Int
  BY DEF Index
<1>1. NoOverflow(b.start, b.end, b.accuValue)
  BY LoopAssumption
<1>2. b.start \in Int /\ b.end \in Int /\ b.accuValue \in Int
  BY <1>1, Fits
<1> QED BY <1>2

\* The initial states satisfy the invariant.
LEMMA InitInv == LoopInit => IInv
<1> SUFFICES ASSUME LoopInit PROVE IInv
  OBVIOUS
<1>1. LoopTypeOK
  <2>1. CallSite \in Int /\ Junk \in Int /\ loop.end \in Int
    BY LoopFits DEF CallSite, Junk, LoopInit
  <2>2. array \in [Index -> Int]
    BY IndexInt DEF LoopInit
  <2> QED BY <2>1, <2>2, TidsAreTid DEF LoopInit, Init, LoopTypeOK, TypeOK, Label
<1>2. PlaceInv
  BY DEF LoopInit, Init, PlaceInv
<1>3. StackInv
  BY OwnSlots, TidsAreTid DEF LoopInit, StackInv
<1>4. WalkInv
  BY DEF LoopInit, WalkInv, Walks, InLoop, InBody
<1>5. ArrayInv
  BY DEF LoopInit, Init, ArrayInv, Through, InLoop, InBody
<1> QED BY <1>1, <1>2, <1>3, <1>4, <1>5 DEF IInv

\* A step that moves nobody to another iteration leaves the array as it should be.
LEMMA ArrayKept ==
    ASSUME ArrayInv, UNCHANGED <<array, loop>>,
           \A t \in Tids : \A i \in Todo(t) : Through(t, i)' <=> Through(t, i)
    PROVE  ArrayInv'
  BY DEF ArrayInv, Todo

\* What the other threads do is none of a thread's business.
LEMMA OthersWalk ==
    ASSUME NEW t \in Tids, UNCHANGED loop, Walks(t), at'[t] = at[t], acc'[t] = acc[t],
           stack'[Own(t, PhiSlot)] = stack[Own(t, PhiSlot)],
           stack'[Own(t, RightSlot)] = stack[Own(t, RightSlot)]
    PROVE  /\ Walks(t)'
           /\ Phi(t)' = Phi(t)
  BY DEF Walks, Phi, First, Bound

\* A step of one thread leaves what another has done.
LEMMA OthersThrough ==
    ASSUME NEW t \in Tids, NEW i, at'[t] = at[t], Phi(t)' = Phi(t),
           t \in ran' <=> t \in ran
    PROVE  Through(t, i)' <=> Through(t, i)
  BY DEF Through

\* A step of CallStart keeps the invariant.
LEMMA CallStartInv == ASSUME IInv, CallStart PROVE IInv'
<1> USE DEF IInv
<1>1. LoopTypeOK'
  BY TidsAreTid DEF CallStart, Begin, LoopTypeOK, TypeOK, loopVars
<1>2. PlaceInv'
  BY TidsAreTid DEF CallStart, Begin, PlaceInv, LoopTypeOK, TypeOK, loopVars
<1>3. StackInv' /\ WalkInv'
  BY DEF CallStart, StackInv, WalkInv, Walks, Phi, First, Bound, loopVars
<1>4. ArrayInv'
  <2>1. ran = {} /\ ran' = {}
    BY DEF CallStart, Begin, LoopTypeOK, TypeOK
  <2> QED BY <2>1, ArrayKept DEF CallStart, Through, loopVars, Phi
<1> QED BY <1>1, <1>2, <1>3, <1>4

\* A step of StartThread keeps the invariant.
LEMMA StartThreadInv == ASSUME IInv, NEW t \in Tids, StartThread(t) PROVE IInv'
<1> USE DEF IInv
<1>1. /\ at[t] = "out" /\ t \notin ran /\ ran' = ran
      /\ at' = [at EXCEPT ![t] = "entry"]
      /\ UNCHANGED <<phase, loop, stack, array, acc, r10>>
  BY DEF StartThread, Start, PlaceInv, LoopTypeOK, TypeOK, Goto
<1>2. LoopTypeOK'
  BY <1>1 DEF StartThread, Start, LoopTypeOK, TypeOK, Label
<1>3. PlaceInv'
  BY <1>1, TidsAreTid DEF StartThread, Start, PlaceInv, LoopTypeOK, TypeOK
<1>4. StackInv'
  BY <1>1 DEF StackInv, LoopTypeOK
<1>5. WalkInv'
  BY <1>1 DEF WalkInv, Walks, Phi, First, Bound, InLoop, InBody, LoopTypeOK
<1>6. ArrayInv'
  BY <1>1, ArrayKept DEF Through, InLoop, InBody, Phi, LoopTypeOK
<1> QED BY <1>2, <1>3, <1>4, <1>5, <1>6

\* A step of StartDone keeps the invariant.
LEMMA StartDoneInv == ASSUME IInv, StartDone PROVE IInv'
<1> USE DEF IInv
<1>1. /\ at[0] = "out" /\ 0 \in started \ ran /\ started = Tids
      /\ at' = [at EXCEPT ![0] = "entry"]
      /\ phase = "forking" /\ phase' = "running"
      /\ UNCHANGED <<started, ran, loop, stack, array, acc, r10>>
  BY TidsAreTid DEF StartDone, ForkEnd, PlaceInv, Goto
<1>2. LoopTypeOK'
  BY <1>1 DEF LoopTypeOK, TypeOK, Label
<1>3. PlaceInv'
  BY <1>1, TidsAreTid DEF PlaceInv, LoopTypeOK, TypeOK
<1>4. StackInv'
  BY <1>1 DEF StackInv, LoopTypeOK
<1>5. WalkInv'
  BY <1>1 DEF WalkInv, Walks, Phi, First, Bound, InLoop, InBody, LoopTypeOK
<1>6. ArrayInv'
  BY <1>1, ArrayKept DEF Through, InLoop, InBody, Phi, LoopTypeOK
<1> QED BY <1>2, <1>3, <1>4, <1>5, <1>6

\* A step of Joined keeps the invariant.
LEMMA JoinedInv == ASSUME IInv, Joined PROVE IInv'
<1> USE DEF IInv
<1>1. LoopTypeOK' /\ PlaceInv'
  BY DEF Joined, Join, LoopTypeOK, TypeOK, PlaceInv, loopVars
<1>2. StackInv' /\ WalkInv'
  BY DEF Joined, StackInv, WalkInv, Walks, Phi, First, Bound, loopVars
<1>3. ArrayInv'
  BY ArrayKept DEF Joined, Join, Through, loopVars, Phi
<1> QED BY <1>1, <1>2, <1>3

\* What the steps of a thread inside the region have in common.
LEMMA PlaceKept ==
    ASSUME LoopTypeOK, PlaceInv, NEW t \in Tids, at[t] # "out",
           NEW label \in Label \ {"out"}, Goto(t, label), UNCHANGED vars
    PROVE  PlaceInv'
<1>1. at[0] = "out" /\ phase = "forking" => t # 0
  OBVIOUS
<1> QED BY <1>1, TidsAreTid DEF LoopTypeOK, PlaceInv, Goto, vars

\* A step of Enter keeps the invariant.
LEMMA EnterInv == ASSUME IInv, NEW t \in Tids, Enter(t) PROVE IInv'
<1> USE DEF IInv
<1> DEFINE a == loop.accuValue
<1>1. r10[t] = t /\ stack[EndSlot] = loop.end /\ loop \in Bounds
  BY DEF StackInv, LoopTypeOK
<1>2. /\ at[t] = "entry" /\ Goto(t, "head") /\ at' = [at EXCEPT ![t] = "head"]
      /\ stack' = [stack EXCEPT ![Own(t, PhiSlot)] = First(t),
                                ![Own(t, RightSlot)] = Bound(t)]
      /\ UNCHANGED <<vars, loop, array, acc, r10>>
  BY <1>1, OwnAccess DEF Enter, First, Bound, Goto
<1>3. /\ stack \in [Address -> Int] /\ at \in [Tids -> Label] /\ a \in Nat \ {0}
      /\ First(t) \in Int /\ Bound(t) \in Int
  BY <1>1, InShare, LoopFits DEF LoopTypeOK
<1>4. /\ stack'[Own(t, PhiSlot)] = First(t)
      /\ stack'[Own(t, RightSlot)] = Bound(t)
  BY <1>2, <1>3, OwnSlots
<1>5. \A u \in Tids \ {t} : /\ stack'[Own(u, PhiSlot)] = stack[Own(u, PhiSlot)]
                            /\ stack'[Own(u, RightSlot)] = stack[Own(u, RightSlot)]
                            /\ at'[u] = at[u] /\ acc'[u] = acc[u]
  BY <1>2, <1>3, OwnSlots
<1>6. stack'[EndSlot] = stack[EndSlot] /\ stack'[LrWord] = stack[LrWord]
  BY <1>2, <1>3, OwnSlots
<1>7. LoopTypeOK'
  BY <1>2, <1>3 DEF LoopTypeOK, TypeOK, Label, vars
<1>8. PlaceInv'
  BY <1>2, PlaceKept DEF Label
<1>9. StackInv'
  BY <1>2, <1>3, <1>6 DEF StackInv
<1>10. WalkInv'
  <2>1. (First(t) - First(t)) % a = 0
    BY <1>3, ModUnique
  <2>2. Walks(t)'
    BY <1>2, <1>3, <1>4, <2>1 DEF Walks, Phi, First, Bound, InBody
  <2> QED BY <1>2, <1>5, <2>2, OthersWalk DEF WalkInv
<1>11. ArrayInv'
  <2>1. ASSUME NEW i \in Todo(t) PROVE Through(t, i)' <=> Through(t, i)
    <3>1. i \in Int /\ First(t) <= i
      BY <1>1, Shares
    <3>2. ~Through(t, i)
      BY <1>2 DEF Through, InLoop, InBody
    <3>3. Phi(t)' = First(t) /\ at'[t] = "head"
      BY <1>2, <1>3, <1>4 DEF Phi
    <3> QED BY <1>3, <3>1, <3>2, <3>3 DEF Through
  <2>2. ASSUME NEW u \in Tids \ {t}, NEW i \in Todo(u)
        PROVE  Through(u, i)' <=> Through(u, i)
    BY <1>2, <1>5, OthersThrough DEF Phi, vars
  <2> QED BY <1>2, <2>1, <2>2, ArrayKept
<1> QED BY <1>7, <1>8, <1>9, <1>10, <1>11

\* A step of Head keeps the invariant.
LEMMA HeadInv == ASSUME IInv, NEW t \in Tids, Head(t) PROVE IInv'
<1> USE DEF IInv
<1> DEFINE label == IF Phi(t) < Bound(t) THEN "body" ELSE "end"
<1>1. r10[t] = t /\ loop \in Bounds /\ at[t] = "head"
  BY DEF StackInv, LoopTypeOK, Head
<1>2. /\ Phi(t) >= First(t) /\ (Phi(t) - First(t)) % loop.accuValue = 0
      /\ stack[Own(t, RightSlot)] = Bound(t)
      /\ Phi(t) \in Int /\ First(t) \in Int /\ Bound(t) \in Int
  BY <1>1, OwnSlots, InShare DEF WalkInv, Walks, InLoop, LoopTypeOK, Phi
<1>3. /\ Goto(t, label) /\ at' = [at EXCEPT ![t] = label]
      /\ UNCHANGED <<vars, loop, stack, array, acc, r10>>
  BY <1>1, <1>2, OwnAccess DEF Head, Goto
<1>4. LoopTypeOK'
  BY <1>3 DEF LoopTypeOK, TypeOK, Label, vars
<1>5. PlaceInv'
  BY <1>1, <1>3, PlaceKept DEF Label
<1>6. StackInv'
  BY <1>3 DEF StackInv, LoopTypeOK
<1>7. \A u \in Tids : Phi(u)' = Phi(u) /\ (u # t => at'[u] = at[u])
  BY <1>3 DEF Phi, LoopTypeOK
<1>8. WalkInv'
  <2>1. Walks(t)'
    BY <1>2, <1>3, <1>7 DEF Walks, First, Bound, InBody, InLoop, LoopTypeOK
  <2> QED BY <1>3, <1>7, <2>1, OthersWalk DEF WalkInv
<1>9. ArrayInv'
  <2>1. ASSUME NEW i \in Todo(t) PROVE Through(t, i)' <=> Through(t, i)
    <3>1. i \in Int /\ i < Bound(t)
      BY <1>1, Shares
    <3>2. Through(t, i) <=> i < Phi(t)
      BY <1>1 DEF Through, InLoop
    <3>3. at'[t] = label
      BY <1>3 DEF LoopTypeOK
    <3> QED BY <1>2, <1>7, <3>1, <3>2, <3>3 DEF Through, InLoop, InBody
  <2>2. ASSUME NEW u \in Tids \ {t}, NEW i \in Todo(u)
        PROVE  Through(u, i)' <=> Through(u, i)
    BY <1>3, <1>7, OthersThrough DEF vars
  <2> QED BY <1>3, <2>1, <2>2, ArrayKept
<1> QED BY <1>4, <1>5, <1>6, <1>8, <1>9

\* A thread in the body of the loop is at an iteration of its own.
LEMMA AtOwnIteration ==
    ASSUME IInv, NEW t \in Tids, at[t] \in InBody
    PROVE  /\ Load(t, PhiSlot) = Phi(t)
           /\ Phi(t) \in Int /\ Phi(t) \in Todo(t) /\ Phi(t) \in Index
           /\ Add(Phi(t), loop.accuValue) = Phi(t) + loop.accuValue
<1> USE DEF IInv
<1>1. r10[t] = t /\ loop \in Bounds /\ Phi(t) \in Int
  BY OwnSlots DEF StackInv, LoopTypeOK, Phi
<1>2. /\ Phi(t) >= First(t) /\ Phi(t) < Bound(t)
      /\ (Phi(t) - First(t)) % loop.accuValue = 0
  BY DEF WalkInv, Walks, InLoop
<1> QED BY <1>1, <1>2, OwnAccess, InShare, Shares

\* A step of Body keeps the invariant.
LEMMA BodyInv == ASSUME SavesOnlyLr, IInv, NEW t \in Tids, Body(t) PROVE IInv'
<1> USE DEF IInv
<1>1. /\ at[t] = "body" /\ Load(t, PhiSlot) = Phi(t) /\ loop \in Bounds
      /\ Phi(t) \in Int /\ Phi(t) \in Todo(t) /\ Phi(t) \in Index
  BY AtOwnIteration DEF Body, InBody, LoopTypeOK
<1>2. /\ Goto(t, "store") /\ at' = [at EXCEPT ![t] = "store"]
      /\ acc' = [acc EXCEPT ![t] = array[Phi(t)]]
      /\ UNCHANGED <<vars, loop, stack, array, r10>>
  BY <1>1 DEF Body, Goto, SavesOnlyLr
<1>3. array[Phi(t)] = Phi(t)
  <2>1. ~Through(t, Phi(t))
    BY <1>1 DEF Through, InLoop, InBody
  <2>2. ~\E u \in Tids : Phi(t) \in Todo(u) /\ Through(u, Phi(t))
    BY <1>1, <2>1, Shares
  <2> QED BY <1>1, <2>2 DEF ArrayInv
<1>4. LoopTypeOK'
  BY <1>1, <1>2, <1>3 DEF LoopTypeOK, TypeOK, Label, vars
<1>5. PlaceInv'
  BY <1>1, <1>2, PlaceKept DEF Label
<1>6. StackInv'
  BY <1>2 DEF StackInv, LoopTypeOK
<1>7. \A u \in Tids : Phi(u)' = Phi(u) /\ (u # t => at'[u] = at[u] /\ acc'[u] = acc[u])
  BY <1>2 DEF Phi, LoopTypeOK
<1>8. WalkInv'
  <2>1. Walks(t)'
    BY <1>1, <1>2, <1>3, <1>7 DEF WalkInv, Walks, First, Bound, InBody, InLoop, LoopTypeOK
  <2> QED BY <1>2, <1>7, <2>1, OthersWalk DEF WalkInv
<1>9. ArrayInv'
  BY <1>1, <1>2, <1>7, ArrayKept DEF Through, InLoop, InBody, LoopTypeOK, vars
<1> QED BY <1>4, <1>5, <1>6, <1>8, <1>9

\* A step of Store keeps the invariant.
LEMMA StoreInv == ASSUME SavesOnlyLr, IInv, NEW t \in Tids, Store(t) PROVE IInv'
<1> USE DEF IInv
<1> DEFINE label == IF CallPushes # {} THEN "call" ELSE "next"
<1>1. /\ at[t] = "store" /\ Load(t, PhiSlot) = Phi(t) /\ loop \in Bounds
      /\ Phi(t) \in Int /\ Phi(t) \in Todo(t) /\ Phi(t) \in Index
  BY AtOwnIteration DEF Store, InBody, LoopTypeOK
<1>2. acc[t] = Phi(t)
  BY <1>1 DEF WalkInv, Walks, InLoop, InBody
<1>3. /\ Goto(t, label) /\ at' = [at EXCEPT ![t] = label] /\ at'[t] = label
      /\ array' = [array EXCEPT ![Phi(t)] = Phi(t) + 1]
      /\ UNCHANGED <<vars, loop, stack, acc, r10>>
  BY <1>1, <1>2 DEF Store, Goto, LoopTypeOK, SavesOnlyLr
<1>4. LoopTypeOK'
  <2>1. label \in Label
    BY DEF Label
  <2> HIDE DEF label
  <2>2. at' \in [Tids -> Label]
    BY <1>3, <2>1 DEF LoopTypeOK
  <2>3. array' \in [Index -> Int]
    BY <1>1, <1>3 DEF LoopTypeOK
  <2> QED BY <1>3, <2>2, <2>3 DEF LoopTypeOK, TypeOK, vars
<1>5. PlaceInv'
  BY <1>1, <1>3, PlaceKept DEF Label
<1>6. StackInv'
  BY <1>3 DEF StackInv, LoopTypeOK
<1>7. \A u \in Tids : Phi(u)' = Phi(u) /\ (u # t => at'[u] = at[u])
  BY <1>3 DEF Phi, LoopTypeOK
<1>8. WalkInv'
  <2>1. Walks(t)'
    BY <1>1, <1>3, <1>7 DEF WalkInv, Walks, First, Bound, InBody, InLoop
  <2> QED BY <1>3, <1>7, <2>1, OthersWalk DEF WalkInv
<1>9. ArrayInv'
  <2>1. ASSUME NEW i \in Index, i # Phi(t), NEW u \in Tids
        PROVE  Through(u, i)' <=> Through(u, i)
    BY <1>1, <1>3, <1>7, <2>1 DEF Through, InLoop, InBody, vars
  <2>2. ASSUME NEW i \in Index, i = Phi(t) PROVE Through(t, i)'
    BY <1>3, <1>7, <2>2 DEF Through, InLoop, InBody
  <2>3. ASSUME NEW i \in Index
        PROVE  array'[i] = IF \E u \in Tids : i \in Todo(u) /\ Through(u, i)'
                          THEN i + 1 ELSE i
    <3>1. CASE i = Phi(t)
      <4>1. array'[i] = i + 1
        BY <1>3, <3>1 DEF LoopTypeOK
      <4>2. \E u \in Tids : i \in Todo(u) /\ Through(u, i)'
        BY <1>1, <2>2, <3>1 DEF LoopTypeOK
      <4> QED BY <4>1, <4>2
    <3>2. CASE i # Phi(t)
      BY <1>3, <2>1, <3>2 DEF LoopTypeOK, ArrayInv
    <3> QED BY <3>1, <3>2
  <2> QED BY <1>3, <2>3 DEF ArrayInv, Todo
<1> QED BY <1>4, <1>5, <1>6, <1>8, <1>9

\* A step of Call keeps the invariant.
LEMMA CallInv == ASSUME SavesOnlyLr, IInv, NEW t \in Tids, Call(t) PROVE IInv'
<1> USE DEF IInv
<1>1. /\ at[t] = "call" /\ Goto(t, "return") /\ at' = [at EXCEPT ![t] = "return"]
      /\ stack' = [stack EXCEPT ![AccWord] = @, ![R10Word] = @, ![LrWord] = CallSite]
      /\ UNCHANGED <<vars, loop, array, acc, r10>>
  BY DEF Call, Goto, SavesOnlyLr
<1>2. /\ stack \in [Address -> Int] /\ {AccWord, R10Word, LrWord} \subseteq Address
      /\ LrWord # R10Word /\ EndSlot # LrWord
  BY OwnSlots DEF LoopTypeOK, LrWord, R10Word
<1>3. /\ stack' \in [Address -> Int] /\ stack'[LrWord] = CallSite
      /\ \A x \in Address \ {LrWord} : stack'[x] = stack[x]
  BY <1>1, <1>2 DEF CallSite
<1>4. LoopTypeOK'
  BY <1>1, <1>3 DEF LoopTypeOK, TypeOK, Label, vars
<1>5. PlaceInv'
  BY <1>1, PlaceKept DEF Label
<1>6. StackInv'
  BY <1>1, <1>2, <1>3, OwnSlots DEF StackInv, LoopTypeOK
<1>7. \A u \in Tids : /\ stack'[Own(u, PhiSlot)] = stack[Own(u, PhiSlot)]
                      /\ stack'[Own(u, RightSlot)] = stack[Own(u, RightSlot)]
                      /\ Phi(u)' = Phi(u)
                      /\ u # t => at'[u] = at[u]
  BY <1>1, <1>3, OwnSlots DEF Phi, LoopTypeOK
<1>8. WalkInv'
  <2>1. Walks(t)'
    BY <1>1, <1>7 DEF WalkInv, Walks, First, Bound, InBody, InLoop, LoopTypeOK
  <2> QED BY <1>1, <1>7, <2>1, OthersWalk DEF WalkInv
<1>9. ArrayInv'
  BY <1>1, <1>7, ArrayKept DEF Through, InLoop, InBody, LoopTypeOK, vars
<1> QED BY <1>4, <1>5, <1>6, <1>8, <1>9

\* A step of Return keeps the invariant.
LEMMA ReturnInv == ASSUME SavesOnlyLr, IInv, NEW t \in Tids, Return(t) PROVE IInv'
<1> USE DEF IInv
<1>1. /\ at[t] = "return" /\ stack[LrWord] = CallSite
      /\ Goto(t, "next") /\ at' = [at EXCEPT ![t] = "next"]
      /\ UNCHANGED <<vars, loop, stack, array, acc, r10>>
  BY DEF Return, Goto, StackInv, LoopTypeOK, SavesOnlyLr
<1>2. LoopTypeOK'
  BY <1>1 DEF LoopTypeOK, TypeOK, Label, vars
<1>3. PlaceInv'
  BY <1>1, PlaceKept DEF Label
<1>4. StackInv'
  BY <1>1 DEF StackInv, LoopTypeOK
<1>5. \A u \in Tids : Phi(u)' = Phi(u) /\ (u # t => at'[u] = at[u])
  BY <1>1 DEF Phi, LoopTypeOK
<1>6. WalkInv'
  <2>1. Walks(t)'
    BY <1>1, <1>5 DEF WalkInv, Walks, First, Bound, InBody, InLoop, LoopTypeOK
  <2> QED BY <1>1, <1>5, <2>1, OthersWalk DEF WalkInv
<1>7. ArrayInv'
  BY <1>1, <1>5, ArrayKept DEF Through, InLoop, InBody, LoopTypeOK, vars
<1> QED BY <1>2, <1>3, <1>4, <1>6, <1>7

\* A step of Increment keeps the invariant.
LEMMA IncrementInv == ASSUME IInv, NEW t \in Tids, Increment(t) PROVE IInv'
<1> USE DEF IInv
<1> DEFINE a == loop.accuValue
<1>1. /\ at[t] = "next" /\ Load(t, PhiSlot) = Phi(t) /\ loop \in Bounds
      /\ r10[t] = t /\ Phi(t) \in Int /\ a \in Nat \ {0}
      /\ Add(Phi(t), a) = Phi(t) + a
  BY AtOwnIteration, LoopFits DEF Increment, InBody, LoopTypeOK, StackInv
<1>2. /\ Phi(t) >= First(t) /\ (Phi(t) - First(t)) % a = 0
      /\ stack[Own(t, RightSlot)] = Bound(t) /\ First(t) \in Int
  BY <1>1, InShare DEF WalkInv, Walks, InLoop, InBody
<1>3. /\ Goto(t, "head") /\ at' = [at EXCEPT ![t] = "head"]
      /\ stack' = [stack EXCEPT ![Own(t, PhiSlot)] = Phi(t) + a]
      /\ UNCHANGED <<vars, loop, array, acc, r10>>
  BY <1>1, OwnAccess DEF Increment, Goto
<1>4. stack \in [Address -> Int] /\ at \in [Tids -> Label]
  BY DEF LoopTypeOK
<1>5. /\ stack'[Own(t, PhiSlot)] = Phi(t) + a
      /\ stack'[Own(t, RightSlot)] = stack[Own(t, RightSlot)]
      /\ stack'[EndSlot] = stack[EndSlot] /\ stack'[LrWord] = stack[LrWord]
  BY <1>3, <1>4, OwnSlots
<1>6. \A u \in Tids \ {t} : /\ stack'[Own(u, PhiSlot)] = stack[Own(u, PhiSlot)]
                            /\ stack'[Own(u, RightSlot)] = stack[Own(u, RightSlot)]
                            /\ at'[u] = at[u] /\ acc'[u] = acc[u]
  BY <1>3, <1>4, OwnSlots
<1>7. LoopTypeOK'
  <2>1. Phi(t) + a \in Int
    BY <1>1
  <2>2. stack' \in [Address -> Int]
    BY <1>3, <1>4, <2>1, OwnSlots
  <2> QED BY <1>3, <2>2 DEF LoopTypeOK, TypeOK, Label, vars
<1>8. PlaceInv'
  BY <1>1, <1>3, PlaceKept DEF Label
<1>9. StackInv'
  BY <1>3, <1>4, <1>5 DEF StackInv
<1>10. Phi(t)' = Phi(t) + a /\ at'[t] = "head"
  BY <1>3, <1>4, <1>5 DEF Phi
<1>11. WalkInv'
  <2>1. ((Phi(t) + a) - First(t)) % a = 0 /\ Phi(t) + a >= First(t)
    BY <1>1, <1>2, NextIteration
  <2>2. Walks(t)'
    BY <1>2, <1>3, <1>5, <1>10, <2>1 DEF Walks, First, Bound, InBody
  <2> QED BY <1>3, <1>6, <2>2, OthersWalk DEF WalkInv
<1>12. ArrayInv'
  <2>1. ASSUME NEW i \in Todo(t) PROVE Through(t, i)' <=> Through(t, i)
    <3>1. i \in Int /\ (i - First(t)) % a = 0
      BY <1>1, Shares
    <3>2. i < Phi(t) + a <=> i < Phi(t) \/ i = Phi(t)
      BY <1>1, <1>2, <3>1, NextIteration
    <3> QED BY <1>1, <1>10, <3>2 DEF Through, InLoop, InBody
  <2>2. ASSUME NEW u \in Tids \ {t}, NEW i \in Todo(u)
        PROVE  Through(u, i)' <=> Through(u, i)
    BY <1>3, <1>6, OthersThrough DEF Phi, vars
  <2> QED BY <1>3, <2>1, <2>2, ArrayKept
<1> QED BY <1>7, <1>8, <1>9, <1>11, <1>12

\* A step of CallEnd keeps the invariant.
LEMMA CallEndInv == ASSUME IInv, NEW t \in Tids, CallEnd(t) PROVE IInv'
<1> USE DEF IInv
<1>1. /\ at[t] = "end" /\ phase # "serial" /\ t \in started \ ran
      /\ t = 0 => phase = "running"
      /\ ran' = ran \cup {t} /\ at' = [at EXCEPT ![t] = "out"]
      /\ UNCHANGED <<phase, started, loop, stack, array, acc, r10>>
  BY DEF CallEnd, Run, Goto
<1>2. LoopTypeOK'
  BY <1>1 DEF LoopTypeOK, TypeOK, Label
<1>3. PlaceInv'
  BY <1>1, TidsAreTid DEF PlaceInv, LoopTypeOK, TypeOK
<1>4. StackInv'
  BY <1>1 DEF StackInv, LoopTypeOK
<1>5. \A u \in Tids : Phi(u)' = Phi(u) /\ (u # t => at'[u] = at[u])
  BY <1>1 DEF Phi, LoopTypeOK
<1>6. WalkInv'
  <2>1. Walks(t)'
    BY <1>1, <1>5 DEF Walks, InBody, InLoop, LoopTypeOK
  <2> QED BY <1>1, <1>5, <2>1, OthersWalk DEF WalkInv
<1>7. ArrayInv'
  BY <1>1, <1>5, ArrayKept DEF Through, InLoop, InBody, LoopTypeOK
<1> QED BY <1>2, <1>3, <1>4, <1>6, <1>7

\* Every step keeps the invariant.
LEMMA StepInv == ASSUME SavesOnlyLr PROVE IInv /\ [LoopNext]_allVars => IInv'
<1> SUFFICES ASSUME IInv, [LoopNext]_allVars PROVE IInv'
  OBVIOUS
<1>1. CASE UNCHANGED allVars
  <2>1. LoopTypeOK' /\ PlaceInv' /\ StackInv'
    BY <1>1 DEF IInv, LoopTypeOK, TypeOK, PlaceInv, StackInv, allVars, vars, loopVars
  <2>2. WalkInv'
    BY <1>1 DEF IInv, WalkInv, Walks, Phi, First, Bound, allVars, vars, loopVars
  <2>3. ArrayInv'
    BY <1>1, ArrayKept DEF IInv, Through, Phi, allVars, vars, loopVars
  <2> QED BY <2>1, <2>2, <2>3 DEF IInv
<1>2. ASSUME NEW t \in Tids, Iterate(t) PROVE IInv'
  BY <1>2, EnterInv, HeadInv, BodyInv, StoreInv, CallInv, ReturnInv, IncrementInv,
     CallEndInv DEF Iterate
<1>3. ASSUME NEW t \in Tids, StartThread(t) PROVE IInv'
  BY <1>3, StartThreadInv
<1>4. Finished => UNCHANGED allVars
  BY DEF Finished
<1> QED BY <1>1, <1>2, <1>3, <1>4, CallStartInv, StartDoneInv, JoinedInv DEF LoopNext

-----------------------------------------------------------------------------
\* The invariant holds as long as the calls made in the region save nothing but
\* lr; when they do it does not, as the run parallel_loop_call shows.
THEOREM Invariance == ASSUME SavesOnlyLr PROVE LoopSpec => []IInv
<1>1. LoopInit => IInv
  BY InitInv
<1>2. IInv /\ [LoopNext]_allVars => IInv'
  BY StepInv
<1> QED BY <1>1, <1>2, PTL DEF LoopSpec

\* After the region memory is what the sequential loop would have left: for any
\* number of threads, any bounds and step without overflow, any stack frame.
THEOREM ParallelIsSequential ==
    ASSUME SavesOnlyLr PROVE LoopSpec => []SequentialResult
<1>1. IInv => SequentialResult
  <2> SUFFICES ASSUME IInv, phase = "serial", started # {}
               PROVE  array = [i \in Index |-> IF i \in Iterations(loop.start,
                                  loop.end, loop.accuValue) THEN i + 1 ELSE i]
    BY DEF SequentialResult
  <2>1. /\ ran = Tids /\ \A t \in Tids : at[t] = "out"
        /\ loop \in Bounds /\ array \in [Index -> Int]
    BY DEF IInv, PlaceInv, LoopTypeOK
  <2>2. \A t \in Tids, i \in Index : Through(t, i)
    BY <2>1 DEF Through
  <2>3. \A i \in Index : array[i] = IF \E t \in Tids : i \in Todo(t)
                                     THEN i + 1 ELSE i
    BY <2>2 DEF IInv, ArrayInv
  <2>4. \A i : i \in Iterations(loop.start, loop.end, loop.accuValue)
                <=> \E t \in Tids : i \in Todo(t)
    BY <2>1, Shares
  <2> QED BY <2>1, <2>3, <2>4
<1> QED BY <1>1, Invariance, PTL

\* No two threads work on the same element at the same time.
THEOREM NoRace == ASSUME SavesOnlyLr PROVE LoopSpec => []RaceFree
<1>1. IInv => RaceFree
  <2> SUFFICES ASSUME IInv, NEW t \in Working, NEW u \in Working,
                      Load(t, PhiSlot) = Load(u, PhiSlot)
               PROVE  t = u
    BY DEF RaceFree
  <2>1. t \in Tids /\ u \in Tids /\ at[t] \in InBody /\ at[u] \in InBody
    BY DEF Working, InBody
  <2>2. Phi(t) = Phi(u) /\ Phi(t) \in Todo(t) /\ Phi(u) \in Todo(u)
    BY <2>1, AtOwnIteration
  <2>3. loop \in Bounds
    BY DEF IInv, LoopTypeOK
  <2> QED BY <2>1, <2>2, <2>3, Shares
<1> QED BY <1>1, Invariance, PTL

\* The region is a fork and a join: the loop's steps are steps of ForkJoin.
THEOREM LoopForksAndJoins == LoopInit /\ [][LoopNext]_allVars => Init /\ [][Next]_vars
<1>1. LoopInit => Init
  BY DEF LoopInit
<1>2. [LoopNext]_allVars => [Next]_vars
  BY DEF LoopNext, allVars, CallStart, StartDone, Joined, StartThread, Iterate,
         Finished, Enter, Head, Body, Store, Call, Return, Increment, CallEnd, Next
<1> QED BY <1>1, <1>2, PTL
=============================================================================
