---------------------------- MODULE MediaProofs -----------------------------
(***************************************************************************)
(* What is agreed and what is shown.  Formats: for every set of sizes,     *)
(* frame lengths and foreign types the pin keeps what it agreed.           *)
(* Renderers: for every clock, sample and client what is left of a sample  *)
(* and of an end of stream, and that the clock's thread sleeps past no     *)
(* advise; for every length of a frame, lead, lag and cost of drawing      *)
(* which frames are shown, and when.                                       *)
(***************************************************************************)
EXTENDS MCRendering, PinFormat, FiniteSetTheorems, SequenceTheorems, TLAPS

\* One step of the square root: b is the quotient, rounded down.
LEMMA NewtonStep ==
    ASSUME NEW a \in Nat \ {0}, NEW x \in Nat
    PROVE  LET b == (a * a + x) \div (2 * a) IN
           /\ b \in Nat
           /\ 2 * (a * b) <= a * a + x
           /\ a * a + x < 2 * (a * b) + 2 * a
<1> DEFINE num == a * a + x
           den == 2 * a
           b == num \div den
<1>1. num \in Nat /\ den \in Nat /\ den > 0
  OBVIOUS
<1> HIDE DEF num, den
<1>2. b \in Nat /\ den * b <= num /\ num < den * b + den
  BY <1>1
<1>3. den * b = 2 * (a * b)
  BY <1>2 DEF den
<1> QED BY <1>2, <1>3 DEF num, den

\* The root is less than one above what a step gives.
LEMMA NeverBelow ==
    ASSUME NEW a \in Nat \ {0}, NEW x \in Nat, NEW b \in Nat,
           a * a + x < 2 * (a * b) + 2 * a
    PROVE  x < (b + 1) * (b + 1)
<1> DEFINE c == b + 1
           y == a * a
<1>1. c \in Nat /\ y \in Nat /\ y > 0 /\ y + x < 2 * (a * c)
  OBVIOUS
<1> HIDE DEF c
<1>2. y = a * a
  OBVIOUS
<1> HIDE DEF y
<1>3. (y + x) * (y + x) < (2 * (a * c)) * (2 * (a * c))
  <2> DEFINE u == y + x
             v == 2 * (a * c)
  <2>1. u \in Nat /\ v \in Nat /\ u < v
    BY <1>1
  <2> HIDE DEF u, v
  <2>2. u * u < v * v
    BY <2>1
  <2> QED BY <2>2 DEF u, v
<1>4. (2 * (a * c)) * (2 * (a * c)) = 4 * (y * (c * c))
  BY <1>1, <1>2
<1>5. (y + x) * (y + x) = (y - x) * (y - x) + 4 * (y * x)
  BY <1>1
<1>6. (y - x) * (y - x) >= 0
  BY <1>1
<1>7. y * x < y * (c * c)
  BY <1>1, <1>3, <1>4, <1>5, <1>6
<1>8. x < c * c
  <2> DEFINE d == c * c
  <2>1. d \in Nat /\ y * x < y * d
    BY <1>1, <1>7
  <2> HIDE DEF d
  <2>2. x < d
    BY <2>1, <1>1
  <2> QED BY <2>2 DEF d
<1> QED BY <1>8 DEF c

\* A step from below the root does not go beyond it by more than one.
LEMMA OneMore ==
    ASSUME NEW a \in Nat \ {0}, NEW x \in Nat, NEW b \in Nat,
           2 * (a * b) <= a * a + x, x < (a + 1) * (a + 1)
    PROVE  b <= a + 1
<1>1. SUFFICES ASSUME b >= a + 2 PROVE FALSE
  OBVIOUS
<1>2. a * b >= a * (a + 2)
  BY <1>1
<1>3. a * (a + 2) = a * a + 2 * a /\ (a + 1) * (a + 1) = a * a + 2 * a + 1
  OBVIOUS
<1> QED BY <1>2, <1>3

\* A step from above comes nearer: the distance is squared.
LEMMA Nearer ==
    ASSUME NEW a \in Nat \ {0}, NEW x \in Nat, NEW b \in Nat, NEW p \in Nat,
           2 * (a * b) <= a * a + x, x < p * p
    PROVE  2 * (a * (b - p)) < (a - p) * (a - p)
<1>1. a * (b - p) = a * b - a * p
  OBVIOUS
<1>2. (a - p) * (a - p) = a * a - 2 * (a * p) + p * p
  OBVIOUS
<1> QED BY <1>1, <1>2

\* From less than twice the root to less than a quarter of it, and from there to
\* less than a fortieth.
LEMMA FirstDistance ==
    ASSUME NEW p \in Nat, NEW d \in Nat, NEW e \in Nat,
           d < p, 2 * ((p + d) * e) < d * d
    PROVE  4 * e < p
<1>1. SUFFICES ASSUME 4 * e >= p PROVE FALSE
  OBVIOUS
<1>2. (p + d) * (4 * e) >= (p + d) * p
  BY <1>1
<1>3. (p + d) * (4 * e) = 2 * (2 * ((p + d) * e))
  OBVIOUS
<1>4. (p + d) * p = p * p + d * p
  OBVIOUS
<1>5. p * p >= d * d /\ d * p >= d * d
  OBVIOUS
<1> QED BY <1>2, <1>3, <1>4, <1>5

LEMMA SecondDistance ==
    ASSUME NEW p \in Nat, NEW d \in Nat, NEW e \in Nat,
           4 * d < p, 2 * ((p + d) * e) < d * d
    PROVE  40 * e < p
<1>1. SUFFICES ASSUME 40 * e >= p PROVE FALSE
  OBVIOUS
<1>2. (p + d) * (40 * e) >= (p + d) * p
  BY <1>1
<1>3. (p + d) * (40 * e) = 20 * (2 * ((p + d) * e))
  OBVIOUS
<1>4. (p + d) * p = p * p + d * p
  OBVIOUS
<1>5. p * p >= 16 * (d * d) /\ d * p >= 4 * (d * d)
  OBVIOUS
<1> QED BY <1>2, <1>3, <1>4, <1>5

LEMMA LastDistance ==
    ASSUME NEW p \in Nat, NEW d \in Nat, 40 * d < p, 2 * (p + d) < d * d
    PROVE  p > 3200
<1>1. p * p >= 1600 * (d * d)
  OBVIOUS
<1>2. p * p > 3200 * p
  BY <1>1
<1> QED BY <1>2

\* The largest square of a deviation.
Most == 1000000

\* The first guess is a power of two, less than twice the root.
Guesses == { 2^i : i \in 0..15 }

Guessed(x, s) == s * s >= x /\ (s = 1 \/ (s \div 2) * (s \div 2) < x)

LEMMA GuessesAre ==
    Guesses = {1, 2, 4, 8, 16, 32, 64, 128, 256, 512, 1024, 2048, 4096, 8192, 16384, 32768}
<1>1. 0..15 = {0, 1, 2, 3, 4, 5, 6, 7, 8, 9, 10, 11, 12, 13, 14, 15}
  OBVIOUS
<1>2. /\ 2^0 = 1 /\ 2^1 = 2 /\ 2^2 = 4 /\ 2^3 = 8 /\ 2^4 = 16 /\ 2^5 = 32 /\ 2^6 = 64
      /\ 2^7 = 128 /\ 2^8 = 256 /\ 2^9 = 512 /\ 2^10 = 1024 /\ 2^11 = 2048
      /\ 2^12 = 4096 /\ 2^13 = 8192 /\ 2^14 = 16384 /\ 2^15 = 32768
  OBVIOUS
<1> QED BY <1>1, <1>2 DEF Guesses

LEMMA GuessExists ==
    ASSUME NEW x \in Nat \ {0}, x <= Most
    PROVE  \E s \in Guesses : Guessed(x, s)
<1> DEFINE In(low, top) == low < x /\ x <= top
<1>2. \/ x = 1 \/ In(1, 4) \/ In(4, 16) \/ In(16, 64) \/ In(64, 256)
      \/ In(256, 1024) \/ In(1024, 4096) \/ In(4096, 16384)
      \/ In(16384, 65536) \/ In(65536, 262144) \/ In(262144, 1048576)
  BY DEF Most
<1>3. CASE x = 1
  <2>1. Guessed(x, 1)
    BY <1>3 DEF Guessed
  <2> QED BY <2>1, GuessesAre
<1>4. ASSUME NEW s \in {2, 4, 8, 16, 32, 64, 128, 256, 512, 1024}, NEW h \in Nat,
             s = 2 * h, h * h < x, x <= s * s
      PROVE  \E g \in Guesses : Guessed(x, g)
  <2>1. Guessed(x, s)
    <3>1. s \div 2 = h
      BY <1>4
    <3> QED BY <1>4, <3>1 DEF Guessed
  <2>2. s \in Guesses
    BY GuessesAre
  <2> QED BY <2>1, <2>2
<1>5. CASE In(1, 4)
  BY <1>5, <1>4
<1>6. CASE In(4, 16)
  BY <1>6, <1>4
<1>7. CASE In(16, 64)
  BY <1>7, <1>4
<1>8. CASE In(64, 256)
  BY <1>8, <1>4
<1>9. CASE In(256, 1024)
  BY <1>9, <1>4
<1>10. CASE In(1024, 4096)
  BY <1>10, <1>4
<1>11. CASE In(4096, 16384)
  BY <1>11, <1>4
<1>12. CASE In(16384, 65536)
  BY <1>12, <1>4
<1>13. CASE In(65536, 262144)
  BY <1>13, <1>4
<1>14. CASE In(262144, 1048576)
  BY <1>14, <1>4
<1> QED BY <1>2, <1>3, <1>5, <1>6, <1>7, <1>8, <1>9, <1>10, <1>11, <1>12, <1>13, <1>14

LEMMA GuessIsNear ==
    ASSUME NEW x \in Nat \ {0}, x <= Most, NEW s \in Guesses, Guessed(x, s)
    PROVE  /\ s \in Nat \ {0} /\ s <= 1024 /\ x <= s * s
           /\ s = 1 \/ \E h \in Nat : s = 2 * h /\ h * h < x
<1>1. CASE s \in {1, 2, 4, 8, 16, 32, 64, 128, 256, 512, 1024}
  <2>1. s = 1 \/ \E h \in {1, 2, 4, 8, 16, 32, 64, 128, 256, 512} : s = 2 * h
    BY <1>1
  <2>2. ASSUME NEW h \in Nat, s = 2 * h, s # 1
        PROVE  h * h < x
    <3>1. s \div 2 = h
      BY <2>2
    <3> QED BY <3>1, <2>2 DEF Guessed
  <2> QED BY <1>1, <2>1, <2>2 DEF Guessed
<1>2. CASE s \in {2048, 4096, 8192, 16384, 32768}
  <2>1. (s \div 2) * (s \div 2) >= 1024 * 1024
    BY <1>2
  <2> QED BY <2>1, <1>2 DEF Guessed, Most
<1> QED BY <1>1, <1>2, GuessesAre

\* Three steps from such a guess come to the root, or one above.
LEMMA ThreeSteps ==
    ASSUME NEW x \in Nat \ {0}, x <= Most, NEW s \in Nat \ {0}, s <= 1024, x <= s * s,
           s = 1 \/ \E h \in Nat : s = 2 * h /\ h * h < x,
           NEW b1 \in Nat, 2 * (s * b1) <= s * s + x, s * s + x < 2 * (s * b1) + 2 * s,
           NEW b2 \in Nat, b1 # 0 =>
               2 * (b1 * b2) <= b1 * b1 + x /\ b1 * b1 + x < 2 * (b1 * b2) + 2 * b1,
           NEW r \in Nat, b2 # 0 =>
               2 * (b2 * r) <= b2 * b2 + x /\ b2 * b2 + x < 2 * (b2 * r) + 2 * b2
    PROVE  x < (r + 1) * (r + 1) /\ (r > 0 => (r - 1) * (r - 1) <= x)
<1>0. x \in Nat /\ x >= 1
  OBVIOUS
<1>1. x < (b1 + 1) * (b1 + 1) /\ b1 # 0
  <2>1. x < (b1 + 1) * (b1 + 1)
    BY <1>0, NeverBelow
  <2>2. b1 = 0 => (b1 + 1) * (b1 + 1) = 1
    OBVIOUS
  <2> QED BY <2>1, <2>2, <1>0
<1>2. x < (b2 + 1) * (b2 + 1) /\ b2 # 0
  <2>1. x < (b2 + 1) * (b2 + 1)
    BY <1>0, <1>1, NeverBelow
  <2>2. b2 = 0 => (b2 + 1) * (b2 + 1) = 1
    OBVIOUS
  <2> QED BY <2>1, <2>2, <1>0
<1>3. x < (r + 1) * (r + 1)
  BY <1>0, <1>2, NeverBelow
<1>4. SUFFICES ASSUME r > 0, x < (r - 1) * (r - 1) PROVE FALSE
  BY <1>3
<1> DEFINE p == r - 1
<1>5. p \in Nat /\ p > 0 /\ r = p + 1 /\ x < p * p
  <2>1. r # 1
    BY <1>4, <1>0
  <2> QED BY <2>1, <1>4
<1> HIDE DEF p
<1>6. b2 >= p
  BY <1>5, <1>0, <1>2, OneMore
<1>7. b1 >= p
  <2>1. SUFFICES ASSUME b1 < p PROVE FALSE
    BY <1>5
  <2>2. b2 <= b1 + 1
    BY <1>0, <1>1, OneMore
  <2>3. b2 = p
    BY <2>1, <2>2, <1>5, <1>6
  <2>4. 2 * (p * r) <= p * p + x
    BY <2>3, <1>2
  <2>5. p * r = p * p + p
    BY <1>5
  <2> QED BY <2>4, <2>5, <1>5
<1>8. s >= p
  <2>1. SUFFICES ASSUME s < p PROVE FALSE
    BY <1>5
  <2>2. s * b1 <= s * s
    OBVIOUS
  <2>3. b1 <= s
    BY <2>2
  <2> QED BY <2>3, <2>1, <1>7, <1>5
<1>9. s < 2 * p
  <2>1. ASSUME NEW h \in Nat, s = 2 * h, h * h < x PROVE h < p
    <3>1. h * h < p * p
      BY <2>1, <1>5, <1>0
    <3> QED BY <3>1, <1>5
  <2> QED BY <2>1, <1>5
<1>10. 4 * (b1 - p) < p
  <2>1. 2 * (s * (b1 - p)) < (s - p) * (s - p)
    BY <1>0, <1>5, Nearer
  <2>2. PICK d \in Nat : d = s - p
    BY <1>8, <1>5
  <2>3. PICK e \in Nat : e = b1 - p
    BY <1>7, <1>5
  <2>4. d < p /\ s = p + d
    BY <2>2, <1>9, <1>5
  <2>5. 2 * ((p + d) * e) < d * d
    BY <2>1, <2>2, <2>3, <2>4
  <2> QED BY <2>3, <2>4, <2>5, <1>5, FirstDistance
<1>11. 40 * (b2 - p) < p
  <2>1. 2 * (b1 * (b2 - p)) < (b1 - p) * (b1 - p)
    BY <1>0, <1>1, <1>5, Nearer
  <2>2. PICK d \in Nat : d = b1 - p
    BY <1>7, <1>5
  <2>3. PICK e \in Nat : e = b2 - p
    BY <1>6, <1>5
  <2>4. 4 * d < p /\ b1 = p + d
    BY <2>2, <1>10, <1>5
  <2>5. 2 * ((p + d) * e) < d * d
    BY <2>1, <2>2, <2>3, <2>4
  <2> QED BY <2>3, <2>4, <2>5, <1>5, SecondDistance
<1>12. p > 3200
  <2>1. 2 * (b2 * (r - p)) < (b2 - p) * (b2 - p)
    BY <1>0, <1>2, <1>5, Nearer
  <2>2. PICK d \in Nat : d = b2 - p
    BY <1>6, <1>5
  <2>3. b2 * (r - p) = p + d
    BY <2>2, <1>5
  <2>4. 2 * (p + d) < d * d
    BY <2>1, <2>2, <2>3
  <2>5. 40 * d < p
    BY <2>2, <1>11
  <2> QED BY <2>4, <2>5, <1>5, LastDistance
<1> QED BY <1>12, <1>8, <1>5

\* isqrt is right to one for every square of deviations of a second.
LEMMA RootsAreRight ==
    ASSUME NEW x \in Nat, x <= Most
    PROVE  Quality!RootIsRight(x)
<1>1. CASE x = 0
  <2>1. Quality!Isqrt(x) = 0
    BY <1>1 DEF Quality!Isqrt
  <2> QED BY <2>1, <1>1 DEF Quality!RootIsRight, Quality!Higher
<1>2. CASE x # 0
  <2> DEFINE s  == CHOOSE g \in Guesses : Guessed(x, g)
             NR(a) == (a * a + x) \div (2 * a)
             b1 == NR(s)
             b2 == NR(b1)
             r  == NR(b2)
  <2>1. x \in Nat \ {0}
    BY <1>2
  <2>2. s \in Guesses /\ Guessed(x, s)
    BY <2>1, GuessExists
  <2>3. Quality!Isqrt(x) = r
    BY <1>2 DEF Quality!Isqrt, Guesses, Guessed
  <2>4. /\ s \in Nat \ {0} /\ s <= 1024 /\ x <= s * s
        /\ s = 1 \/ \E h \in Nat : s = 2 * h /\ h * h < x
    BY <2>1, <2>2, GuessIsNear
  <2>5. ASSUME NEW a \in Nat \ {0}
        PROVE  /\ NR(a) \in Nat
               /\ 2 * (a * NR(a)) <= a * a + x /\ a * a + x < 2 * (a * NR(a)) + 2 * a
    BY <2>1, NewtonStep
  <2> HIDE DEF NR, s
  <2>6. b1 \in Nat /\ 2 * (s * b1) <= s * s + x /\ s * s + x < 2 * (s * b1) + 2 * s
    BY <2>4, <2>5
  <2>7. b1 # 0
    <3>1. x < (b1 + 1) * (b1 + 1)
      BY <2>6, <2>4, <2>1, NeverBelow
    <3> QED BY <3>1, <2>1, <2>6
  <2>8. b2 \in Nat /\ 2 * (b1 * b2) <= b1 * b1 + x /\ b1 * b1 + x < 2 * (b1 * b2) + 2 * b1
    BY <2>5, <2>6, <2>7
  <2>9. b2 # 0
    <3>1. x < (b2 + 1) * (b2 + 1)
      BY <2>6, <2>7, <2>8, <2>1, NeverBelow
    <3> QED BY <3>1, <2>1, <2>8
  <2>10. r \in Nat /\ 2 * (b2 * r) <= b2 * b2 + x /\ b2 * b2 + x < 2 * (b2 * r) + 2 * b2
    BY <2>5, <2>8, <2>9
  <2> HIDE DEF b1, b2, r
  <2>11. x < (r + 1) * (r + 1) /\ (r > 0 => (r - 1) * (r - 1) <= x)
    BY <2>1, <2>4, <2>6, <2>8, <2>10, ThreeSteps, Zenon
  <2> QED BY <2>1, <2>3, <2>10, <2>11 DEF Quality!RootIsRight, Quality!Higher
<1> QED BY <1>1, <1>2

-----------------------------------------------------------------------------
(* Sums of numbers and of their squares. *)

\* Sums of k numbers between -1000 and 1000, and of their squares.
SumsOf(k, sumSq, tot) ==
    /\ tot >= -(1000 * k) /\ tot <= 1000 * k
    /\ sumSq >= 0 /\ sumSq <= Most * k
    /\ k * sumSq >= tot * tot

LEMMA SquareOf ==
    ASSUME NEW l \in Int, l >= -1000, l <= 1000
    PROVE  l * l \in Nat /\ l * l <= Most
BY SMT DEF Most

\* One more number.
LEMMA OneMoreNumber ==
    ASSUME NEW k \in Nat, NEW sumSq \in Int, NEW tot \in Int, SumsOf(k, sumSq, tot),
           NEW l \in Int, l >= -1000, l <= 1000
    PROVE  SumsOf(k + 1, sumSq + l * l, tot + l)
<1> DEFINE q == l * l
           S == k * sumSq
           T == tot * tot
           M == tot * l
<1>1. q \in Nat /\ q <= Most
  BY SquareOf
<1>2. S \in Int /\ T \in Int /\ M \in Int /\ S >= T /\ sumSq >= 0
  BY DEF SumsOf
<1>3. (k + 1) * (sumSq + q) = S + k * q + sumSq + q
  BY <1>1
<1>4. (tot + l) * (tot + l) = T + 2 * M + q
  OBVIOUS
<1>5. sumSq + k * q - 2 * M >= 0
  <2>1. CASE k = 0
    <3>1. tot = 0
      BY <2>1 DEF SumsOf
    <3>2. M = 0 /\ k * q = 0
      BY <3>1, <2>1, <1>1
    <3> QED BY <3>2, <1>2
  <2>2. CASE k > 0
    <3> DEFINE z == sumSq + k * q - 2 * M
    <3>1. k * z = S + k * (k * q) - 2 * (k * M)
      BY <1>1, <1>2
    <3>2. (k * l - tot) * (k * l - tot) = k * (k * q) - 2 * (k * M) + T
      OBVIOUS
    <3>3. (k * l - tot) * (k * l - tot) >= 0
      OBVIOUS
    <3>4. k * z >= 0
      <4>1. k * (k * q) \in Int /\ k * M \in Int
        BY <1>1, <1>2
      <4> QED BY <3>1, <3>2, <3>3, <1>2, <4>1
    <3>5. z \in Int
      BY <1>1, <1>2
    <3> HIDE DEF z
    <3>6. z >= 0
      BY <3>4, <3>5, <2>2
    <3> QED BY <3>6 DEF z
  <2> QED BY <2>1, <2>2
<1>6. (k + 1) * (sumSq + q) >= (tot + l) * (tot + l)
  <2>1. k * q \in Int
    BY <1>1
  <2> HIDE DEF q, S, T, M
  <2> QED BY <1>1, <1>2, <1>3, <1>4, <1>5, <2>1
<1>7. /\ tot + l >= -(1000 * (k + 1)) /\ tot + l <= 1000 * (k + 1)
      /\ sumSq + q >= 0 /\ sumSq + q <= Most * (k + 1)
  <2>1. Most \in Nat /\ Most * (k + 1) = Most * k + Most /\ Most * k \in Nat
    BY SMT DEF Most
  <2> HIDE DEF q
  <2> QED BY <1>1, <2>1 DEF SumsOf
<1> QED BY <1>6, <1>7 DEF SumsOf

\* The deviation of such numbers has a root, and their average is one of them.
LEMMA VarianceOf ==
    ASSUME NEW n \in Nat, n > 1, NEW sumSq \in Int, NEW tot \in Int, SumsOf(n - 1, sumSq, tot)
    PROVE  Quality!RootIsRight(Quality!Variance(n, sumSq, tot))
<1> DEFINE T == tot * tot
           q == T \div n
           d == sumSq - q
           v == d \div (n - 1)
<1>1. T \in Nat
  OBVIOUS
<1>2. (n - 1) * sumSq >= T /\ sumSq \in Nat /\ sumSq <= Most * (n - 1)
  BY DEF SumsOf
<1>3. q \in Nat /\ n * q <= T
  <2> HIDE DEF T
  <2> QED BY <1>1
<1>4. q <= sumSq
  <2>1. n * sumSq = (n - 1) * sumSq + sumSq
    BY <1>2
  <2>2. n * q <= n * sumSq
    <3> HIDE DEF T, q
    <3> QED BY <1>1, <1>2, <1>3, <2>1
  <2> HIDE DEF q
  <2> QED BY <2>2, <1>2, <1>3
<1>5. d \in Nat /\ d <= Most * (n - 1)
  <2>1. Most * (n - 1) \in Nat
    BY SMT DEF Most
  <2> HIDE DEF q
  <2> QED BY <1>2, <1>3, <1>4, <2>1
<1>6. v \in Nat /\ v <= Most
  <2> DEFINE m == n - 1
  <2>1. m \in Nat /\ m > 0
    OBVIOUS
  <2>2. Most \in Nat
    BY SMT DEF Most
  <2> HIDE DEF d, m
  <2>3. d \div m \in Nat /\ m * (d \div m) <= d
    BY <1>5, <2>1
  <2>4. d <= Most * m
    BY <1>5 DEF m
  <2>5. m * (d \div m) <= m * Most
    BY <2>1, <2>2, <2>3, <2>4, <1>5
  <2>6. d \div m <= Most
    <3> DEFINE w == d \div m
    <3>1. w \in Nat /\ m * w <= m * Most
      BY <2>3, <2>5
    <3> HIDE DEF w
    <3>2. w <= Most
      BY <3>1, <2>1, <2>2
    <3> QED BY <3>2 DEF w
  <2> QED BY <2>3, <2>6 DEF m
<1>7. Quality!Variance(n, sumSq, tot) = v
  BY DEF Quality!Variance
<1> HIDE DEF v
<1> QED BY <1>6, <1>7, RootsAreRight

LEMMA AverageOf ==
    ASSUME NEW k \in Nat, k > 0, NEW tot \in Int, tot >= -(1000 * k), tot <= 1000 * k
    PROVE  /\ Quality!Quotient(tot, k) \in Int
           /\ Quality!Quotient(tot, k) >= -1000 /\ Quality!Quotient(tot, k) <= 1000
<1>1. ASSUME NEW a \in Nat, a <= 1000 * k
      PROVE  a \div k \in Nat /\ a \div k <= 1000
  <2>1. a \div k \in Nat /\ k * (a \div k) <= a
    OBVIOUS
  <2> DEFINE w == a \div k
  <2>2. w \in Nat /\ k * w <= 1000 * k
    BY <2>1, <1>1
  <2> HIDE DEF w
  <2>3. w <= 1000
    BY <2>2
  <2> QED BY <2>1, <2>3 DEF w
<1>2. CASE tot >= 0
  BY <1>1, <1>2 DEF Quality!Quotient
<1>3. CASE tot < 0
  <2>1. -tot \in Nat /\ -tot <= 1000 * k
    BY <1>3
  <2>2. (-tot) \div k \in Nat /\ (-tot) \div k <= 1000
    BY <1>1, <2>1
  <2> QED BY <2>2, <1>3 DEF Quality!Quotient
<1> QED BY <1>2, <1>3

-----------------------------------------------------------------------------
(* Which frames a video renderer shows. *)

\* How early a frame may be drawn.
Width == Quality!Higher(Quality!GROSS, Duration)

QualityNumbers ==
    /\ m_trRenderAvg \in Nat /\ m_trRenderLast \in Nat
    /\ m_trFrameAvg \in Int /\ m_trDuration \in {0, Duration} /\ m_trWaitAvg \in Int
    /\ m_trEarliness \in Int /\ m_trEarliness <= 0 /\ m_trLastDraw \in Int /\ m_nNormal \in Int
    /\ m_trLate \in Int /\ m_trFrame \in Int /\ drawAt \in Int
    /\ frame \in Nat /\ arrival \in Nat /\ lastShown \in Nat
    /\ m_cFramesDropped \in Nat

\* Every frame is drawn, dropped or about to be drawn.
FramesCounted ==
    /\ m_cFramesDrawn \in Nat
    /\ m_cFramesDrawn + m_cFramesDropped + (IF drawAt = Quality!None THEN 0 ELSE 1) = frame

\* The sums leave out one frame, or two.
SumsInv ==
    /\ m_iTotAcc \in Int /\ m_iSumSqAcc \in Int
    /\ m_iSumFrameTime \in Int /\ m_iSumSqFrameTime \in Int
    /\ SumsOf(Quality!Higher(0, m_cFramesDrawn - 2), m_iSumSqAcc, m_iTotAcc)
    /\ SumsOf(Quality!Higher(0, m_cFramesDrawn - 3), m_iSumSqFrameTime, m_iSumFrameTime)

\* When the frame that is scheduled is drawn.
DrawnInTime ==
    LET due == Quality!Biased((frame - 1) * Duration) IN
    /\ drawAt >= arrival /\ drawAt >= due - Width
    /\ drawAt > arrival => drawAt >= due - Duration /\ drawAt <= due
    /\ proportion > 1000 => drawAt <= due

\* m_trLastDraw is when the last frame was shown, or the scheduled one will be.
DrawInv ==
    /\ lastShown <= arrival
    /\ IF drawAt = Quality!None THEN m_trLastDraw <= lastShown
       ELSE m_trLastDraw = drawAt /\ DrawnInTime
    /\ proportion \in 500..2000

\* The averages stay within what they are averages of.
AveragesInv ==
    /\ slowest \in Nat /\ m_trRenderAvg <= slowest
    /\ shortest \in Nat /\ shortest <= Duration
    /\ m_trDuration = 0 \/ shortest <= m_trFrameAvg

QualityInv == QualityNumbers /\ FramesCounted /\ SumsInv /\ DrawInv /\ AveragesInv

\* The assumption of VideoQuality in this module's words.
LEMMA QualityConstants ==
    /\ Duration \in Nat /\ Duration > 0
    /\ \A took \in Renders : took \in Nat
    /\ \A d \in Quality!Delays : d \in Int
<1> USE RenderingAssumption DEF Quality!VideoQualityAssumption
<1>1. \A d \in Quality!Delays : d \in Int
  BY DEF Quality!Delays
<1> QED BY <1>1

\* The numbers of the code that matter by their order only.
LEMMA NumbersOfCode ==
    /\ Quality!UNITS \in Nat /\ Quality!None \in Int /\ Quality!None < 0
    /\ Quality!GROSS \in Nat
    /\ Width \in Nat /\ Width >= Quality!GROSS /\ Width >= Duration
<1>1. Quality!UNITS \in Nat /\ Quality!None \in Int /\ Quality!None < 0
  BY SMT DEF Quality!UNITS, Quality!None
<1>2. Quality!GROSS \in Nat
  BY SMT DEF Quality!GROSS
<1> QED BY <1>1, <1>2, QualityConstants DEF Width, Quality!Higher

LEMMA QuotientOf ==
    ASSUME NEW a \in Int, NEW b \in Nat, b > 0
    PROVE  /\ Quality!Quotient(a, b) \in Int
           /\ a >= 0 => Quality!Quotient(a, b) >= 0 /\ b * Quality!Quotient(a, b) <= a
           /\ a <= 0 => Quality!Quotient(a, b) <= 0 /\ Quality!Quotient(a, b) >= a
<1>1. ASSUME NEW n \in Nat
      PROVE  n \div b \in Nat /\ b * (n \div b) <= n /\ n \div b <= n
  <2>1. n \div b \in Nat /\ b * (n \div b) <= n
    BY <1>1
  <2> DEFINE w == n \div b
  <2>2. w \in Nat /\ b * w <= n
    BY <2>1
  <2> HIDE DEF w
  <2>3. b * w >= w
    BY <2>2
  <2>4. w <= n
    BY <2>2, <2>3, <1>1
  <2> QED BY <2>1, <2>4 DEF w
<1>2. CASE a >= 0
  <2>1. a \in Nat
    BY <1>2
  <2>2. a = 0 => a \div b = 0
    BY <2>1, <1>1
  <2> QED BY <1>1, <1>2, <2>1, <2>2 DEF Quality!Quotient
<1>3. CASE a < 0
  <2>1. -a \in Nat
    BY <1>3
  <2>2. (-a) \div b \in Nat /\ (-a) \div b <= -a
    BY <2>1, <1>1
  <2> QED BY <2>2, <1>3 DEF Quality!Quotient
<1> QED BY <1>2, <1>3

LEMMA AverageIs ==
    ASSUME NEW new \in Int, NEW avg \in Int
    PROVE  /\ Quality!MovingAverage(new, avg) \in Int
           /\ new >= 0 /\ avg >= 0 => /\ Quality!MovingAverage(new, avg) \in Nat
                                      /\ 4 * Quality!MovingAverage(new, avg) <= new + 3 * avg
                                      /\ new + 3 * avg < 4 * Quality!MovingAverage(new, avg) + 4
<1>1. Quality!MovingAverage(new, avg) = Quality!Quotient(new + avg * 3, 4)
  BY DEF Quality!MovingAverage, Quality!AVGPERIOD
<1> DEFINE a == new + avg * 3
<1>2. a \in Int /\ a = new + 3 * avg
  OBVIOUS
<1> HIDE DEF a
<1>3. /\ Quality!Quotient(a, 4) \in Int
      /\ a >= 0 => Quality!Quotient(a, 4) >= 0 /\ 4 * Quality!Quotient(a, 4) <= a
  BY <1>2, QuotientOf
<1>6. a >= 0 => a < 4 * Quality!Quotient(a, 4) + 4
  BY <1>2 DEF Quality!Quotient
<1> DEFINE q == Quality!Quotient(a, 4)
<1>4. q \in Int /\ (a >= 0 => q >= 0 /\ 4 * q <= a /\ a < 4 * q + 4)
  BY <1>3, <1>6
<1>5. Quality!MovingAverage(new, avg) = q
  BY <1>1 DEF a
<1> HIDE DEF q
<1> QED BY <1>2, <1>4, <1>5

\* A frame is drawn early at most by as much as it came early.
LEMMA EarlinessOf ==
    ASSUME m_trEarliness \in Int, m_trEarliness <= 0, NEW late \in Int, NEW dropped
    PROVE  LET e == Quality!Earliness(late, dropped) IN
           e \in Int /\ e <= 0 /\ (late <= 0 => e >= late)
<1> DEFINE q == Quality!Quotient(m_trEarliness, 8)
<1>1. q \in Int /\ q <= 0 /\ q >= m_trEarliness
  BY QuotientOf
<1>2. Quality!Earliness(late, dropped) =
          IF late > 0 THEN 0 ELSE IF late >= m_trEarliness \/ dropped THEN late
          ELSE m_trEarliness - q
  BY DEF Quality!Earliness
<1> HIDE DEF q
<1> QED BY <1>1, <1>2

LEMMA EarlyByIs ==
    ASSUME m_trEarliness \in Int, m_trEarliness <= 0, NEW late \in Int, NEW dropped,
           NEW length \in Nat
    PROVE  LET e == Quality!EarlyBy(late, length, dropped) IN
           e \in Int /\ e <= 0 /\ e >= -length /\ (late <= 0 => e >= late)
<1> DEFINE e == Quality!Earliness(late, dropped)
<1>1. e \in Int /\ e <= 0 /\ (late <= 0 => e >= late)
  BY EarlinessOf
<1>2. Quality!EarlyBy(late, length, dropped) = IF e > -length THEN e ELSE -length
  BY DEF Quality!EarlyBy, Quality!Higher
<1> HIDE DEF e
<1> QED BY <1>1, <1>2

\* The supplier is told a factor of two at most, and more only when it is early.
LEMMA ProportionOf ==
    ASSUME QualityNumbers, NEW late \in Int
    PROVE  /\ Quality!Proportion(late) \in 500..2000
           /\ Quality!Proportion(late) > 1000 => late < 0
<1> USE DEF QualityNumbers
<1>1. CASE m_trFrameAvg < 0
  BY <1>1 DEF Quality!Proportion
<1>2. CASE m_trFrameAvg >= 0 /\ late > 0
  <2>1. late \div 10000 \in Nat
    BY <1>2
  <2> DEFINE w == late \div 10000
  <2>2. Quality!Proportion(late) = IF 500 > 1000 - w THEN 500 ELSE 1000 - w
    BY <1>2 DEF Quality!Proportion, Quality!Higher, Quality!MILLI
  <2>3. w \in Nat
    BY <2>1
  <2> HIDE DEF w
  <2> QED BY <1>2, <2>2, <2>3
<1>3. CASE m_trFrameAvg >= 0 /\ late <= 0 /\ ~(m_trWaitAvg > 20000 /\ late < -20000)
  BY <1>3 DEF Quality!Proportion
<1>4. CASE m_trFrameAvg >= 0 /\ late <= 0 /\ m_trWaitAvg > 20000 /\ late < -20000
  <2>1. CASE m_trWaitAvg >= m_trFrameAvg
    BY <1>4, <2>1 DEF Quality!Proportion
  <2>2. CASE m_trWaitAvg < m_trFrameAvg
    <3> DEFINE den == m_trFrameAvg + 20000 - m_trWaitAvg
               w == m_trFrameAvg \div den
    <3>1. den \in Nat /\ den > 0 /\ den <= m_trFrameAvg
      BY <1>4, <2>2
    <3> HIDE DEF den
    <3>2. w \in Nat /\ w >= 1
      BY <1>4, <3>1
    <3>3. Quality!Proportion(late) = IF 2000 < 1000 * w THEN 2000 ELSE 1000 * w
      BY <1>4, <2>2 DEF Quality!Proportion, Quality!Lower, den
    <3> HIDE DEF w
    <3> QED BY <1>4, <3>2, <3>3
  <2> QED BY <1>4, <2>1, <2>2
<1> QED BY <1>1, <1>2, <1>3, <1>4

LEMMA QualityInit == RenderingInit => QualityInv
<1> SUFFICES ASSUME RenderingInit PROVE QualityInv
  OBVIOUS
<1>1. Quality!Init
  BY DEF RenderingInit
<1>2. PICK d \in Quality!Delays : arrival = Quality!Higher(0, d)
  BY <1>1 DEF Quality!Init
<1>3. arrival \in Nat
  BY <1>2, QualityConstants DEF Quality!Higher
<1>4. QualityNumbers
  BY <1>1, <1>3, NumbersOfCode DEF Quality!Init, QualityNumbers
<1>5. FramesCounted
  BY <1>1 DEF Quality!Init, FramesCounted
<1>6. SumsInv
  <2>1. Most \in Nat
    BY SMT DEF Most
  <2>2. SumsOf(0, 0, 0)
    BY <2>1 DEF SumsOf
  <2>3. Quality!Higher(0, 0 - 2) = 0 /\ Quality!Higher(0, 0 - 3) = 0
    BY DEF Quality!Higher
  <2>4. m_cFramesDrawn = 0 /\ m_iTotAcc = 0 /\ m_iSumSqAcc = 0 /\ m_iSumFrameTime = 0
        /\ m_iSumSqFrameTime = 0
    BY <1>1 DEF Quality!Init
  <2> QED BY <2>2, <2>3, <2>4 DEF SumsInv
<1>7. DrawInv
  BY <1>1, <1>3 DEF Quality!Init, DrawInv
<1>8. AveragesInv
  BY <1>1, QualityConstants DEF Quality!Init, AveragesInv
<1> QED BY <1>4, <1>5, <1>6, <1>7, <1>8 DEF QualityInv

\* The next frame comes when the renderer is free, and not before the last one.
LEMMA NextFrame ==
    ASSUME NEW after \in Nat, frame' \in Nat, Quality!NextComes(after)
    PROVE  arrival' \in Nat /\ arrival' >= after
<1>1. PICK d \in Quality!Delays : arrival' = Quality!Higher(after, frame' * Duration + d)
  BY DEF Quality!NextComes
<1>2. PICK n \in Int : n = frame' * Duration + d
  BY QualityConstants
<1>3. arrival' = Quality!Higher(after, n)
  BY <1>1, <1>2
<1> QED BY <1>3 DEF Quality!Higher

\* The decision about a frame that starts at the given time and comes now.
Decides(begins, handles, discontinuity) ==
    /\ begins = frame * Duration
    /\ Quality!ShouldDrawSampleNow(begins, Duration, handles, discontinuity)

\* How late it is, from its time with the bias.
LEMMA BiasedIs ==
    ASSUME NEW begins \in Nat
    PROVE  Quality!Biased(begins) \in Nat /\ Quality!Biased(begins) <= begins
BY DEF Quality!Biased

\* What the decision leaves alone.
LEMMA DecisionFrame ==
    ASSUME NEW begins, NEW handles, NEW discontinuity, Decides(begins, handles, discontinuity)
    PROVE  /\ drawAt = Quality!None /\ frame' = frame + 1
           /\ proportion' = Quality!Proportion(arrival - Quality!Biased(begins))
           /\ m_trDuration' \in {Duration, m_trDuration}
           /\ Quality!RateChanged(Duration) => m_trDuration' = Duration
           /\ m_bSupplierHandlingQuality' = handles
           /\ UNCHANGED << m_trRenderAvg, m_trRenderLast, m_cFramesDrawn,
                           m_iTotAcc, m_iSumSqAcc, m_iSumSqFrameTime, m_iSumFrameTime,
                           lastShown, slowest >>
<1>1. Quality!ShouldDrawSampleNow(begins, Duration, handles, discontinuity)
  BY DEF Decides
<1> QED BY <1>1 DEF Quality!ShouldDrawSampleNow, Quality!statistics

\* Of a frame that is drawn: when, and what is remembered of it.
DrawnAt(begins, time) ==
    /\ drawAt' = time /\ m_trLastDraw' = time /\ time >= arrival
    /\ time >= Quality!Biased(begins) - Width
    /\ time > arrival => time >= Quality!Biased(begins) - Duration /\ time <= Quality!Biased(begins)
    /\ arrival < Quality!Biased(begins) => time <= Quality!Biased(begins)
    /\ UNCHANGED << m_cFramesDropped, arrival >>

NewAverages ==
    /\ m_trFrameAvg' \in Int /\ m_trWaitAvg' \in Int
    /\ m_trEarliness' \in Int /\ m_trEarliness' <= 0
    /\ m_nNormal' \in Int /\ m_trLate' \in Int /\ m_trFrame' \in Int

LEMMA FrameAvgIs ==
    ASSUME QualityNumbers
    PROVE  Quality!FrameAvg(Duration) \in Int
BY QualityConstants DEF Quality!FrameAvg, QualityNumbers

LEMMA DrawNowDraws ==
    ASSUME QualityNumbers, DrawInv, NEW begins \in Nat, NEW dropped,
           Quality!DrawNow(arrival - Quality!Biased(begins), Duration, dropped)
    PROVE  DrawnAt(begins, arrival) /\ NewAverages
<1> DEFINE due == Quality!Biased(begins)
           late == arrival - due
           since == Quality!Lower(Quality!SinceLastDraw, Quality!UNITS)
<1>1. arrival \in Nat /\ due \in Nat /\ late \in Int
  BY BiasedIs DEF QualityNumbers
<1>2. /\ Quality!PlayASAP(late, Duration, dropped)
      /\ m_trFrameAvg' = Quality!MovingAverage(since, Quality!FrameAvg(Duration))
      /\ m_trLate' = late /\ m_trFrame' = since
      /\ m_nNormal' = 0
      /\ m_trWaitAvg' = Quality!MovingAverage(0, m_trWaitAvg)
      /\ m_trEarliness' = Quality!Lower(Quality!Earliness(late, dropped), late)
      /\ m_trLastDraw' = arrival /\ drawAt' = arrival
      /\ UNCHANGED << m_cFramesDropped, arrival >>
  BY DEF Quality!DrawNow
<1>3. late >= -Quality!GROSS
  BY <1>2 DEF Quality!PlayASAP
<1>4. since \in Int
  BY NumbersOfCode DEF Quality!Lower, Quality!SinceLastDraw, QualityNumbers
<1> HIDE DEF since
<1>5. m_trFrameAvg' \in Int /\ m_trWaitAvg' \in Int
  <2>1. m_trWaitAvg \in Int /\ Quality!FrameAvg(Duration) \in Int
    BY FrameAvgIs DEF QualityNumbers
  <2> QED BY <1>2, <1>4, <2>1, AverageIs
<1>6. m_trEarliness' \in Int /\ m_trEarliness' <= 0
  <2> DEFINE e == Quality!Earliness(late, dropped)
  <2>1. e \in Int /\ e <= 0
    BY <1>1, EarlinessOf DEF QualityNumbers
  <2>2. m_trEarliness' = IF e < late THEN e ELSE late
    BY <1>2 DEF Quality!Lower
  <2> HIDE DEF e
  <2> QED BY <2>1, <2>2, <1>1
<1>7. NewAverages
  BY <1>1, <1>2, <1>4, <1>5, <1>6 DEF NewAverages
<1>8. DrawnAt(begins, arrival)
  BY <1>1, <1>2, <1>3, NumbersOfCode DEF DrawnAt
<1> QED BY <1>7, <1>8

LEMMA WhenDueIs ==
    ASSUME NEW begins, NEW late, NEW dropped, Quality!DrawWhenDue(begins, late, Duration, dropped)
    PROVE  /\ late < 0 =>
                /\ m_trLastDraw' = Quality!Biased(begins) + Quality!EarlyBy(late, Duration, dropped)
                /\ drawAt' = m_trLastDraw'
                /\ m_trFrame' = m_trLastDraw' - m_trLastDraw
                /\ m_trLate' = m_trLastDraw' - Quality!Biased(begins)
           /\ ~(late < 0) =>
                /\ m_trFrame' = Quality!Lower(Quality!SinceLastDraw, Quality!UNITS)
                /\ m_trLate' = late
                /\ m_trLastDraw' = arrival /\ drawAt' = arrival
BY Zenon DEF Quality!DrawWhenDue

LEMMA WhenDueDraws ==
    ASSUME QualityNumbers, DrawInv, NEW begins \in Nat, NEW dropped,
           Quality!DrawWhenDue(begins, arrival - Quality!Biased(begins), Duration, dropped)
    PROVE  /\ \E time \in Int : DrawnAt(begins, time)
           /\ NewAverages /\ m_trFrameAvg' = Duration /\ m_nNormal' = m_nNormal + 1
<1> DEFINE due == Quality!Biased(begins)
           late == arrival - due
           e == Quality!EarlyBy(late, Duration, dropped)
<1>1. arrival \in Nat /\ due \in Nat /\ late \in Int /\ Duration \in Nat
  BY BiasedIs, QualityConstants DEF QualityNumbers
<1>2. e \in Int /\ e <= 0 /\ e >= -Duration /\ (late <= 0 => e >= late)
  BY <1>1, EarlyByIs DEF QualityNumbers
<1>3. /\ m_nNormal' = m_nNormal + 1
      /\ m_trFrameAvg' = Duration
      /\ m_trEarliness' = Quality!Earliness(late, dropped)
      /\ m_trWaitAvg' = Quality!WaitAverage(late)
      /\ UNCHANGED << m_cFramesDropped, arrival >>
  BY DEF Quality!DrawWhenDue
<1>12. late < 0 => /\ m_trLastDraw' = due + e
                   /\ drawAt' = m_trLastDraw'
                   /\ m_trFrame' = m_trLastDraw' - m_trLastDraw
                   /\ m_trLate' = m_trLastDraw' - due
  BY WhenDueIs, Zenon
<1>13. ~(late < 0) => /\ m_trFrame' = Quality!Lower(Quality!SinceLastDraw, Quality!UNITS)
                      /\ m_trLate' = late
                      /\ m_trLastDraw' = arrival /\ drawAt' = arrival
  BY WhenDueIs, Zenon
<1>4. Quality!Lower(Quality!SinceLastDraw, Quality!UNITS) \in Int
  BY NumbersOfCode DEF Quality!Lower, Quality!SinceLastDraw, QualityNumbers
<1>5. m_trWaitAvg' \in Int
  <2> DEFINE w == IF late < 0 THEN -late ELSE 0
  <2>1. w \in Int /\ m_trWaitAvg \in Int
    BY <1>1 DEF QualityNumbers
  <2>2. m_trWaitAvg' = Quality!MovingAverage(w, m_trWaitAvg)
    BY <1>3 DEF Quality!WaitAverage
  <2> HIDE DEF w
  <2> QED BY <2>1, <2>2, AverageIs
<1>6. m_trEarliness' \in Int /\ m_trEarliness' <= 0
  BY <1>1, <1>3, EarlinessOf DEF QualityNumbers
<1>7. m_trFrame' \in Int /\ m_trLate' \in Int
  <2>1. m_trLastDraw \in Int
    BY DEF QualityNumbers
  <2>2. due + e \in Int
    BY <1>1, <1>2
  <2>3. CASE late < 0
    <3> DEFINE time == due + e
    <3>1. m_trFrame' = time - m_trLastDraw /\ m_trLate' = time - due
      BY <1>12, <2>3
    <3> HIDE DEF time, due
    <3> QED BY <3>1, <2>1, <2>2, <1>1 DEF time
  <2>4. CASE ~(late < 0)
    BY <2>4, <1>1, <1>4, <1>13
  <2> QED BY <2>3, <2>4
<1>8. NewAverages
  BY <1>1, <1>3, <1>5, <1>6, <1>7 DEF NewAverages, QualityNumbers
<1>10. CASE late < 0
  <2>1. DrawnAt(begins, due + e)
    <3> DEFINE time == due + e
    <3>1. drawAt' = time /\ m_trLastDraw' = time /\ UNCHANGED << m_cFramesDropped, arrival >>
      BY <1>3, <1>12, <1>10
    <3>2. Width \in Nat /\ Width >= Duration
      BY NumbersOfCode
    <3> HIDE DEF e, due
    <3>3. time >= arrival /\ time >= due - Width /\ time >= due - Duration /\ time <= due
      BY <1>1, <1>2, <1>10, <3>2
    <3> HIDE DEF time
    <3>4. DrawnAt(begins, time)
      BY <3>1, <3>3 DEF DrawnAt, due
    <3> QED BY <3>4 DEF time
  <2> QED BY <2>1, <1>1, <1>2, <1>3, <1>8
<1>11. CASE late >= 0
  <2>1. DrawnAt(begins, arrival)
    <3>1. drawAt' = arrival /\ m_trLastDraw' = arrival /\ UNCHANGED << m_cFramesDropped, arrival >>
      BY <1>1, <1>3, <1>13, <1>11
    <3>2. Width \in Nat
      BY NumbersOfCode
    <3> HIDE DEF due
    <3>3. arrival >= due - Width /\ ~(arrival > arrival) /\ ~(arrival < due) /\ arrival >= arrival
      BY <1>1, <1>11, <3>2
    <3> QED BY <3>1, <3>3 DEF DrawnAt, due
  <2> QED BY <2>1, <1>1, <1>3, <1>8
<1> QED BY <1>1, <1>10, <1>11

LEMMA DropDrops ==
    ASSUME QualityNumbers, frame' \in Nat, NEW begins \in Nat, NEW dropped,
           Quality!Drop(arrival - Quality!Biased(begins), Duration, dropped)
    PROVE  /\ NewAverages /\ arrival' \in Nat /\ arrival' >= arrival
           /\ m_cFramesDropped' = m_cFramesDropped + 1
           /\ UNCHANGED << drawAt, m_trLastDraw >>
<1> DEFINE late == arrival - Quality!Biased(begins)
<1>1. arrival \in Nat /\ late \in Int
  BY BiasedIs DEF QualityNumbers
<1>2. /\ m_trWaitAvg' = Quality!WaitAverage(late) /\ m_trFrameAvg' = Quality!FrameAvg(Duration)
      /\ m_trEarliness' = Quality!Earliness(late, dropped)
      /\ m_nNormal' = -1
      /\ m_cFramesDropped' = m_cFramesDropped + 1
      /\ Quality!NextComes(arrival)
      /\ UNCHANGED << m_trLastDraw, m_trLate, m_trFrame, drawAt >>
  BY DEF Quality!Drop, Quality!scheduled
<1>3. m_trWaitAvg' \in Int
  <2> DEFINE w == IF late < 0 THEN -late ELSE 0
  <2>1. w \in Int /\ m_trWaitAvg \in Int
    BY <1>1 DEF QualityNumbers
  <2>2. m_trWaitAvg' = Quality!MovingAverage(w, m_trWaitAvg)
    BY <1>2 DEF Quality!WaitAverage
  <2> HIDE DEF w
  <2> QED BY <2>1, <2>2, AverageIs
<1>4. m_trEarliness' \in Int /\ m_trEarliness' <= 0
  BY <1>1, <1>2, EarlinessOf DEF QualityNumbers
<1>5. NewAverages
  BY <1>2, <1>3, <1>4, FrameAvgIs DEF NewAverages, QualityNumbers
<1>6. arrival' \in Nat /\ arrival' >= arrival
  BY <1>1, <1>2, NextFrame
<1> QED BY <1>2, <1>5, <1>6

\* What is decided about it.
Outcome(begins, handles, dropped) ==
    LET late == arrival - Quality!Biased(begins) IN
    IF Quality!MustDraw(late, Duration, handles)
    THEN Quality!DrawNow(late, Duration, dropped)
         \/ Quality!DrawWhenDue(begins, late, Duration, dropped)
    ELSE Quality!Drop(late, Duration, dropped)

LEMMA OutcomeIs ==
    ASSUME NEW begins, NEW handles, NEW dropped, Outcome(begins, handles, dropped)
    PROVE  \/ Quality!DrawNow(arrival - Quality!Biased(begins), Duration, dropped)
           \/ Quality!DrawWhenDue(begins, arrival - Quality!Biased(begins), Duration, dropped)
           \/ /\ Quality!Drop(arrival - Quality!Biased(begins), Duration, dropped)
              /\ ~Quality!MustDraw(arrival - Quality!Biased(begins), Duration, handles)
BY Zenon DEF Outcome

\* A decision, in the words of the lemmas above.
LEMMA DecisionIs ==
    ASSUME QualityNumbers, DrawInv, NEW handles, NEW discontinuity,
           Quality!ShouldDrawSampleNow(frame * Duration, Duration, handles, discontinuity)
    PROVE  \E begins \in Nat, dropped \in BOOLEAN :
              /\ begins = frame * Duration
              /\ Decides(begins, handles, discontinuity)
              /\ dropped = Quality!JustDropped(handles, discontinuity)
              /\ Outcome(begins, handles, dropped)
<1> DEFINE begins   == frame * Duration
           dropped == Quality!JustDropped(handles, discontinuity)
<1>1. begins \in Nat
  BY QualityConstants DEF QualityNumbers
<1>2. dropped \in BOOLEAN
  BY Zenon DEF Quality!JustDropped
<1>3. Decides(begins, handles, discontinuity)
  BY Zenon DEF Decides
<1>4. Outcome(begins, handles, dropped)
  BY Zenon DEF Quality!ShouldDrawSampleNow, Outcome
<1> HIDE DEF begins, dropped
<1>5. begins = frame * Duration /\ dropped = Quality!JustDropped(handles, discontinuity)
  BY Zenon DEF begins, dropped
<1> QED BY <1>1, <1>2, <1>3, <1>4, <1>5, Zenon

\* Every frame that is decided about is drawn, and then in time, or dropped.
LEMMA DecisionKeeps ==
    ASSUME QualityNumbers, DrawInv, FramesCounted,
           NEW begins \in Nat, begins = frame * Duration,
           NEW handles, NEW discontinuity, Decides(begins, handles, discontinuity),
           NEW dropped \in BOOLEAN, Outcome(begins, handles, dropped)
    PROVE  QualityNumbers' /\ DrawInv' /\ FramesCounted'
<1> DEFINE due == Quality!Biased(begins)
<1>1. /\ drawAt = Quality!None /\ frame' = frame + 1 /\ frame' \in Nat
      /\ proportion' = Quality!Proportion(arrival - due)
      /\ m_trDuration' \in {Duration, m_trDuration}
      /\ m_trRenderAvg' = m_trRenderAvg /\ m_trRenderLast' = m_trRenderLast
      /\ lastShown' = lastShown /\ m_cFramesDrawn' = m_cFramesDrawn
  BY DecisionFrame DEF QualityNumbers
<1>2. arrival \in Nat /\ due \in Nat /\ arrival - due \in Int
  BY BiasedIs DEF QualityNumbers
<1>3. proportion' \in 500..2000 /\ (proportion' > 1000 => arrival < due)
  <2>1. PICK late \in Int : late = arrival - due
    BY <1>2
  <2>2. Quality!Proportion(late) \in 500..2000 /\ (Quality!Proportion(late) > 1000 => late < 0)
    BY ProportionOf
  <2>3. proportion' = Quality!Proportion(late)
    BY <1>1, <2>1
  <2>4. late < 0 => arrival < due
    <3> HIDE DEF due
    <3> QED BY <2>1, <1>2
  <2> HIDE DEF due
  <2> QED BY <2>2, <2>3, <2>4
<1>4. Quality!Biased((frame' - 1) * Duration) = due
  <2>1. frame' - 1 = frame
    BY <1>1 DEF QualityNumbers
  <2> QED BY <2>1
<1>5. CASE \E time \in Int : DrawnAt(begins, time) /\ NewAverages
  <2>1. PICK time \in Int : DrawnAt(begins, time) /\ NewAverages
    BY <1>5
  <2>2. /\ drawAt' = time /\ m_trLastDraw' = time /\ time >= arrival
        /\ time >= due - Width
        /\ time > arrival => time >= due - Duration /\ time <= due
        /\ arrival < due => time <= due
        /\ m_cFramesDropped' = m_cFramesDropped /\ arrival' = arrival
    BY <2>1 DEF DrawnAt
  <2>3. QualityNumbers'
    BY <2>1, <2>2, <1>1, <1>2 DEF QualityNumbers, NewAverages
  <2>4. drawAt' # Quality!None
    BY <2>2, <1>2, NumbersOfCode
  <2>5. FramesCounted'
    <3>1. m_cFramesDrawn + m_cFramesDropped = frame
      BY <1>1 DEF FramesCounted, QualityNumbers
    <3> QED BY <3>1, <2>2, <2>4, <1>1 DEF FramesCounted, QualityNumbers
  <2>6. DrawnInTime'
    <3> HIDE DEF due
    <3>1. /\ time >= arrival /\ time >= due - Width
          /\ time > arrival => time >= due - Duration /\ time <= due
          /\ proportion' > 1000 => time <= due
      BY <2>2, <1>3
    <3> QED BY <3>1, <1>4, <2>2 DEF DrawnInTime, Width
  <2>7. DrawInv'
    <3>1. lastShown' <= arrival'
      BY <2>2, <1>1 DEF DrawInv
    <3> QED BY <3>1, <2>2, <2>4, <2>6, <1>3 DEF DrawInv
  <2> QED BY <2>3, <2>5, <2>7
<1>6. CASE Quality!DrawNow(arrival - due, Duration, dropped)
  BY <1>6, <1>5, <1>2, DrawNowDraws
<1>7. CASE Quality!DrawWhenDue(begins, arrival - due, Duration, dropped)
  BY <1>7, <1>5, WhenDueDraws
<1>8. CASE Quality!Drop(arrival - due, Duration, dropped)
  <2>1. /\ NewAverages /\ arrival' \in Nat /\ arrival' >= arrival
        /\ m_cFramesDropped' = m_cFramesDropped + 1
        /\ drawAt' = drawAt /\ m_trLastDraw' = m_trLastDraw
    BY <1>1, <1>8, DropDrops
  <2>2. QualityNumbers'
    BY <2>1, <1>1 DEF QualityNumbers, NewAverages
  <2>3. FramesCounted'
    BY <2>1, <1>1 DEF FramesCounted, QualityNumbers
  <2>4. DrawInv'
    <3>1. lastShown' <= arrival' /\ m_trLastDraw' <= lastShown' /\ drawAt' = Quality!None
      BY <2>1, <1>1 DEF DrawInv, QualityNumbers
    <3> QED BY <3>1, <1>3 DEF DrawInv
  <2> QED BY <2>2, <2>3, <2>4
<1> QED BY <1>6, <1>7, <1>8, OutcomeIs, Zenon

\* The average of the frames' times is no less than the shortest.
LEMMA FrameAvgAbove ==
    ASSUME QualityNumbers, AveragesInv
    PROVE  Quality!FrameAvg(Duration) \in Int /\ shortest <= Quality!FrameAvg(Duration)
<1> USE QualityConstants
<1>1. /\ Duration \in Nat /\ Duration > 0 /\ shortest \in Nat /\ shortest <= Duration
      /\ m_trDuration = 0 \/ shortest <= m_trFrameAvg
  BY DEF AveragesInv
<1>2. CASE m_trDuration = 0
  <2>1. Quality!RateChanged(Duration)
    BY <1>2 DEF Quality!RateChanged
  <2> QED BY <2>1, <1>1 DEF Quality!FrameAvg
<1>3. CASE m_trDuration # 0
  BY <1>1, <1>3, FrameAvgIs DEF Quality!FrameAvg
<1> QED BY <1>2, <1>3

LEMMA DecisionAverages ==
    ASSUME QualityNumbers, DrawInv, AveragesInv,
           NEW begins \in Nat, NEW handles, NEW discontinuity,
           Decides(begins, handles, discontinuity),
           NEW dropped \in BOOLEAN, Outcome(begins, handles, dropped)
    PROVE  AveragesInv'
<1> DEFINE late == arrival - Quality!Biased(begins)
           fa   == Quality!FrameAvg(Duration)
<1>1. /\ drawAt = Quality!None
      /\ m_trRenderAvg' = m_trRenderAvg /\ slowest' = slowest
  BY DecisionFrame
<1>2. /\ slowest \in Nat /\ m_trRenderAvg <= slowest
      /\ shortest \in Nat /\ shortest <= Duration
  BY DEF AveragesInv
<1>3. fa \in Int /\ shortest <= fa /\ Duration \in Nat
  BY FrameAvgAbove, QualityConstants
<1> SUFFICES /\ shortest' \in Nat /\ shortest' <= Duration
             /\ shortest' <= m_trFrameAvg'
  BY <1>1, <1>2 DEF AveragesInv
<1>4. CASE Quality!DrawNow(late, Duration, dropped)
  <2> DEFINE since == Quality!Lower(Quality!SinceLastDraw, Quality!UNITS)
  <2>1. m_trFrameAvg' = Quality!MovingAverage(since, fa) /\ shortest' = Quality!Lower(shortest, since)
    BY <1>4 DEF Quality!DrawNow
  <2>2. since \in Nat
    <3>1. arrival \in Nat /\ m_trLastDraw \in Int /\ m_trLastDraw <= arrival
      BY <1>1 DEF DrawInv, QualityNumbers
    <3> QED BY <3>1, NumbersOfCode DEF Quality!Lower, Quality!SinceLastDraw
  <2> HIDE DEF since, fa
  <2>3. PICK avg \in Nat : avg = fa
    BY <1>2, <1>3
  <2>4. PICK new \in Nat : new = since
    BY <2>2
  <2> DEFINE m == Quality!MovingAverage(new, avg)
  <2>5. m \in Nat /\ new + 3 * avg < 4 * m + 4
    <3>1. new \in Int /\ avg \in Int /\ new >= 0 /\ avg >= 0
      OBVIOUS
    <3> QED BY <3>1, AverageIs
  <2>6. m_trFrameAvg' = m /\ shortest' = IF shortest < new THEN shortest ELSE new
    BY <2>1, <2>3, <2>4 DEF Quality!Lower
  <2> HIDE DEF m
  <2>7. shortest <= avg
    BY <1>3, <2>3
  <2> QED BY <1>2, <1>3, <2>5, <2>6, <2>7
<1>5. CASE Quality!DrawWhenDue(begins, late, Duration, dropped)
  <2>1. m_trFrameAvg' = Duration /\ shortest' = shortest
    BY <1>5 DEF Quality!DrawWhenDue
  <2> QED BY <2>1, <1>2
<1>6. CASE Quality!Drop(late, Duration, dropped)
  <2>1. m_trFrameAvg' = fa /\ shortest' = shortest
    BY <1>6 DEF Quality!Drop
  <2> QED BY <2>1, <1>2, <1>3
<1> QED BY <1>4, <1>5, <1>6, OutcomeIs, Zenon

-----------------------------------------------------------------------------
(* Drawing, and the statistics. *)

LEMMA WithinSecondIs ==
    ASSUME NEW ms \in Int
    PROVE  /\ Quality!WithinSecond(ms) \in Int
           /\ Quality!WithinSecond(ms) >= -1000 /\ Quality!WithinSecond(ms) <= 1000
BY DEF Quality!WithinSecond

\* What RecordFrameLateness adds are numbers of at most a second.
LEMMA StatisticsKeep ==
    ASSUME QualityNumbers, FramesCounted, SumsInv,
           Quality!RecordFrameLateness(m_trLate, m_trFrame)
    PROVE  SumsInv' /\ m_cFramesDrawn' = m_cFramesDrawn + 1
<1> DEFINE ms == Quality!Quotient(m_trLate, Quality!MILLI)
           l  == IF m_cFramesDrawn <= 1 /\ (ms > 1000 \/ ms < -1000) THEN 0
                 ELSE Quality!WithinSecond(ms)
           b  == Quality!Quotient(m_trFrame, Quality!MILLI)
           f  == IF b > 1000 \/ b < 0 THEN 1000 ELSE b
           n  == m_cFramesDrawn
<1>1. Quality!MILLI \in Nat /\ Quality!MILLI > 0
  BY SMT DEF Quality!MILLI
<1>2. ms \in Int /\ b \in Int
  BY <1>1, QuotientOf DEF QualityNumbers
<1>3. /\ n > 1 => m_iTotAcc' = m_iTotAcc + l /\ m_iSumSqAcc' = m_iSumSqAcc + l * l
      /\ ~(n > 1) => m_iTotAcc' = m_iTotAcc /\ m_iSumSqAcc' = m_iSumSqAcc
      /\ n > 2 => m_iSumFrameTime' = m_iSumFrameTime + f
                  /\ m_iSumSqFrameTime' = m_iSumSqFrameTime + f * f
      /\ ~(n > 2) => m_iSumFrameTime' = m_iSumFrameTime
                     /\ m_iSumSqFrameTime' = m_iSumSqFrameTime
      /\ m_cFramesDrawn' = n + 1
  BY Zenon DEF Quality!RecordFrameLateness
<1>4. l \in Int /\ l >= -1000 /\ l <= 1000
  <2> HIDE DEF ms
  <2> QED BY <1>2, WithinSecondIs
<1>5. f \in Int /\ f >= -1000 /\ f <= 1000
  <2> HIDE DEF b
  <2> QED BY <1>2
<1> HIDE DEF l, f
<1>6. n \in Nat
  BY DEF FramesCounted
<1>7. /\ m_iTotAcc \in Int /\ m_iSumSqAcc \in Int
      /\ m_iSumFrameTime \in Int /\ m_iSumSqFrameTime \in Int
      /\ SumsOf(Quality!Higher(0, n - 2), m_iSumSqAcc, m_iTotAcc)
      /\ SumsOf(Quality!Higher(0, n - 3), m_iSumSqFrameTime, m_iSumFrameTime)
  BY DEF SumsInv
<1>8. l * l \in Int /\ f * f \in Int
  BY <1>4, <1>5
<1>9. /\ m_iTotAcc' \in Int /\ m_iSumSqAcc' \in Int
      /\ SumsOf(Quality!Higher(0, n' - 2), m_iSumSqAcc', m_iTotAcc')
  <2>1. CASE n > 1
    <3>1. PICK k \in Nat : k = n - 2
      BY <2>1, <1>6
    <3>2. Quality!Higher(0, n - 2) = k /\ Quality!Higher(0, n' - 2) = k + 1
      BY <3>1, <2>1, <1>3, <1>6 DEF Quality!Higher
    <3>3. SumsOf(k + 1, m_iSumSqAcc + l * l, m_iTotAcc + l)
      <4>1. SumsOf(k, m_iSumSqAcc, m_iTotAcc)
        BY <3>2, <1>7
      <4> QED BY <4>1, <1>4, <1>7, OneMoreNumber
    <3>4. m_iTotAcc' = m_iTotAcc + l /\ m_iSumSqAcc' = m_iSumSqAcc + l * l
      BY <2>1, <1>3
    <3> QED BY <3>2, <3>3, <3>4, <1>4, <1>7, <1>8
  <2>2. CASE ~(n > 1)
    <3>1. Quality!Higher(0, n - 2) = 0 /\ Quality!Higher(0, n' - 2) = 0
      BY <2>2, <1>3, <1>6 DEF Quality!Higher
    <3> QED BY <3>1, <2>2, <1>3, <1>7
  <2> QED BY <2>1, <2>2
<1>10. /\ m_iSumFrameTime' \in Int /\ m_iSumSqFrameTime' \in Int
       /\ SumsOf(Quality!Higher(0, n' - 3), m_iSumSqFrameTime', m_iSumFrameTime')
  <2>1. CASE n > 2
    <3>1. PICK k \in Nat : k = n - 3
      BY <2>1, <1>6
    <3>2. Quality!Higher(0, n - 3) = k /\ Quality!Higher(0, n' - 3) = k + 1
      BY <3>1, <2>1, <1>3, <1>6 DEF Quality!Higher
    <3>3. SumsOf(k + 1, m_iSumSqFrameTime + f * f, m_iSumFrameTime + f)
      <4>1. SumsOf(k, m_iSumSqFrameTime, m_iSumFrameTime)
        BY <3>2, <1>7
      <4> QED BY <4>1, <1>5, <1>7, OneMoreNumber
    <3>4. m_iSumFrameTime' = m_iSumFrameTime + f /\ m_iSumSqFrameTime' = m_iSumSqFrameTime + f * f
      BY <2>1, <1>3
    <3> QED BY <3>2, <3>3, <3>4, <1>5, <1>7, <1>8
  <2>2. CASE ~(n > 2)
    <3>1. Quality!Higher(0, n - 3) = 0 /\ Quality!Higher(0, n' - 3) = 0
      BY <2>2, <1>3, <1>6 DEF Quality!Higher
    <3> QED BY <3>1, <2>2, <1>3, <1>7
  <2> QED BY <2>1, <2>2
<1> QED BY <1>3, <1>9, <1>10 DEF SumsInv

\* The average cost of drawing follows what is measured.
LEMMA RenderAverage ==
    ASSUME QualityNumbers, NEW took \in Nat, Quality!OnRenderEnd(took)
    PROVE  /\ m_trRenderAvg' \in Nat /\ m_trRenderLast' \in Nat
           /\ 4 * m_trRenderAvg' <= 4 * m_trRenderAvg \/ 4 * m_trRenderAvg' <= took + 3 * m_trRenderAvg
<1> DEFINE m == Quality!MovingAverage(took, m_trRenderAvg)
<1>1. m \in Nat /\ 4 * m <= took + 3 * m_trRenderAvg /\ m_trRenderAvg \in Nat
  <2>1. m_trRenderAvg \in Nat
    BY DEF QualityNumbers
  <2>2. PICK avg \in Nat : avg = m_trRenderAvg
    BY <2>1
  <2>3. Quality!MovingAverage(took, avg) \in Nat /\ 4 * Quality!MovingAverage(took, avg) <= took + 3 * avg
    <3>1. took \in Int /\ avg \in Int /\ took >= 0 /\ avg >= 0
      OBVIOUS
    <3> QED BY <3>1, AverageIs
  <2> QED BY <2>2, <2>3
<1>2. m_trRenderAvg' = m \/ m_trRenderAvg' = m_trRenderAvg
  BY DEF Quality!OnRenderEnd
<1>3. m_trRenderLast' = took
  BY DEF Quality!OnRenderEnd
<1> HIDE DEF m
<1> QED BY <1>1, <1>2, <1>3

LEMMA RenderKeeps ==
    ASSUME QualityInv, NEW took \in Renders, Quality!Render(took)
    PROVE  QualityInv'
<1> USE DEF QualityInv
<1>1. took \in Nat /\ Duration \in Nat /\ Duration > 0
  BY QualityConstants
<1>2. /\ drawAt # Quality!None
      /\ Quality!RecordFrameLateness(m_trLate, m_trFrame) /\ Quality!OnRenderEnd(took)
      /\ drawAt' = Quality!None /\ lastShown' = drawAt
      /\ slowest' = Quality!Higher(slowest, took) /\ shortest' = shortest
      /\ frame' = frame /\ m_cFramesDropped' = m_cFramesDropped
      /\ m_trLate' = m_trLate /\ m_trFrame' = m_trFrame /\ proportion' = proportion
      /\ m_trFrameAvg' = m_trFrameAvg /\ m_trDuration' = m_trDuration
      /\ m_trWaitAvg' = m_trWaitAvg /\ m_trEarliness' = m_trEarliness
      /\ m_trLastDraw' = m_trLastDraw /\ m_nNormal' = m_nNormal
      /\ m_bSupplierHandlingQuality' = m_bSupplierHandlingQuality
      /\ Quality!NextComes(drawAt + took)
  BY Zenon DEF Quality!Render, Quality!scheduled
<1>3. m_trLastDraw = drawAt /\ DrawnInTime
  BY <1>2 DEF DrawInv
<1>4. drawAt \in Nat
  BY <1>3 DEF DrawnInTime, QualityNumbers
<1>5. SumsInv' /\ m_cFramesDrawn' = m_cFramesDrawn + 1
  BY <1>2, StatisticsKeep
<1>6. /\ m_trRenderAvg' \in Nat /\ m_trRenderLast' \in Nat
      /\ 4 * m_trRenderAvg' <= 4 * m_trRenderAvg \/ 4 * m_trRenderAvg' <= took + 3 * m_trRenderAvg
  BY <1>1, <1>2, RenderAverage
<1>7. arrival' \in Nat /\ arrival' >= drawAt
  <2>1. drawAt + took \in Nat /\ drawAt + took >= drawAt /\ frame' \in Nat
    BY <1>1, <1>2, <1>4 DEF QualityNumbers
  <2>2. arrival' \in Nat /\ arrival' >= drawAt + took
    BY <2>1, <1>2, NextFrame
  <2> QED BY <2>1, <2>2, <1>4, <1>1
<1>8. QualityNumbers'
  BY <1>2, <1>4, <1>6, <1>7, NumbersOfCode DEF QualityNumbers
<1>9. FramesCounted'
  BY <1>2, <1>5 DEF FramesCounted, QualityNumbers
<1>10. DrawInv'
  <2>1. lastShown' <= arrival' /\ m_trLastDraw' <= lastShown'
    BY <1>2, <1>3, <1>4, <1>7
  <2> QED BY <2>1, <1>2 DEF DrawInv
<1>11. AveragesInv'
  <2>1. /\ slowest \in Nat /\ m_trRenderAvg <= slowest
        /\ shortest \in Nat /\ shortest <= Duration
        /\ m_trDuration = 0 \/ shortest <= m_trFrameAvg
    BY DEF AveragesInv
  <2>2. slowest' = IF slowest > took THEN slowest ELSE took
    BY <1>2 DEF Quality!Higher
  <2>3. PICK r \in Nat : r = m_trRenderAvg'
    BY <1>6
  <2>4. 4 * r <= 4 * m_trRenderAvg \/ 4 * r <= took + 3 * m_trRenderAvg
    BY <1>6, <2>3
  <2>5. slowest' \in Nat /\ r <= slowest'
    BY <2>1, <2>2, <2>4, <1>1 DEF QualityNumbers
  <2> QED BY <2>1, <2>3, <2>5, <1>2 DEF AveragesInv
<1> QED BY <1>5, <1>8, <1>9, <1>10, <1>11

\* What is not changed stays as it is.
LEMMA QualityStays == QualityInv /\ UNCHANGED qualityVars => QualityInv'
<1> SUFFICES ASSUME QualityInv, UNCHANGED qualityVars PROVE QualityInv'
  OBVIOUS
<1> USE DEF qualityVars
<1>1. QualityNumbers'
  BY DEF QualityInv, QualityNumbers
<1>2. FramesCounted'
  BY DEF QualityInv, FramesCounted
<1>3. SumsInv'
  BY DEF QualityInv, SumsInv
<1>4. DrawInv'
  BY DEF QualityInv, DrawInv, DrawnInTime
<1>5. AveragesInv'
  BY DEF QualityInv, AveragesInv
<1> QED BY <1>1, <1>2, <1>3, <1>4, <1>5 DEF QualityInv

LEMMA DecisionStep ==
    ASSUME QualityInv, NEW handles \in BOOLEAN, NEW discontinuity \in BOOLEAN,
           Quality!ShouldDrawSampleNow(frame * Duration, Duration, handles, discontinuity)
    PROVE  QualityInv'
<1> USE DEF QualityInv
<1>1. PICK begins \in Nat, dropped \in BOOLEAN :
          /\ begins = frame * Duration
          /\ Decides(begins, handles, discontinuity)
          /\ dropped = Quality!JustDropped(handles, discontinuity)
          /\ Outcome(begins, handles, dropped)
  BY DecisionIs
<1>2. QualityNumbers' /\ DrawInv' /\ FramesCounted'
  BY <1>1, DecisionKeeps
<1>3. AveragesInv'
  BY <1>1, DecisionAverages
<1>4. SumsInv'
  <2>1. UNCHANGED << m_cFramesDrawn, m_iTotAcc, m_iSumSqAcc, m_iSumSqFrameTime, m_iSumFrameTime >>
    BY <1>1, DecisionFrame
  <2> QED BY <2>1 DEF SumsInv
<1> QED BY <1>2, <1>3, <1>4

LEMMA QualityStep == QualityInv /\ [RenderingNext]_mcVars => QualityInv'
<1> SUFFICES ASSUME QualityInv, [RenderingNext]_mcVars PROVE QualityInv'
  OBVIOUS
<1>1. CASE UNCHANGED qualityVars
  BY <1>1, QualityStays
<1>2. CASE Quality!Next
  BY <1>2, DecisionStep, RenderKeeps DEF Quality!Next
<1> QED BY <1>1, <1>2, Zenon DEF RenderingNext, mcVars

\* The invariant gives the properties of VideoQuality.
LEMMA QualityHolds == QualityInv => Quality!StatisticsSound /\ Quality!ShownInTime
<1> SUFFICES ASSUME QualityInv PROVE Quality!StatisticsSound /\ Quality!ShownInTime
  OBVIOUS
<1> USE DEF QualityInv
<1> DEFINE n == m_cFramesDrawn
<1>1. n \in Nat
  BY DEF FramesCounted
<1>2. Quality!get_AvgSyncOffset \in -1000..1000
  <2>1. CASE n <= 1
    BY <2>1 DEF Quality!get_AvgSyncOffset
  <2>2. CASE n > 1
    <3>1. PICK k \in Nat : k = n - 2
      BY <2>2, <1>1
    <3>2. Quality!Higher(0, n - 2) = k
      BY <3>1 DEF Quality!Higher
    <3>3. m_iTotAcc \in Int /\ m_iTotAcc >= -(1000 * k) /\ m_iTotAcc <= 1000 * k
      BY <3>2 DEF SumsInv, SumsOf
    <3>4. n - 1 \in Nat /\ n - 1 > 0 /\ n - 1 = k + 1
      BY <3>1, <2>2, <1>1
    <3>5. m_iTotAcc >= -(1000 * (n - 1)) /\ m_iTotAcc <= 1000 * (n - 1)
      BY <3>3, <3>4
    <3>6. PICK m \in Nat : m = n - 1 /\ m > 0
      BY <3>4
    <3>7. PICK tot \in Int : tot = m_iTotAcc
      BY <3>3
    <3>8. PICK q \in Int : q = Quality!Quotient(tot, m) /\ q >= -1000 /\ q <= 1000
      <4>1. tot >= -(1000 * m) /\ tot <= 1000 * m
        BY <3>5, <3>6, <3>7
      <4> HIDE DEF n, QualityInv
      <4> QED BY <4>1, <3>6, AverageOf
    <3> QED BY <3>6, <3>7, <3>8, <2>2, <1>1 DEF Quality!get_AvgSyncOffset
  <2> QED BY <2>1, <2>2, <1>1
<1>3. n > 2 => Quality!RootIsRight(Quality!Variance(n - 1, m_iSumSqAcc, m_iTotAcc))
  <2> SUFFICES ASSUME n > 2
               PROVE  Quality!RootIsRight(Quality!Variance(n - 1, m_iSumSqAcc, m_iTotAcc))
    OBVIOUS
  <2>1. PICK m \in Nat : m = n - 1 /\ m > 1
    BY <1>1
  <2>2. Quality!Higher(0, n - 2) = m - 1
    BY <2>1, <1>1 DEF Quality!Higher
  <2>3. SumsOf(m - 1, m_iSumSqAcc, m_iTotAcc) /\ m_iSumSqAcc \in Int /\ m_iTotAcc \in Int
    BY <2>2 DEF SumsInv
  <2>4. Quality!RootIsRight(Quality!Variance(m, m_iSumSqAcc, m_iTotAcc))
    BY <2>1, <2>3, VarianceOf
  <2> QED BY <2>1, <2>4
<1>4. n > 3 => Quality!RootIsRight(Quality!Variance(n - 2, m_iSumSqFrameTime, m_iSumFrameTime))
  <2> SUFFICES ASSUME n > 3
               PROVE  Quality!RootIsRight(Quality!Variance(n - 2, m_iSumSqFrameTime, m_iSumFrameTime))
    OBVIOUS
  <2>1. PICK m \in Nat : m = n - 2 /\ m > 1
    BY <1>1
  <2>2. Quality!Higher(0, n - 3) = m - 1
    BY <2>1, <1>1 DEF Quality!Higher
  <2>3. /\ SumsOf(m - 1, m_iSumSqFrameTime, m_iSumFrameTime)
        /\ m_iSumSqFrameTime \in Int /\ m_iSumFrameTime \in Int
    BY <2>2 DEF SumsInv
  <2>4. Quality!RootIsRight(Quality!Variance(m, m_iSumSqFrameTime, m_iSumFrameTime))
    BY <2>1, <2>3, VarianceOf
  <2> QED BY <2>1, <2>4
<1>5. Quality!StatisticsSound
  BY <1>2, <1>3, <1>4 DEF FramesCounted, Quality!StatisticsSound
<1>6. Quality!ShownInTime
  <2>1. proportion \in 500..2000 /\ m_trEarliness <= 0
    BY DEF DrawInv, QualityNumbers
  <2> DEFINE due == Quality!Biased((frame - 1) * Duration)
  <2>2. ASSUME drawAt # Quality!None
        PROVE  /\ drawAt >= arrival /\ drawAt >= lastShown
               /\ drawAt >= due - Quality!Higher(Quality!GROSS, Duration)
               /\ drawAt > arrival => drawAt \in (due - Duration)..due
               /\ proportion > 1000 => drawAt <= due
    <3>1. /\ drawAt >= arrival /\ drawAt >= due - Width
          /\ drawAt > arrival => drawAt >= due - Duration /\ drawAt <= due
          /\ proportion > 1000 => drawAt <= due
      BY <2>2 DEF DrawInv, DrawnInTime
    <3>2. drawAt >= lastShown
      BY <3>1 DEF DrawInv, QualityNumbers
    <3>3. due \in Int
      <4>1. frame - 1 \in Int /\ Duration \in Int
        BY QualityConstants DEF QualityNumbers
      <4>2. PICK a \in Int : a = (frame - 1) * Duration
        BY <4>1
      <4> QED BY <4>2 DEF Quality!Biased
    <3>4. drawAt \in Int /\ Duration \in Int
      BY QualityConstants DEF QualityNumbers
    <3> HIDE DEF due
    <3> QED BY <3>1, <3>2, <3>3, <3>4 DEF Width
  <2> SUFFICES drawAt # Quality!None =>
                  /\ drawAt >= arrival /\ drawAt >= lastShown
                  /\ drawAt >= due - Quality!Higher(Quality!GROSS, Duration)
                  /\ drawAt > arrival => drawAt \in (due - Duration)..due
                  /\ proportion > 1000 => drawAt <= due
    BY <2>1, SMT DEF Quality!ShownInTime
  <2> QED BY <2>2
<1> QED BY <1>5, <1>6

\* What it takes that a frame need not be drawn.
LEMMA NotDrawn ==
    ASSUME NEW late, NEW length, NEW handles, ~Quality!MustDraw(late, length, handles)
    PROVE  /\ ~(3 * m_trRenderAvg <= Quality!FrameAvg(length))
           /\ IF handles THEN ~(late <= length * 4) ELSE ~(late + late < length)
           /\ ~(Quality!SinceLastDraw > Quality!UNITS)
<1>1. ~(Quality!SinceLastDraw > Quality!UNITS)
  BY SMT DEF Quality!MustDraw
<1>2. IF handles THEN ~(late <= length * 4) ELSE ~(late + late < length)
  BY SMT DEF Quality!MustDraw
<1>3. ~(3 * m_trRenderAvg <= Quality!FrameAvg(length))
  BY SMT DEF Quality!MustDraw
<1> QED BY <1>1, <1>2, <1>3

\* A step that drops a frame, or draws one after a drop, is justified.
LEMMA DropsJustified == QualityInv /\ [RenderingNext]_mcVars => [part = "quality" => Quality!DropIsJustified]_mcVars
<1> SUFFICES ASSUME QualityInv, RenderingNext, part = "quality" PROVE Quality!DropIsJustified
  OBVIOUS
<1> USE DEF QualityInv
<1>1. Quality!Next
  BY DEF RenderingNext
<1>2. CASE \E took \in Renders : Quality!Render(took)
  BY <1>2 DEF Quality!Render, Quality!DropIsJustified
<1>3. ASSUME NEW handles \in BOOLEAN, NEW discontinuity \in BOOLEAN,
             Quality!ShouldDrawSampleNow(frame * Duration, Duration, handles, discontinuity)
      PROVE  Quality!DropIsJustified
  <2>1. PICK begins \in Nat, dropped \in BOOLEAN :
            /\ begins = frame * Duration
            /\ Decides(begins, handles, discontinuity)
            /\ dropped = Quality!JustDropped(handles, discontinuity)
            /\ Outcome(begins, handles, dropped)
    BY <1>3, DecisionIs
  <2> DEFINE late == arrival - Quality!Biased(begins)
  <2>2. /\ arrival \in Nat /\ Quality!Biased(begins) \in Nat /\ late \in Int
        /\ Quality!Biased(begins) <= begins /\ Duration \in Nat /\ Duration > 0
    BY BiasedIs, QualityConstants DEF QualityNumbers
  <2>3. drawAt = Quality!None /\ m_bSupplierHandlingQuality' = handles
    BY <2>1, DecisionFrame
  <2>4. CASE Quality!Drop(late, Duration, dropped) /\ ~Quality!MustDraw(late, Duration, handles)
    <3>1. drawAt' = drawAt
      BY <2>4 DEF Quality!Drop
    <3>2. /\ ~(3 * m_trRenderAvg <= Quality!FrameAvg(Duration))
          /\ IF handles THEN ~(late <= Duration * 4) ELSE ~(late + late < Duration)
          /\ ~(Quality!SinceLastDraw > Quality!UNITS)
      BY <2>4, NotDrawn
    <3>3. arrival - lastShown <= Quality!UNITS
      BY <2>2, <2>3, <3>2, NumbersOfCode DEF Quality!SinceLastDraw, DrawInv, QualityNumbers
    <3>4. handles => arrival > Quality!Biased(begins) + 4 * Duration
      BY <3>2, <2>2
    <3>5. ~handles => arrival > Quality!Biased(begins)
      BY <3>2, <2>2
    <3>6. 3 * slowest > shortest
      <4>1. shortest <= Quality!FrameAvg(Duration) /\ Quality!FrameAvg(Duration) \in Int
        BY FrameAvgAbove
      <4>2. PICK fa \in Int : fa = Quality!FrameAvg(Duration)
        BY <4>1
      <4>3. ~(3 * m_trRenderAvg <= fa) /\ shortest <= fa
        BY <3>2, <4>1, <4>2
      <4> QED BY <4>2, <4>3 DEF AveragesInv, QualityNumbers
    <3> QED BY <2>1, <2>3, <3>1, <3>3, <3>4, <3>5, <3>6 DEF Quality!DropIsJustified
  <2>5. CASE \/ Quality!DrawNow(late, Duration, dropped)
             \/ Quality!DrawWhenDue(begins, late, Duration, dropped)
    <3>1. m_cFramesDropped' = m_cFramesDropped
      BY <2>5 DEF Quality!DrawNow, Quality!DrawWhenDue
    <3>2. ASSUME m_nNormal = -1
          PROVE  drawAt' = arrival \/ arrival < begins - Quality!GROSS
      <4>1. dropped
        BY <2>1, <3>2, Zenon DEF Quality!JustDropped
      <4>2. CASE Quality!DrawNow(late, Duration, dropped)
        BY <4>2 DEF Quality!DrawNow
      <4>3. CASE Quality!DrawWhenDue(begins, late, Duration, dropped)
        <5>1. ~Quality!PlayASAP(late, Duration, dropped)
          BY <4>3 DEF Quality!DrawWhenDue
        <5>2. ~(late >= -Quality!GROSS)
          BY <5>1, <4>1, Zenon DEF Quality!PlayASAP
        <5> QED BY <5>2, <2>2, NumbersOfCode
      <4> QED BY <2>5, <4>2, <4>3
    <3> QED BY <2>1, <3>1, <3>2 DEF Quality!DropIsJustified
  <2> QED BY <2>1, <2>4, <2>5, OutcomeIs, Zenon
<1> QED BY <1>1, <1>2, <1>3 DEF Quality!Next

-----------------------------------------------------------------------------
(* What is left of a sample and of an end of stream. *)

InReceive   == {"received", "wait", "fired"}
WithSample  == InReceive \cup {"first", "render"}

Places ==
    /\ m_State \in {"Stopped", "Paused", "Running"}
    /\ source \in WithSample \cup {"out", "error"}
    /\ app \in {"idle", "stopping", "flushing", "resetting"}

\* What Stop and a flush leave, and until when.
QuietInv ==
    /\ m_State = "Stopped" \/ m_bFlushing \/ m_ThreadSignal => m_pMediaSample = {}
    /\ m_State = "Stopped" => ~m_bEOS /\ m_EndOfStreamTimer = 0 /\ m_dwAdvise = 0 /\ ~m_bStreaming
    /\ m_State = "Stopped" /\ app # "stopping" => ~m_bInReceive
    /\ m_ThreadSignal => m_State = "Stopped" \/ m_bFlushing
    /\ app = "stopping" => m_State = "Stopped"
    /\ app \in {"flushing", "resetting"} => m_bFlushing

\* The source's thread is in Receive as long as others must wait for it; it finds an
\* error only when it may be told so.
ReceiveInv ==
    /\ m_bInReceive <=> source \in InReceive
    /\ m_pMediaSample # {} => source \in WithSample
    /\ source = "error" => m_State = "Stopped" \/ m_bFlushing \/ m_bAbort
    /\ ~m_bRunTimeError

\* The end of the stream.
StreamEndInv ==
    /\ m_bEOS => sourceEnd
    /\ m_bFlushing /\ app \notin {"flushing", "resetting"} => ~m_bEOS
    /\ m_EndOfStreamTimer # 0 => m_bEOS /\ m_pMediaSample = {}
    /\ Rendering!CompletesOnce

RendererInv == Places /\ QuietInv /\ ReceiveInv /\ StreamEndInv

-----------------------------------------------------------------------------
LEMMA RendererInit == RenderingInit => RendererInv
<1> SUFFICES ASSUME RenderingInit PROVE RendererInv
  OBVIOUS
<1> USE DEF RenderingInit, Rendering!Init
<1>1. Places
  BY DEF Places, WithSample, InReceive
<1>2. QuietInv
  BY DEF QuietInv
<1>3. ReceiveInv
  BY DEF ReceiveInv, InReceive, WithSample
<1>4. StreamEndInv
  BY DEF StreamEndInv, Rendering!CompletesOnce
<1> QED BY <1>1, <1>2, <1>3, <1>4 DEF RendererInv

\* What the renderer's invariant speaks of.
invVars == << Rendering!stateVars, Rendering!eosVars, Rendering!pinVars, Rendering!sampleVars,
              Rendering!waitVars, app, source, sourceEnd >>

LEMMA RendererStays == RendererInv /\ UNCHANGED invVars => RendererInv'
<1> SUFFICES ASSUME RendererInv, UNCHANGED invVars PROVE RendererInv'
  OBVIOUS
<1>1. UNCHANGED << m_pClock, m_State, m_tStart, m_bStreaming, m_bAbort, m_bEOS, m_bEOSDelivered,
                   m_EndOfStreamTimer, timers, completes, m_bRunTimeError, m_bFlushing,
                   m_pMediaSample, m_SignalTime, m_bInReceive, m_ThreadSignal, m_dwAdvise,
                   app, source, sourceEnd >>
  BY DEF invVars, Rendering!stateVars, Rendering!eosVars, Rendering!pinVars,
         Rendering!sampleVars, Rendering!waitVars
<1> QED BY <1>1 DEF RendererInv, Places, QuietInv, ReceiveInv, StreamEndInv, Rendering!CompletesOnce

\* SendEndOfStream announces the end once, while streaming only.
LEMMA SendKeeps ==
    ASSUME NEW eos, NEW streaming, NEW timer, NEW tStart, NEW kept,
           Rendering!SendEndOfStream(eos, streaming, m_bEOSDelivered, timer, tStart, kept),
           completes = IF m_bEOSDelivered THEN 1 ELSE 0
    PROVE  /\ completes' = IF m_bEOSDelivered' THEN 1 ELSE 0
           /\ m_bEOSDelivered' => m_bEOSDelivered \/ (eos /\ streaming)
           /\ m_EndOfStreamTimer' # 0 => m_EndOfStreamTimer' = timer \/ eos
<1>1. CASE ~eos \/ m_bEOSDelivered \/ timer # 0
  <2>1. m_EndOfStreamTimer' = timer /\ m_bEOSDelivered' = m_bEOSDelivered /\ completes' = completes
    BY <1>1 DEF Rendering!SendEndOfStream
  <2> QED BY <2>1
<1>2. CASE eos /\ ~m_bEOSDelivered /\ timer = 0
  <2>1. CASE m_EndOfStreamTimer' = 0 /\ m_bEOSDelivered' = (m_bEOSDelivered \/ streaming)
             /\ completes' = IF streaming THEN completes + 1 ELSE completes
    <3>1. m_bEOSDelivered' <=> streaming
      BY <1>2, <2>1, Zenon
    <3>2. completes = 0
      BY <1>2
    <3> QED BY <1>2, <2>1, <3>1, <3>2
  <2>2. CASE m_bEOSDelivered' = m_bEOSDelivered /\ completes' = completes
    BY <1>2, <2>2
  <2> QED BY <1>2, <2>1, <2>2 DEF Rendering!SendEndOfStream, Rendering!NotifyEndOfStream
<1> QED BY <1>1, <1>2

LEMMA PauseKeeps == RendererInv /\ Rendering!Pause => RendererInv'
<1> SUFFICES ASSUME RendererInv, Rendering!Pause PROVE RendererInv'
  OBVIOUS
<1> USE DEF RendererInv, Rendering!Pause, Rendering!CancelNotification, Rendering!ResetEndOfStreamTimer,
            Rendering!stateVars, Rendering!eosVars, Rendering!pinVars, Rendering!sampleVars,
            Rendering!waitVars
<1>1. Places'
  BY DEF Places
<1>2. QuietInv'
  BY DEF QuietInv, ReceiveInv
<1>3. ReceiveInv'
  BY DEF ReceiveInv, QuietInv
<1>4. StreamEndInv'
  BY DEF StreamEndInv, QuietInv, Rendering!CompletesOnce
<1> QED BY <1>1, <1>2, <1>3, <1>4

LEMMA PauseAgainKeeps == RendererInv /\ Rendering!PauseAgain => RendererInv'
<1> SUFFICES ASSUME RendererInv, Rendering!PauseAgain PROVE RendererInv'
  OBVIOUS
<1> USE DEF RendererInv, Rendering!PauseAgain,
            Rendering!stateVars, Rendering!eosVars, Rendering!pinVars, Rendering!sampleVars,
            Rendering!waitVars
<1>1. Places'
  BY DEF Places
<1>2. QuietInv'
  BY DEF QuietInv, ReceiveInv
<1>3. ReceiveInv'
  BY DEF ReceiveInv, QuietInv
<1>4. StreamEndInv'
  BY DEF StreamEndInv, QuietInv, Rendering!CompletesOnce
<1> QED BY <1>1, <1>2, <1>3, <1>4

LEMMA StopKeeps == RendererInv /\ Rendering!Stop => RendererInv'
<1> SUFFICES ASSUME RendererInv, Rendering!Stop PROVE RendererInv'
  OBVIOUS
<1> USE DEF RendererInv, Rendering!Stop, Rendering!CancelNotification, Rendering!ResetEndOfStream, Rendering!ResetEndOfStreamTimer,
            Rendering!stateVars, Rendering!eosVars, Rendering!pinVars, Rendering!sampleVars,
            Rendering!waitVars
<1>1. Places'
  BY DEF Places
<1>2. QuietInv'
  BY DEF QuietInv, ReceiveInv
<1>3. ReceiveInv'
  BY DEF ReceiveInv, QuietInv
<1>4. StreamEndInv'
  BY DEF StreamEndInv, QuietInv, Rendering!CompletesOnce
<1> QED BY <1>1, <1>2, <1>3, <1>4

LEMMA BeginFlushKeeps == RendererInv /\ Rendering!BeginFlush => RendererInv'
<1> SUFFICES ASSUME RendererInv, Rendering!BeginFlush PROVE RendererInv'
  OBVIOUS
<1> USE DEF RendererInv, Rendering!BeginFlush, Rendering!CancelNotification,
            Rendering!stateVars, Rendering!eosVars, Rendering!pinVars, Rendering!sampleVars,
            Rendering!waitVars
<1>1. Places'
  BY DEF Places
<1>2. QuietInv'
  BY DEF QuietInv, ReceiveInv
<1>3. ReceiveInv'
  BY DEF ReceiveInv, QuietInv
<1>4. StreamEndInv'
  BY DEF StreamEndInv, QuietInv, Rendering!CompletesOnce
<1> QED BY <1>1, <1>2, <1>3, <1>4

LEMMA EndFlushKeeps == RendererInv /\ Rendering!EndFlush => RendererInv'
<1> SUFFICES ASSUME RendererInv, Rendering!EndFlush PROVE RendererInv'
  OBVIOUS
<1> USE DEF RendererInv, Rendering!EndFlush,
            Rendering!stateVars, Rendering!eosVars, Rendering!pinVars, Rendering!sampleVars,
            Rendering!waitVars
<1>1. Places'
  BY DEF Places
<1>2. QuietInv'
  BY DEF QuietInv, ReceiveInv
<1>3. ReceiveInv'
  BY DEF ReceiveInv, QuietInv
<1>4. StreamEndInv'
  BY DEF StreamEndInv, QuietInv, Rendering!CompletesOnce
<1> QED BY <1>1, <1>2, <1>3, <1>4

LEMMA StoppedKeeps == RendererInv /\ Rendering!Stopped => RendererInv'
<1> SUFFICES ASSUME RendererInv, Rendering!Stopped PROVE RendererInv'
  OBVIOUS
<1> USE DEF RendererInv, Rendering!Stopped,
            Rendering!stateVars, Rendering!eosVars, Rendering!pinVars, Rendering!sampleVars,
            Rendering!waitVars
<1>1. Places'
  BY DEF Places
<1>2. QuietInv'
  BY DEF QuietInv, ReceiveInv
<1>3. ReceiveInv'
  BY DEF ReceiveInv, QuietInv
<1>4. StreamEndInv'
  BY DEF StreamEndInv, QuietInv, Rendering!CompletesOnce
<1> QED BY <1>1, <1>2, <1>3, <1>4

LEMMA FlushWaitedKeeps == RendererInv /\ Rendering!FlushWaited => RendererInv'
<1> SUFFICES ASSUME RendererInv, Rendering!FlushWaited PROVE RendererInv'
  OBVIOUS
<1> USE DEF RendererInv, Rendering!FlushWaited,
            Rendering!stateVars, Rendering!eosVars, Rendering!pinVars, Rendering!sampleVars,
            Rendering!waitVars
<1>1. Places'
  BY DEF Places
<1>2. QuietInv'
  BY DEF QuietInv, ReceiveInv
<1>3. ReceiveInv'
  BY DEF ReceiveInv, QuietInv
<1>4. StreamEndInv'
  BY DEF StreamEndInv, QuietInv, Rendering!CompletesOnce
<1> QED BY <1>1, <1>2, <1>3, <1>4

LEMMA FlushResetKeeps == RendererInv /\ Rendering!FlushReset => RendererInv'
<1> SUFFICES ASSUME RendererInv, Rendering!FlushReset PROVE RendererInv'
  OBVIOUS
<1> USE DEF RendererInv, Rendering!FlushReset, Rendering!ResetEndOfStream, Rendering!ResetEndOfStreamTimer,
            Rendering!stateVars, Rendering!eosVars, Rendering!pinVars, Rendering!sampleVars,
            Rendering!waitVars
<1>1. Places'
  BY DEF Places
<1>2. QuietInv'
  BY DEF QuietInv, ReceiveInv
<1>3. ReceiveInv'
  BY DEF ReceiveInv, QuietInv
<1>4. StreamEndInv'
  BY DEF StreamEndInv, QuietInv, Rendering!CompletesOnce
<1> QED BY <1>1, <1>2, <1>3, <1>4

LEMMA OnDisplayChangeKeeps == RendererInv /\ Rendering!OnDisplayChange => RendererInv'
<1> SUFFICES ASSUME RendererInv, Rendering!OnDisplayChange PROVE RendererInv'
  OBVIOUS
<1> USE DEF RendererInv, Rendering!OnDisplayChange,
            Rendering!stateVars, Rendering!eosVars, Rendering!pinVars, Rendering!sampleVars,
            Rendering!waitVars
<1>1. Places'
  BY DEF Places
<1>2. QuietInv'
  BY DEF QuietInv, ReceiveInv
<1>3. ReceiveInv'
  BY DEF ReceiveInv, QuietInv
<1>4. StreamEndInv'
  BY DEF StreamEndInv, QuietInv, Rendering!CompletesOnce
<1> QED BY <1>1, <1>2, <1>3, <1>4

LEMMA RefuseKeeps == RendererInv /\ Rendering!Refuse => RendererInv'
<1> SUFFICES ASSUME RendererInv, Rendering!Refuse PROVE RendererInv'
  OBVIOUS
<1> USE DEF RendererInv, Rendering!Refuse, Rendering!At, Rendering!Streams,
            Rendering!stateVars, Rendering!eosVars, Rendering!pinVars, Rendering!sampleVars,
            Rendering!waitVars
<1>1. Places'
  BY DEF Places, WithSample, InReceive
<1>2. QuietInv'
  BY DEF QuietInv, ReceiveInv, InReceive
<1>3. ReceiveInv'
  BY DEF ReceiveInv, QuietInv, StreamEndInv, WithSample, InReceive
<1>4. StreamEndInv'
  BY DEF StreamEndInv, QuietInv, ReceiveInv, WithSample, InReceive, Rendering!CompletesOnce
<1> QED BY <1>1, <1>2, <1>3, <1>4

LEMMA ReceivedKeeps == RendererInv /\ Rendering!Received => RendererInv'
<1> SUFFICES ASSUME RendererInv, Rendering!Received PROVE RendererInv'
  OBVIOUS
<1> USE DEF RendererInv, Rendering!Received,
            Rendering!stateVars, Rendering!eosVars, Rendering!pinVars, Rendering!sampleVars,
            Rendering!waitVars
<1>1. Places'
  BY DEF Places, WithSample, InReceive
<1>2. QuietInv'
  BY DEF QuietInv, ReceiveInv, InReceive
<1>3. ReceiveInv'
  BY DEF ReceiveInv, QuietInv, StreamEndInv, WithSample, InReceive
<1>4. StreamEndInv'
  BY DEF StreamEndInv, QuietInv, ReceiveInv, WithSample, InReceive, Rendering!CompletesOnce
<1> QED BY <1>1, <1>2, <1>3, <1>4

LEMMA FirstSampleKeeps == RendererInv /\ Rendering!FirstSample => RendererInv'
<1> SUFFICES ASSUME RendererInv, Rendering!FirstSample PROVE RendererInv'
  OBVIOUS
<1> USE DEF RendererInv, Rendering!FirstSample, Rendering!At,
            Rendering!stateVars, Rendering!eosVars, Rendering!pinVars, Rendering!sampleVars,
            Rendering!waitVars
<1>1. Places'
  BY DEF Places, WithSample, InReceive
<1>2. QuietInv'
  BY DEF QuietInv, ReceiveInv, InReceive
<1>3. ReceiveInv'
  BY DEF ReceiveInv, QuietInv, StreamEndInv, WithSample, InReceive
<1>4. StreamEndInv'
  BY DEF StreamEndInv, QuietInv, ReceiveInv, WithSample, InReceive, Rendering!CompletesOnce
<1> QED BY <1>1, <1>2, <1>3, <1>4

LEMMA WaitEndsKeeps == RendererInv /\ Rendering!WaitEnds => RendererInv'
<1> SUFFICES ASSUME RendererInv, Rendering!WaitEnds PROVE RendererInv'
  OBVIOUS
<1> USE DEF RendererInv, Rendering!WaitEnds, Rendering!At,
            Rendering!stateVars, Rendering!eosVars, Rendering!pinVars, Rendering!sampleVars,
            Rendering!waitVars
<1>1. Places'
  BY DEF Places, WithSample, InReceive
<1>2. QuietInv'
  BY DEF QuietInv, ReceiveInv, InReceive
<1>3. ReceiveInv'
  BY DEF ReceiveInv, QuietInv, StreamEndInv, WithSample, InReceive
<1>4. StreamEndInv'
  BY DEF StreamEndInv, QuietInv, ReceiveInv, WithSample, InReceive, Rendering!CompletesOnce
<1> QED BY <1>1, <1>2, <1>3, <1>4

LEMMA WaitForRenderTimeKeeps == RendererInv /\ Rendering!WaitForRenderTime => RendererInv'
<1> SUFFICES ASSUME RendererInv, Rendering!WaitForRenderTime PROVE RendererInv'
  OBVIOUS
<1> USE DEF RendererInv, Rendering!WaitForRenderTime, Rendering!At,
            Rendering!stateVars, Rendering!eosVars, Rendering!pinVars, Rendering!sampleVars,
            Rendering!waitVars
<1>1. Places'
  BY DEF Places, WithSample, InReceive
<1>2. QuietInv'
  BY DEF QuietInv, ReceiveInv, InReceive
<1>3. ReceiveInv'
  BY DEF ReceiveInv, QuietInv, StreamEndInv, WithSample, InReceive
<1>4. StreamEndInv'
  BY DEF StreamEndInv, QuietInv, ReceiveInv, WithSample, InReceive, Rendering!CompletesOnce
<1> QED BY <1>1, <1>2, <1>3, <1>4

LEMMA SignalTimerFiredKeeps == RendererInv /\ Rendering!SignalTimerFired => RendererInv'
<1> SUFFICES ASSUME RendererInv, Rendering!SignalTimerFired PROVE RendererInv'
  OBVIOUS
<1> USE DEF RendererInv, Rendering!SignalTimerFired, Rendering!At,
            Rendering!stateVars, Rendering!eosVars, Rendering!pinVars, Rendering!sampleVars,
            Rendering!waitVars
<1>1. Places'
  BY DEF Places, WithSample, InReceive
<1>2. QuietInv'
  BY DEF QuietInv, ReceiveInv, InReceive
<1>3. ReceiveInv'
  BY DEF ReceiveInv, QuietInv, StreamEndInv, WithSample, InReceive
<1>4. StreamEndInv'
  BY DEF StreamEndInv, QuietInv, ReceiveInv, WithSample, InReceive, Rendering!CompletesOnce
<1> QED BY <1>1, <1>2, <1>3, <1>4

LEMMA ReportErrorKeeps == RendererInv /\ Rendering!ReportError => RendererInv'
<1> SUFFICES ASSUME RendererInv, Rendering!ReportError PROVE RendererInv'
  OBVIOUS
<1> USE DEF RendererInv, Rendering!ReportError, Rendering!At,
            Rendering!stateVars, Rendering!eosVars, Rendering!pinVars, Rendering!sampleVars,
            Rendering!waitVars
<1>0. UNCHANGED << m_bRunTimeError, Rendering!eosVars >>
  BY DEF ReceiveInv
<1>1. Places'
  BY DEF Places, WithSample, InReceive
<1>2. QuietInv'
  BY <1>0 DEF QuietInv, ReceiveInv, InReceive
<1>3. ReceiveInv'
  BY <1>0 DEF ReceiveInv, QuietInv, StreamEndInv, WithSample, InReceive
<1>4. StreamEndInv'
  BY <1>0 DEF StreamEndInv, QuietInv, ReceiveInv, WithSample, InReceive, Rendering!CompletesOnce
<1> QED BY <1>1, <1>2, <1>3, <1>4

LEMMA TimerFiresKeeps == RendererInv /\ Rendering!TimerFires => RendererInv'
<1> SUFFICES ASSUME RendererInv, Rendering!TimerFires PROVE RendererInv'
  OBVIOUS
<1> USE DEF RendererInv, Rendering!TimerFires,
            Rendering!stateVars, Rendering!eosVars, Rendering!pinVars, Rendering!sampleVars,
            Rendering!waitVars
<1>1. Places'
  BY DEF Places, WithSample, InReceive
<1>2. QuietInv'
  BY DEF QuietInv, ReceiveInv, InReceive
<1>3. ReceiveInv'
  BY DEF ReceiveInv, QuietInv, StreamEndInv, WithSample, InReceive
<1>4. StreamEndInv'
  BY DEF StreamEndInv, QuietInv, ReceiveInv, WithSample, InReceive, Rendering!CompletesOnce
<1> QED BY <1>1, <1>2, <1>3, <1>4

LEMMA DropKeeps ==
    ASSUME RendererInv, NEW begins \in SampleTimes, Rendering!Drop(begins)
    PROVE  RendererInv'
<1> USE DEF RendererInv, Rendering!Drop, Rendering!Accepts, Rendering!Streams,
            Rendering!stateVars, Rendering!eosVars, Rendering!pinVars, Rendering!sampleVars,
            Rendering!waitVars
<1>1. Places'
  BY DEF Places, WithSample, InReceive
<1>2. QuietInv'
  BY DEF QuietInv, ReceiveInv, InReceive
<1>3. ReceiveInv'
  BY DEF ReceiveInv, QuietInv, StreamEndInv, WithSample, InReceive
<1>4. StreamEndInv'
  BY DEF StreamEndInv, QuietInv, ReceiveInv, WithSample, InReceive, Rendering!CompletesOnce
<1> QED BY <1>1, <1>2, <1>3, <1>4

LEMMA PrepareReceiveKeeps ==
    ASSUME RendererInv, NEW begins \in SampleTimes, Rendering!PrepareReceive(begins)
    PROVE  RendererInv'
<1> USE DEF RendererInv, Rendering!PrepareReceive, Rendering!At, Rendering!Accepts, Rendering!Streams,
            Rendering!stateVars, Rendering!eosVars, Rendering!pinVars, Rendering!sampleVars,
            Rendering!waitVars
<1>1. Places'
  BY DEF Places, WithSample, InReceive
<1>2. QuietInv'
  BY DEF QuietInv, ReceiveInv, InReceive
<1>3. ReceiveInv'
  BY DEF ReceiveInv, QuietInv, StreamEndInv, WithSample, InReceive
<1>4. StreamEndInv'
  BY DEF StreamEndInv, QuietInv, ReceiveInv, WithSample, InReceive, Rendering!CompletesOnce
<1> QED BY <1>1, <1>2, <1>3, <1>4

\* The places where the end of the stream may be announced.
LEMMA RenderKeepsEnd == RendererInv /\ Rendering!Render => RendererInv'
<1> SUFFICES ASSUME RendererInv, Rendering!Render PROVE RendererInv'
  OBVIOUS
<1> USE DEF RendererInv, Rendering!Render, Rendering!At, Rendering!CancelNotification,
            Rendering!stateVars, Rendering!eosVars, Rendering!pinVars, Rendering!sampleVars,
            Rendering!waitVars
<1>1. Places'
  BY DEF Places, WithSample, InReceive
<1>2. CASE m_State = "Stopped"
  BY <1>1, <1>2 DEF QuietInv, ReceiveInv, StreamEndInv, WithSample, InReceive, Rendering!CompletesOnce
<1>3. CASE m_State # "Stopped"
  <2>1. /\ completes' = IF m_bEOSDelivered' THEN 1 ELSE 0
        /\ m_bEOSDelivered' => m_bEOSDelivered \/ (m_bEOS /\ m_bStreaming)
        /\ m_EndOfStreamTimer' # 0 => m_EndOfStreamTimer' = m_EndOfStreamTimer \/ m_bEOS
    BY <1>3, SendKeeps DEF StreamEndInv, Rendering!CompletesOnce
  <2>2. m_pMediaSample' = {} /\ m_bEOS' = m_bEOS /\ m_dwAdvise' = 0
    BY <1>3
  <2>3. QuietInv'
    BY <2>2, <1>3 DEF QuietInv, ReceiveInv, InReceive
  <2>4. ReceiveInv'
    BY <2>2 DEF ReceiveInv, WithSample, InReceive
  <2>5. StreamEndInv'
    BY <2>1, <2>2, <1>3 DEF StreamEndInv, Rendering!CompletesOnce
  <2> QED BY <1>1, <2>3, <2>4, <2>5
<1> QED BY <1>2, <1>3

LEMMA EndOfStreamKeeps == RendererInv /\ Rendering!EndOfStream => RendererInv'
<1> SUFFICES ASSUME RendererInv, Rendering!EndOfStream PROVE RendererInv'
  OBVIOUS
<1> USE DEF RendererInv, Rendering!EndOfStream, Rendering!InterfaceLockFree, Rendering!Streams,
            Rendering!stateVars, Rendering!eosVars, Rendering!pinVars, Rendering!sampleVars,
            Rendering!waitVars
<1>1. Places'
  BY DEF Places, WithSample, InReceive
<1>2. CASE ~Rendering!Streams
  BY <1>1, <1>2 DEF QuietInv, ReceiveInv, StreamEndInv, WithSample, InReceive, Rendering!CompletesOnce
<1>3. CASE Rendering!Streams /\ ~(m_bStreaming /\ m_pMediaSample = {})
  BY <1>1, <1>3 DEF QuietInv, ReceiveInv, StreamEndInv, WithSample, InReceive, Rendering!CompletesOnce
<1>4. CASE Rendering!Streams /\ m_bStreaming /\ m_pMediaSample = {}
  <2>1. /\ m_bEOS' = TRUE /\ sourceEnd' = TRUE /\ m_pMediaSample' = {}
        /\ Rendering!SendEndOfStream(TRUE, TRUE, m_bEOSDelivered, m_EndOfStreamTimer, m_tStart, timers)
    BY <1>4
  <2>2. completes' = IF m_bEOSDelivered' THEN 1 ELSE 0
    BY <2>1, SendKeeps DEF StreamEndInv, Rendering!CompletesOnce
  <2>3. QuietInv'
    BY <2>1, <1>4 DEF QuietInv, ReceiveInv, InReceive
  <2>4. ReceiveInv'
    BY <2>1 DEF ReceiveInv, WithSample, InReceive
  <2>5. StreamEndInv'
    BY <2>1, <2>2, <1>4 DEF StreamEndInv, QuietInv, Rendering!CompletesOnce
  <2> QED BY <1>1, <2>3, <2>4, <2>5
<1> QED BY <1>2, <1>3, <1>4

LEMMA RunKeeps == RendererInv /\ Rendering!Run => RendererInv'
<1> SUFFICES ASSUME RendererInv, Rendering!Run PROVE RendererInv'
  OBVIOUS
<1> USE DEF RendererInv, Rendering!Run,
            Rendering!stateVars, Rendering!eosVars, Rendering!pinVars, Rendering!sampleVars,
            Rendering!waitVars
<1>1. /\ app = "idle" /\ ~m_bFlushing /\ m_State = "Paused" /\ m_State' = "Running"
      /\ m_ThreadSignal' = FALSE /\ Rendering!StartStreaming(m_tStart')
  OBVIOUS
<1>2. Places'
  BY DEF Places
<1>3. m_bStreaming' = TRUE
  BY <1>1 DEF Rendering!StartStreaming
<1>4. QuietInv'
  BY <1>1 DEF QuietInv, ReceiveInv, InReceive
<1>5. ReceiveInv'
  BY <1>1 DEF ReceiveInv, QuietInv, WithSample, InReceive
<1>6. CASE UNCHANGED << m_bEOSDelivered, m_EndOfStreamTimer, timers, completes >>
  BY <1>1, <1>2, <1>3, <1>4, <1>5, <1>6 DEF StreamEndInv, Rendering!CompletesOnce
<1>7. CASE /\ m_pMediaSample = {}
           /\ Rendering!SendEndOfStream(m_bEOS, TRUE, m_bEOSDelivered, m_EndOfStreamTimer,
                                        m_tStart', timers)
  <2>1. /\ completes' = IF m_bEOSDelivered' THEN 1 ELSE 0
        /\ m_bEOSDelivered' => m_bEOSDelivered \/ m_bEOS
        /\ m_EndOfStreamTimer' # 0 => m_EndOfStreamTimer' = m_EndOfStreamTimer \/ m_bEOS
    <3>1. completes = IF m_bEOSDelivered THEN 1 ELSE 0
      BY DEF StreamEndInv, Rendering!CompletesOnce
    <3>2. PICK signal : signal = m_tStart' + m_SignalTime
      OBVIOUS
    <3>3. \/ /\ completes' = completes /\ m_bEOSDelivered' = m_bEOSDelivered
             /\ m_EndOfStreamTimer' = m_EndOfStreamTimer
          \/ m_bEOS /\ ~m_bEOSDelivered /\ m_EndOfStreamTimer' = 0
             /\ m_bEOSDelivered' = TRUE /\ completes' = completes + 1
          \/ m_bEOS /\ completes' = completes /\ m_bEOSDelivered' = m_bEOSDelivered
      BY <1>7, <3>2 DEF Rendering!SendEndOfStream, Rendering!NotifyEndOfStream
    <3> HIDE DEF RendererInv, Rendering!Run
    <3> QED BY <3>1, <3>3
  <2>2. StreamEndInv'
    BY <2>1, <1>1, <1>3, <1>7 DEF StreamEndInv, Rendering!CompletesOnce
  <2> QED BY <1>2, <1>4, <1>5, <2>2
<1> QED BY <1>1, <1>6, <1>7 DEF Rendering!StartStreaming

LEMMA TimerCallbackKeeps == RendererInv /\ Rendering!TimerCallback => RendererInv'
<1> SUFFICES ASSUME RendererInv, Rendering!TimerCallback PROVE RendererInv'
  OBVIOUS
<1> USE DEF RendererInv, Rendering!TimerCallback,
            Rendering!stateVars, Rendering!eosVars, Rendering!pinVars, Rendering!sampleVars,
            Rendering!waitVars
<1>1. CASE m_EndOfStreamTimer = 0
  BY <1>1, RendererStays DEF invVars
<1>2. CASE m_EndOfStreamTimer # 0
  <2>1. /\ m_bEOS /\ m_bEOS' = m_bEOS /\ m_pMediaSample = {} /\ m_State # "Stopped"
        /\ Rendering!SendEndOfStream(m_bEOS, m_bStreaming, m_bEOSDelivered, 0, m_tStart, timers)
    BY <1>2 DEF StreamEndInv, QuietInv
  <2>2. /\ completes' = IF m_bEOSDelivered' THEN 1 ELSE 0
        /\ m_bEOSDelivered' => m_bEOSDelivered \/ (m_bEOS /\ m_bStreaming)
    <3>1. completes = IF m_bEOSDelivered THEN 1 ELSE 0
      BY DEF StreamEndInv, Rendering!CompletesOnce
    <3>2. Rendering!SendEndOfStream(m_bEOS, m_bStreaming, m_bEOSDelivered, 0, m_tStart, timers)
      BY <2>1
    <3> HIDE DEF RendererInv, Rendering!TimerCallback
    <3> QED BY <3>1, <3>2, SendKeeps
  <2>3. Places' /\ QuietInv' /\ ReceiveInv'
    BY <2>1 DEF Places, QuietInv, ReceiveInv
  <2>4. StreamEndInv'
    BY <2>1, <2>2 DEF StreamEndInv, Rendering!CompletesOnce
  <2> QED BY <2>3, <2>4
<1> QED BY <1>1, <1>2

LEMMA RendererStep == RendererInv /\ Rendering!Next => RendererInv'
<1> SUFFICES ASSUME RendererInv, Rendering!Next PROVE RendererInv'
  OBVIOUS
<1>1. CASE Rendering!Application
  BY <1>1, StoppedKeeps, FlushWaitedKeeps, FlushResetKeeps DEF Rendering!Application
<1>2. CASE Rendering!Deliver
  BY <1>2, EndOfStreamKeeps, RefuseKeeps, DropKeeps, PrepareReceiveKeeps DEF Rendering!Deliver
<1>3. CASE Rendering!Receive
  BY <1>3, ReceivedKeeps, FirstSampleKeeps, WaitEndsKeeps, WaitForRenderTimeKeeps,
     SignalTimerFiredKeeps, RenderKeepsEnd, ReportErrorKeeps DEF Rendering!Receive
<1>4. CASE Rendering!ClockThread \/ Rendering!TimePasses \/ Rendering!SetClock
  BY <1>4, RendererStays DEF Rendering!ClockThread, Rendering!TimePasses, Rendering!SetClock,
     Rendering!rendererVars, invVars
<1>5. CASE \/ Rendering!Pause \/ Rendering!PauseAgain \/ Rendering!Run \/ Rendering!Stop
           \/ Rendering!BeginFlush \/ Rendering!EndFlush \/ Rendering!OnDisplayChange
           \/ Rendering!TimerFires \/ Rendering!TimerCallback
  BY <1>5, PauseKeeps, PauseAgainKeeps, RunKeeps, StopKeeps, BeginFlushKeeps, EndFlushKeeps,
     OnDisplayChangeKeeps, TimerFiresKeeps, TimerCallbackKeeps
<1> QED BY <1>1, <1>2, <1>3, <1>4, <1>5 DEF Rendering!Next

LEMMA RendererHolds == RendererInv => Rendering!RendererSound
<1> SUFFICES ASSUME RendererInv PROVE Rendering!RendererSound
  OBVIOUS
<1> USE DEF RendererInv
<1>1. Rendering!SampleHasReceiver /\ Rendering!NoRunTimeError
  BY DEF ReceiveInv, WithSample, InReceive, Rendering!SampleHasReceiver, Rendering!NoRunTimeError
<1>2. Rendering!CompletesOnce
  BY DEF StreamEndInv
<1>3. Rendering!StoppedIsQuiet
  BY DEF Places, QuietInv, ReceiveInv, WithSample, InReceive, Rendering!StoppedIsQuiet
<1> QED BY <1>1, <1>2, <1>3 DEF Rendering!RendererSound

-----------------------------------------------------------------------------
(* What the renderers promise. *)

\* In the first part the renderer's invariant holds, in the other that of the
\* video renderer.
TimesInv ==
    /\ part \in {"rendering", "quality"}
    /\ part = "rendering" => RendererInv
    /\ QualityInv

LEMMA TimesStep == TimesInv /\ [RenderingNext]_mcVars => TimesInv'
<1> SUFFICES ASSUME TimesInv, [RenderingNext]_mcVars PROVE TimesInv'
  OBVIOUS
<1>1. part' = part
  BY DEF RenderingNext, mcVars
<1>2. QualityInv'
  BY QualityStep DEF TimesInv
<1>3. ASSUME part = "rendering" PROVE RendererInv'
  <2>1. RendererInv
    BY <1>3 DEF TimesInv
  <2>2. CASE Rendering!Next
    BY <2>1, <2>2, RendererStep
  <2>3. CASE UNCHANGED renderingVars
    BY <2>1, <2>3, RendererStays DEF renderingVars, invVars, Rendering!stateVars, Rendering!eosVars,
       Rendering!pinVars, Rendering!sampleVars, Rendering!waitVars
  <2> QED BY <1>3, <2>2, <2>3, Zenon DEF RenderingNext, mcVars
<1> QED BY <1>1, <1>2, <1>3 DEF TimesInv

LEMMA TimesHold == RenderingSpec => []TimesInv
<1>1. RenderingInit => TimesInv
  BY RendererInit, QualityInit DEF TimesInv, RenderingInit
<1> QED BY <1>1, TimesStep, PTL DEF RenderingSpec

\* For every clock, every time of samples and every client of the clock a sample
\* is held only while its Receive lasts, EC_ERRORABORT and a second EC_COMPLETE
\* are never sent, and Stop leaves nothing; for every length of a frame and every
\* lead, lag and cost of drawing frames are shown in time, and the statistics are
\* possible numbers, the square roots right to a millisecond.
THEOREM RenderersHold == RenderingSpec => []RenderingSound
<1>1. TimesInv => RenderingSound
  BY RendererHolds, QualityHolds DEF TimesInv, RenderingSound
<1> QED BY <1>1, TimesHold, PTL

\* And no frame is dropped without a reason.
THEOREM DropsHaveReasons == RenderingSpec => DropsAreJustified
<1>1. TimesInv => QualityInv
  BY DEF TimesInv
<1> QED BY <1>1, TimesHold, DropsJustified, PTL DEF RenderingSpec, DropsAreJustified

-----------------------------------------------------------------------------
(* Sequences: what inserting and removing leaves. *)

LEMMA LeastExists ==
    ASSUME NEW T, T \subseteq Nat, T # {}
    PROVE  \E x \in T : \A y \in T : x <= y
<1>1. PICK x \in T : \A y \in T : ~(<<y, x>> \in OpToRel(<, Nat))
  <2>1. \E x \in T : \A y \in T : ~(<<y, x>> \in OpToRel(<, Nat))
    BY NatLessThanWellFounded, WFMin
  <2> QED BY <2>1
<1>2. \A y \in T : ~(y < x)
  BY <1>1 DEF OpToRel
<1> QED BY <1>2

LEMMA Concatenated ==
    ASSUME NEW S, NEW s \in Seq(S), NEW t \in Seq(S)
    PROVE  /\ s \o t \in Seq(S)
           /\ Len(s \o t) = Len(s) + Len(t)
           /\ DOMAIN (s \o t) = 1..Len(s) + Len(t)
           /\ \A i \in DOMAIN s : (s \o t)[i] = s[i]
           /\ \A i \in DOMAIN t : (s \o t)[Len(s) + i] = t[i]
<1>1. /\ s \o t \in Seq(S) /\ Len(s \o t) = Len(s) + Len(t)
      /\ \A i \in 1 .. Len(s) + Len(t) : (s \o t)[i] = IF i <= Len(s) THEN s[i] ELSE t[i - Len(s)]
  BY ConcatProperties
<1>2. Len(s) \in Nat /\ Len(t) \in Nat /\ DOMAIN s = 1..Len(s) /\ DOMAIN t = 1..Len(t)
      /\ DOMAIN (s \o t) = 1..Len(s \o t)
  BY <1>1
<1>3. \A i \in DOMAIN s : (s \o t)[i] = s[i]
  BY <1>1, <1>2
<1>4. \A i \in DOMAIN t : (s \o t)[Len(s) + i] = t[i]
  <2> SUFFICES ASSUME NEW i \in 1..Len(t) PROVE (s \o t)[Len(s) + i] = t[i]
    BY <1>2
  <2>1. Len(s) + i \in 1..Len(s) + Len(t) /\ ~(Len(s) + i <= Len(s)) /\ Len(s) + i - Len(s) = i
    BY <1>2
  <2> QED BY <1>1, <2>1
<1> QED BY <1>1, <1>2, <1>3, <1>4

LEMMA PartOf ==
    ASSUME NEW S, NEW s \in Seq(S), NEW m \in Nat, NEW n \in Nat, 1 <= m, m <= n + 1, n <= Len(s)
    PROVE  /\ SubSeq(s, m, n) \in Seq(S)
           /\ Len(SubSeq(s, m, n)) = n - m + 1
           /\ DOMAIN SubSeq(s, m, n) = 1..n - m + 1
           /\ \A i \in m..n : SubSeq(s, m, n)[i - m + 1] = s[i]
<1>1. Len(s) \in Nat /\ DOMAIN s = 1..Len(s)
  OBVIOUS
<1>2. \A i \in m..n : s[i] \in S
  BY <1>1
<1>3. /\ SubSeq(s, m, n) \in Seq(S) /\ Len(SubSeq(s, m, n)) = IF m <= n THEN n - m + 1 ELSE 0
      /\ \A i \in 1..n - m + 1 : SubSeq(s, m, n)[i] = s[m + i - 1]
  BY <1>2, SubSeqProperties
<1>4. Len(SubSeq(s, m, n)) = n - m + 1
  BY <1>3
<1>5. DOMAIN SubSeq(s, m, n) = 1..n - m + 1
  BY <1>3, <1>4
<1>6. ASSUME NEW i \in m..n
      PROVE  SubSeq(s, m, n)[i - m + 1] = s[i]
  <2>1. i - m + 1 \in 1..n - m + 1 /\ m + (i - m + 1) - 1 = i
    OBVIOUS
  <2>2. SubSeq(s, m, n)[i - m + 1] = s[m + (i - m + 1) - 1]
    BY <1>3, <2>1
  <2> QED BY <2>1, <2>2
<1> QED BY <1>3, <1>4, <1>5, <1>6

LEMMA InsertionIs ==
    ASSUME NEW list, NEW j, NEW c
    PROVE  Rendering!InsertAt(list, j, c) = (SubSeq(list, 1, j - 1) \o <<c>>) \o SubSeq(list, j, Len(list))
BY DEF Rendering!InsertAt

\* r is list with c between its first k elements and the others.
WithOne(r, list, k, c) ==
    /\ DOMAIN r = 1..Len(list) + 1
    /\ r[k + 1] = c
    /\ \A i \in 1..k : r[i] = list[i]
    /\ \A i \in k + 1..Len(list) : r[i + 1] = list[i]

LEMMA Inserted ==
    ASSUME NEW S, NEW list \in Seq(S), NEW c \in S, NEW k \in 0..Len(list), NEW j, j = k + 1,
           NEW r, r = Rendering!InsertAt(list, j, c)
    PROVE  r \in Seq(S) /\ WithOne(r, list, k, c)
<1>1. Len(list) \in Nat /\ k \in Nat /\ k <= Len(list) /\ DOMAIN list = 1..Len(list)
  OBVIOUS
<1>2. PICK a : a = SubSeq(list, 1, k)
  OBVIOUS
<1>3. PICK b : b = SubSeq(list, k + 1, Len(list))
  OBVIOUS
<1>4. a \in Seq(S) /\ Len(a) = k /\ DOMAIN a = 1..k /\ \A i \in 1..k : a[i] = list[i]
  <2>1. /\ a \in Seq(S) /\ Len(a) = k - 1 + 1 /\ DOMAIN a = 1..k - 1 + 1
        /\ \A i \in 1..k : a[i - 1 + 1] = list[i]
    BY <1>1, <1>2, PartOf
  <2>2. k - 1 + 1 = k /\ \A i \in 1..k : i - 1 + 1 = i
    BY <1>1
  <2>3. ASSUME NEW i \in 1..k PROVE a[i] = list[i]
    <3>1. a[i - 1 + 1] = list[i] /\ i - 1 + 1 = i
      BY <2>1, <2>2
    <3> QED BY <3>1
  <2> QED BY <2>1, <2>2, <2>3
<1>5. /\ b \in Seq(S) /\ Len(b) = Len(list) - k /\ DOMAIN b = 1..Len(list) - k
      /\ \A i \in k + 1..Len(list) : b[i - k] = list[i]
  <2>1. /\ b \in Seq(S) /\ Len(b) = Len(list) - (k + 1) + 1 /\ DOMAIN b = 1..Len(list) - (k + 1) + 1
        /\ \A i \in k + 1..Len(list) : b[i - (k + 1) + 1] = list[i]
    <3>1. PICK m \in Nat : m = k + 1
      BY <1>1
    <3>2. 1 <= m /\ m <= Len(list) + 1 /\ b = SubSeq(list, m, Len(list))
      BY <1>1, <1>3, <3>1
    <3>3. /\ b \in Seq(S) /\ Len(b) = Len(list) - m + 1 /\ DOMAIN b = 1..Len(list) - m + 1
          /\ \A i \in m..Len(list) : b[i - m + 1] = list[i]
      BY <1>1, <3>2, PartOf
    <3> QED BY <3>1, <3>3
  <2>2. Len(list) - (k + 1) + 1 = Len(list) - k /\ \A i \in k + 1..Len(list) : i - (k + 1) + 1 = i - k
    BY <1>1
  <2>3. ASSUME NEW i \in k + 1..Len(list) PROVE b[i - k] = list[i]
    <3>1. b[i - (k + 1) + 1] = list[i] /\ i - (k + 1) + 1 = i - k
      BY <2>1, <2>2
    <3> QED BY <3>1
  <2> QED BY <2>1, <2>2, <2>3
<1>6. <<c>> \in Seq(S) /\ Len(<<c>>) = 1 /\ <<c>>[1] = c /\ DOMAIN <<c>> = {1}
  OBVIOUS
<1>7. PICK u : u = a \o <<c>>
  OBVIOUS
<1>8. /\ u \in Seq(S) /\ Len(u) = k + 1 /\ DOMAIN u = 1..k + 1
      /\ u[k + 1] = c /\ \A i \in 1..k : u[i] = list[i]
  <2>1. PICK one : one = <<c>>
    OBVIOUS
  <2>2. a \in Seq(S) /\ one \in Seq(S)
    BY <1>4, <1>6, <2>1
  <2>3. /\ a \o one \in Seq(S) /\ Len(a \o one) = Len(a) + Len(one)
        /\ DOMAIN (a \o one) = 1..Len(a) + Len(one)
        /\ \A i \in DOMAIN a : (a \o one)[i] = a[i]
        /\ \A i \in DOMAIN one : (a \o one)[Len(a) + i] = one[i]
    BY <2>2, Concatenated
  <2>4. u = a \o one /\ Len(one) = 1 /\ 1 \in DOMAIN one /\ one[1] = c
    BY <1>6, <1>7, <2>1
  <2> QED BY <1>1, <1>4, <2>3, <2>4
<1>9. r = u \o b
  <2>1. k + 1 - 1 = k
    BY <1>1
  <2>3. Rendering!InsertAt(list, j, c) = (SubSeq(list, 1, j - 1) \o <<c>>) \o SubSeq(list, j, Len(list))
    BY InsertionIs
  <2>4. j - 1 = k
    BY <2>1
  <2> QED BY <1>2, <1>3, <1>7, <2>3, <2>4
<1>10. /\ u \o b \in Seq(S) /\ DOMAIN (u \o b) = 1..Len(u) + Len(b)
       /\ \A i \in DOMAIN u : (u \o b)[i] = u[i]
       /\ \A i \in DOMAIN b : (u \o b)[Len(u) + i] = b[i]
  <2>1. u \in Seq(S) /\ b \in Seq(S)
    BY <1>5, <1>8
  <2> QED BY <2>1, Concatenated
<1>11. Len(u) + Len(b) = Len(list) + 1 /\ k + 1 \in 1..k + 1 /\ \A i \in 1..k : i \in 1..k + 1
  <2>1. Len(u) = k + 1 /\ Len(b) = Len(list) - k
    BY <1>5, <1>8
  <2> QED BY <1>1, <2>1
<1>12. ASSUME NEW i \in k + 1..Len(list)
       PROVE  r[i + 1] = list[i]
  <2>1. i - k \in 1..Len(list) - k /\ Len(u) + (i - k) = i + 1
    BY <1>1, <1>8
  <2>2. (u \o b)[Len(u) + (i - k)] = b[i - k] /\ b[i - k] = list[i]
    BY <1>5, <1>10, <2>1
  <2> QED BY <1>9, <2>1, <2>2
<1>13. DOMAIN r = 1..Len(list) + 1 /\ r[k + 1] = c /\ \A i \in 1..k : r[i] = list[i]
  BY <1>8, <1>9, <1>10, <1>11
<1> QED BY <1>9, <1>10, <1>12, <1>13 DEF WithOne

LEMMA Removed ==
    ASSUME NEW S, NEW list \in Seq(S), NEW k \in 1..Len(list), NEW r, r = Rendering!RemoveAt(list, k)
    PROVE  /\ r \in Seq(S)
           /\ DOMAIN r = 1..Len(list) - 1
           /\ \A i \in 1..k - 1 : r[i] = list[i]
           /\ \A i \in k + 1..Len(list) : r[i - 1] = list[i]
<1>1. Len(list) \in Nat /\ k \in Nat /\ 1 <= k /\ k <= Len(list) /\ DOMAIN list = 1..Len(list)
      /\ k - 1 \in Nat
  OBVIOUS
<1>2. PICK a : a = SubSeq(list, 1, k - 1)
  OBVIOUS
<1>3. PICK b : b = SubSeq(list, k + 1, Len(list))
  OBVIOUS
<1>4. a \in Seq(S) /\ Len(a) = k - 1 /\ DOMAIN a = 1..k - 1 /\ \A i \in 1..k - 1 : a[i] = list[i]
  <2>1. /\ a \in Seq(S) /\ Len(a) = (k - 1) - 1 + 1 /\ DOMAIN a = 1..(k - 1) - 1 + 1
        /\ \A i \in 1..k - 1 : a[i - 1 + 1] = list[i]
    BY <1>1, <1>2, PartOf
  <2>2. (k - 1) - 1 + 1 = k - 1 /\ \A i \in 1..k - 1 : i - 1 + 1 = i
    BY <1>1
  <2>3. ASSUME NEW i \in 1..k - 1 PROVE a[i] = list[i]
    <3>1. a[i - 1 + 1] = list[i] /\ i - 1 + 1 = i
      BY <2>1, <2>2
    <3> QED BY <3>1
  <2> QED BY <2>1, <2>2, <2>3
<1>5. /\ b \in Seq(S) /\ Len(b) = Len(list) - k /\ DOMAIN b = 1..Len(list) - k
      /\ \A i \in k + 1..Len(list) : b[i - k] = list[i]
  <2>1. /\ b \in Seq(S) /\ Len(b) = Len(list) - (k + 1) + 1 /\ DOMAIN b = 1..Len(list) - (k + 1) + 1
        /\ \A i \in k + 1..Len(list) : b[i - (k + 1) + 1] = list[i]
    <3>1. PICK m \in Nat : m = k + 1
      BY <1>1
    <3>2. 1 <= m /\ m <= Len(list) + 1 /\ b = SubSeq(list, m, Len(list))
      BY <1>1, <1>3, <3>1
    <3>3. /\ b \in Seq(S) /\ Len(b) = Len(list) - m + 1 /\ DOMAIN b = 1..Len(list) - m + 1
          /\ \A i \in m..Len(list) : b[i - m + 1] = list[i]
      BY <1>1, <3>2, PartOf
    <3> QED BY <3>1, <3>3
  <2>2. Len(list) - (k + 1) + 1 = Len(list) - k /\ \A i \in k + 1..Len(list) : i - (k + 1) + 1 = i - k
    BY <1>1
  <2>3. ASSUME NEW i \in k + 1..Len(list) PROVE b[i - k] = list[i]
    <3>1. b[i - (k + 1) + 1] = list[i] /\ i - (k + 1) + 1 = i - k
      BY <2>1, <2>2
    <3> QED BY <3>1
  <2> QED BY <2>1, <2>2, <2>3
<1>6. r = a \o b
  BY <1>2, <1>3 DEF Rendering!RemoveAt
<1>7. /\ a \o b \in Seq(S) /\ DOMAIN (a \o b) = 1..Len(a) + Len(b)
      /\ \A i \in DOMAIN a : (a \o b)[i] = a[i]
      /\ \A i \in DOMAIN b : (a \o b)[Len(a) + i] = b[i]
  <2>1. a \in Seq(S) /\ b \in Seq(S)
    BY <1>4, <1>5
  <2> QED BY <2>1, Concatenated
<1>8. Len(a) + Len(b) = Len(list) - 1
  BY <1>1, <1>4, <1>5
<1>9. ASSUME NEW i \in k + 1..Len(list)
      PROVE  r[i - 1] = list[i]
  <2>1. i - k \in 1..Len(list) - k /\ Len(a) + (i - k) = i - 1
    BY <1>1, <1>4
  <2>2. (a \o b)[Len(a) + (i - k)] = b[i - k] /\ b[i - k] = list[i]
    BY <1>5, <1>7, <2>1
  <2> QED BY <1>6, <2>1, <2>2
<1> QED BY <1>4, <1>6, <1>7, <1>8, <1>9

-----------------------------------------------------------------------------
(* The list of advises and the sleep of the clock's thread. *)

InOrder(s) == \A i, j \in DOMAIN s : i < j => s[i].time <= s[j].time

LEMMA PacketTyped ==
    ASSUME NEW p \in Rendering!Packet
    PROVE  p.time \in Nat /\ p.time > 0 /\ p.period \in Nat /\ p.client \in Clients
<1>1. p.time \in Nat \ {0} /\ p.period \in Nat /\ p.client \in Clients
  BY DEF Rendering!Packet
<1> QED BY <1>1

LEMMA ListTyped ==
    ASSUME NEW s \in Seq(Rendering!Packet)
    PROVE  /\ Len(s) \in Nat /\ DOMAIN s = 1..Len(s)
           /\ \A i \in 1..Len(s) : s[i] \in Rendering!Packet /\ s[i].time \in Int
<1>1. Len(s) \in Nat /\ DOMAIN s = 1..Len(s)
  OBVIOUS
<1>2. ASSUME NEW i \in 1..Len(s) PROVE s[i] \in Rendering!Packet /\ s[i].time \in Int
  <2>1. s[i] \in Rendering!Packet
    BY ElementOfSeq
  <2> QED BY <2>1, PacketTyped
<1> QED BY <1>1, <1>2

LEMMA PlaceExists ==
    ASSUME NEW s \in Seq(Rendering!Packet), NEW time \in Int
    PROVE  \E n \in 0..Len(s) : Rendering!Place(s, time, n)
<1> DEFINE T == { i \in 1..Len(s) : s[i].time >= time }
<1>1. Len(s) \in Nat /\ \A i \in 1..Len(s) : s[i].time \in Int
  BY ListTyped
<1>2. CASE T = {}
  <2>1. \A i \in 1..Len(s) : s[i].time < time
    BY <1>1, <1>2
  <2> QED BY <1>1, <2>1 DEF Rendering!Place
<1>3. CASE T # {}
  <2> HIDE DEF T
  <2>1. T \subseteq Nat
    BY <1>1 DEF T
  <2>4. PICK m \in T : \A i \in T : m <= i
    BY <1>3, <2>1, LeastExists
  <2>2. m \in 1..Len(s) /\ s[m].time >= time /\ \A i \in 1..m - 1 : s[i].time < time
    BY <1>1, <2>4 DEF T
  <2>3. m - 1 \in 0..Len(s) /\ m - 1 + 1 = m
    BY <1>1, <2>2
  <2> QED BY <2>2, <2>3 DEF Rendering!Place
<1> QED BY <1>2, <1>3

\* A packet that is put before the first of its time or later, or of a later time,
\* leaves the list in order.
LEMMA PutKeeps ==
    ASSUME NEW s \in Seq(Rendering!Packet), NEW p \in Rendering!Packet, InOrder(s),
           NEW time \in {p.time, p.time + 1}, NEW r, r = Rendering!PutBefore(s, p, time)
    PROVE  /\ r \in Seq(Rendering!Packet) /\ InOrder(r)
           /\ \E n \in 0..Len(s) : WithOne(r, s, n, p) /\ Rendering!Place(s, time, n)
<1>1. /\ Len(s) \in Nat /\ DOMAIN s = 1..Len(s) /\ \A i \in 1..Len(s) : s[i].time \in Int
      /\ p.time \in Int /\ time \in Int
  BY ListTyped, PacketTyped
<1>2. PICK n : n = CHOOSE k \in 0..Len(s) : Rendering!Place(s, time, k)
  OBVIOUS
<1>3. n \in 0..Len(s) /\ Rendering!Place(s, time, n)
  BY <1>1, <1>2, PlaceExists
<1>4. r = Rendering!InsertAt(s, 1 + n, p) /\ 1 + n = n + 1
  BY <1>1, <1>2, <1>3 DEF Rendering!PutBefore
<1>5. r \in Seq(Rendering!Packet) /\ WithOne(r, s, n, p)
  BY <1>3, <1>4, Inserted
<1>6. InOrder(r)
  <2> SUFFICES ASSUME NEW i \in 1..Len(s) + 1, NEW j \in 1..Len(s) + 1, i < j
               PROVE  r[i].time <= r[j].time
    BY <1>5 DEF WithOne, InOrder
  <2>1. \A k \in 1..n : r[k] = s[k] /\ s[k].time < time
    BY <1>3, <1>5 DEF WithOne, Rendering!Place
  <2>2. r[n + 1] = p
    BY <1>5 DEF WithOne
  <2>3. ASSUME NEW k \in n + 1..Len(s) PROVE r[k + 1] = s[k] /\ s[k].time >= time
    <3>1. r[k + 1] = s[k]
      BY <1>5 DEF WithOne
    <3>2. n + 1 \in DOMAIN s /\ k \in DOMAIN s /\ s[n + 1].time >= time
      BY <1>1, <1>3 DEF Rendering!Place
    <3>3. s[n + 1].time <= s[k].time
      BY <1>1, <3>2 DEF InOrder
    <3> QED BY <1>1, <3>1, <3>2, <3>3
  <2>4. CASE j <= n
    BY <1>1, <1>3, <2>1, <2>4 DEF InOrder
  <2>5. CASE j = n + 1
    BY <1>1, <1>3, <2>1, <2>2, <2>5
  <2>6. CASE n + 1 < j
    <3>1. j - 1 \in n + 1..Len(s) /\ j - 1 + 1 = j
      BY <1>1, <1>3, <2>6
    <3>2. r[j] = s[j - 1] /\ s[j - 1].time >= time
      BY <2>3, <3>1
    <3>3. CASE i <= n
      BY <1>1, <1>3, <2>1, <3>1, <3>2, <3>3
    <3>4. CASE i = n + 1
      BY <1>1, <1>3, <2>2, <3>1, <3>2, <3>4
    <3>5. CASE n + 1 < i
      <4>1. i - 1 \in n + 1..Len(s) /\ i - 1 + 1 = i /\ i - 1 < j - 1
        BY <1>1, <1>3, <3>5
      <4>2. r[i] = s[i - 1]
        BY <2>3, <4>1
      <4>4. i - 1 \in DOMAIN s /\ j - 1 \in DOMAIN s
        BY <1>1, <1>3, <3>1, <4>1
      <4>3. s[i - 1].time <= s[j - 1].time
        BY <4>1, <4>4 DEF InOrder
      <4> QED BY <3>2, <4>2, <4>3
    <3> QED BY <1>3, <3>3, <3>4, <3>5
  <2> QED BY <1>3, <2>4, <2>5, <2>6
<1> QED BY <1>3, <1>5, <1>6

\* Each advise of the smaller list was in the larger one.
LEMMA WithoutKeeps ==
    ASSUME NEW s \in Seq(Rendering!Packet), InOrder(s), NEW cookie,
           NEW r, r = Rendering!Without(s, cookie)
    PROVE  /\ r \in Seq(Rendering!Packet) /\ InOrder(r)
           /\ \A i \in DOMAIN r : \E j \in DOMAIN s : r[i] = s[j]
<1>1. Len(s) \in Nat /\ DOMAIN s = 1..Len(s) /\ \A i \in 1..Len(s) : s[i].time \in Int
  BY ListTyped
<1>2. CASE cookie \notin Rendering!Cookies(s)
  BY <1>2 DEF Rendering!Without
<1>3. CASE cookie \in Rendering!Cookies(s)
  <2>1. PICK k : k = CHOOSE i \in DOMAIN s : s[i].cookie = cookie
    OBVIOUS
  <2>2. k \in 1..Len(s) /\ r = Rendering!RemoveAt(s, k)
    BY <1>1, <1>3, <2>1 DEF Rendering!Without, Rendering!Cookies
  <2>3. /\ r \in Seq(Rendering!Packet)
        /\ DOMAIN r = 1..Len(s) - 1
        /\ \A i \in 1..k - 1 : r[i] = s[i]
        /\ \A i \in k + 1..Len(s) : r[i - 1] = s[i]
    BY <2>2, Removed
  <2>4. ASSUME NEW i \in DOMAIN r
        PROVE  \/ i < k /\ i \in DOMAIN s /\ r[i] = s[i]
               \/ k <= i /\ i + 1 \in DOMAIN s /\ r[i] = s[i + 1]
    <3>1. CASE i < k
      BY <1>1, <2>2, <2>3, <3>1
    <3>2. CASE k <= i
      <4>1. i + 1 \in k + 1..Len(s) /\ i + 1 - 1 = i
        BY <1>1, <2>2, <2>3, <3>2
      <4> QED BY <1>1, <2>2, <2>3, <3>2, <4>1
    <3> QED BY <1>1, <2>2, <2>3, <3>1, <3>2
  <2>5. InOrder(r)
    <3> SUFFICES ASSUME NEW i \in DOMAIN r, NEW j \in DOMAIN r, i < j
                 PROVE  r[i].time <= r[j].time
      BY DEF InOrder
    <3>1. i \in Int /\ j \in Int /\ k \in Int
      BY <1>1, <2>2, <2>3
    <3>2. PICK a \in DOMAIN s : r[i] = s[a] /\ ((a = i /\ i < k) \/ (a = i + 1 /\ k <= i))
      BY <2>4
    <3>3. PICK b \in DOMAIN s : r[j] = s[b] /\ ((b = j /\ j < k) \/ (b = j + 1 /\ k <= j))
      BY <2>4
    <3>4. a < b
      BY <3>1, <3>2, <3>3
    <3> QED BY <3>2, <3>3, <3>4 DEF InOrder
  <2> QED BY <2>3, <2>4, <2>5
<1> QED BY <1>2, <1>3

\* What is known of the clock: while its thread is awake no time passes, and its
\* sleep is counted down to zero.
ClockTyped ==
    /\ now \in Nat /\ rtNow \in Nat /\ wait \in Int /\ m_ev \in BOOLEAN
    /\ clock \in {"wait", "woken", "advising"}
    /\ clock # "wait" => rtNow = now
    /\ wait = Rendering!Forever \/ wait >= 0
    /\ schedule \in Seq(Rendering!Packet)

SampleTyped == m_tStart \in Int /\ m_pMediaSample \subseteq Int

AdviseInv == ClockTyped /\ SampleTyped /\ Rendering!WakesInTime

LEMMA RendererConstants ==
    /\ SampleTimes \subseteq Int /\ RenderEvent \in Clients /\ Other \in Clients
    /\ Period \in Nat /\ Period > 0 /\ OtherTimes \subseteq Nat \ {0}
    /\ MaxCookie \in Nat /\ MaxCookie > 0 /\ MaxNow \in Nat
BY RenderingAssumption DEF Rendering!ScheduleAssumption, Rendering!RendererAssumption

LEMMA AdviseInit == RenderingInit => AdviseInv
<1> SUFFICES ASSUME RenderingInit PROVE AdviseInv
  OBVIOUS
<1>1. /\ now = 1 /\ clock = "wait" /\ rtNow = 0 /\ wait = Rendering!Forever
      /\ schedule \in { << >> } \cup { << [cookie |-> 1, time |-> t, period |-> Period,
                                           client |-> Other] >> : t \in OtherTimes }
      /\ m_ev = (schedule # << >>)
      /\ m_tStart = 0 /\ m_pMediaSample = {}
  BY DEF RenderingInit, Rendering!Init, Rendering!ClockInit
<1>2. CASE schedule = << >>
  <2>1. schedule \in Seq(Rendering!Packet) /\ DOMAIN schedule = {}
    BY <1>2
  <2>2. m_ev = FALSE
    BY <1>1, <1>2
  <2> QED BY <1>1, <2>1, <2>2 DEF AdviseInv, ClockTyped, SampleTyped, Rendering!WakesInTime,
                     Rendering!Ordered, Rendering!Forever
<1>3. CASE \E t \in OtherTimes : schedule = << [cookie |-> 1, time |-> t, period |-> Period,
                                                client |-> Other] >>
  <2>1. PICK t \in OtherTimes : schedule = << [cookie |-> 1, time |-> t, period |-> Period,
                                               client |-> Other] >>
    BY <1>3
  <2>2. PICK p : p = [cookie |-> 1, time |-> t, period |-> Period, client |-> Other]
    OBVIOUS
  <2>3. p \in Rendering!Packet
    BY <2>2, RendererConstants DEF Rendering!Packet
  <2>4. schedule = << p >>
    BY <2>1, <2>2
  <2>5. schedule \in Seq(Rendering!Packet) /\ DOMAIN schedule = {1} /\ schedule # << >>
        /\ p.time \in Int /\ schedule[1] = p
    BY <2>3, <2>4, PacketTyped
  <2>6. m_ev = TRUE
    BY <1>1, <2>5
  <2> QED BY <1>1, <2>5, <2>6 DEF AdviseInv, ClockTyped, SampleTyped, Rendering!WakesInTime,
                     Rendering!Ordered, Rendering!Forever
<1> QED BY <1>1, <1>2, <1>3

-----------------------------------------------------------------------------
(* The clock's thread and the time. *)

LEMMA WakeKeeps ==
    ASSUME AdviseInv, Rendering!Wake, UNCHANGED << m_tStart, m_pMediaSample >> PROVE AdviseInv'
BY DEF AdviseInv, ClockTyped, SampleTyped, Rendering!Wake, Rendering!WakesInTime, Rendering!Ordered

LEMMA AdviseKeeps ==
    ASSUME AdviseInv, Rendering!Advise, UNCHANGED << m_tStart, m_pMediaSample >> PROVE AdviseInv'
<1>1. schedule \in Seq(Rendering!Packet) /\ InOrder(schedule) /\ schedule # << >>
  BY DEF AdviseInv, ClockTyped, Rendering!WakesInTime, Rendering!Ordered, InOrder,
         Rendering!Advise, Rendering!IsDue
<1>2. PICK p : p = Head(schedule)
  OBVIOUS
<1>3. PICK rest : rest = Tail(schedule)
  OBVIOUS
<1>4. /\ p \in Rendering!Packet /\ rest \in Seq(Rendering!Packet)
      /\ DOMAIN rest = 1..Len(schedule) - 1 /\ \A i \in DOMAIN rest : rest[i] = schedule[i + 1]
  BY <1>1, <1>2, <1>3
<1>5. InOrder(rest)
  <2>1. Len(schedule) \in Nat /\ DOMAIN schedule = 1..Len(schedule)
    BY <1>1
  <2> SUFFICES ASSUME NEW i \in DOMAIN rest, NEW j \in DOMAIN rest, i < j
               PROVE  rest[i].time <= rest[j].time
    BY DEF InOrder
  <2>2. i + 1 \in DOMAIN schedule /\ j + 1 \in DOMAIN schedule /\ i + 1 < j + 1
    BY <1>4, <2>1
  <2> QED BY <1>1, <1>4, <2>2 DEF InOrder
<1>6. schedule' \in Seq(Rendering!Packet) /\ InOrder(schedule)'
  <2>1. CASE ~(p.period > 0)
    <3>1. schedule' = rest
      BY <1>2, <1>3, <2>1 DEF Rendering!Advise
    <3> QED BY <1>4, <1>5, <3>1 DEF InOrder
  <2>2. CASE p.period > 0
    <3>1. PICK q : q = Rendering!Shunted(p)
      OBVIOUS
    <3>2. q \in Rendering!Packet
      <4>1. p.time + p.period \in Nat \ {0}
        BY <1>4, PacketTyped
      <4> QED BY <1>4, <3>1, <4>1 DEF Rendering!Shunted, Rendering!Packet
    <3>3. schedule' = Rendering!PutBefore(rest, q, q.time + 1)
      BY <1>2, <1>3, <2>2, <3>1 DEF Rendering!Advise
    <3>4. q.time + 1 \in {q.time, q.time + 1}
      OBVIOUS
    <3>5. schedule' \in Seq(Rendering!Packet) /\ InOrder(schedule')
      BY <1>4, <1>5, <3>2, <3>3, <3>4, PutKeeps
    <3> QED BY <3>5 DEF InOrder
  <2> QED BY <2>1, <2>2
<1> QED BY <1>6 DEF AdviseInv, ClockTyped, SampleTyped, Rendering!Advise, Rendering!WakesInTime,
           Rendering!Ordered, InOrder

\* When nothing is due any more the thread sleeps to the first advise.
LEMMA SleepKeeps ==
    ASSUME AdviseInv, Rendering!AdviseThread, UNCHANGED << m_tStart, m_pMediaSample >>
    PROVE  AdviseInv'
<1>1. /\ schedule \in Seq(Rendering!Packet) /\ Rendering!Ordered /\ ~Rendering!IsDue
      /\ schedule' = schedule /\ now' = now /\ rtNow' = 0 /\ m_ev' = m_ev /\ clock' = "wait"
      /\ rtNow = now /\ now \in Nat /\ m_ev \in BOOLEAN
      /\ wait' = IF schedule = << >> THEN Rendering!Forever ELSE Head(schedule).time - rtNow
  BY DEF AdviseInv, ClockTyped, Rendering!WakesInTime, Rendering!AdviseThread
<1>2. CASE schedule = << >>
  BY <1>1, <1>2 DEF AdviseInv, ClockTyped, SampleTyped, Rendering!WakesInTime, Rendering!Ordered,
                    Rendering!Forever
<1>3. CASE schedule # << >>
  <2>1. /\ Len(schedule) \in Nat /\ DOMAIN schedule = 1..Len(schedule) /\ 1 \in DOMAIN schedule
        /\ Head(schedule) = schedule[1]
        /\ \A i \in DOMAIN schedule : schedule[i].time \in Int
    BY <1>1, <1>3, ListTyped
  <2>2. schedule[1].time > rtNow + 1
    BY <1>1, <1>3, <2>1 DEF Rendering!IsDue
  <2>3. \A i \in DOMAIN schedule : schedule[1].time <= schedule[i].time
    BY <1>1, <2>1 DEF Rendering!Ordered
  <2>4. wait' = schedule[1].time - now /\ wait' \in Int /\ wait' >= 0
    BY <1>1, <1>3, <2>1, <2>2
  <2>5. \A i \in DOMAIN schedule : wait' # -1 /\ wait' <= schedule[i].time - now
    BY <1>1, <2>1, <2>3, <2>4
  <2> QED BY <1>1, <2>4, <2>5 DEF AdviseInv, ClockTyped, SampleTyped, Rendering!WakesInTime,
             Rendering!Ordered, Rendering!Forever
<1> QED BY <1>2, <1>3

LEMMA TickKeeps ==
    ASSUME AdviseInv, Rendering!Tick, UNCHANGED << m_tStart, m_pMediaSample >> PROVE AdviseInv'
<1>1. /\ schedule \in Seq(Rendering!Packet) /\ schedule' = schedule /\ Rendering!Ordered
      /\ now \in Nat /\ now' = now + 1 /\ wait \in Int /\ (wait = -1 \/ wait > 0)
      /\ wait' = IF wait = -1 THEN -1 ELSE wait - 1
      /\ \A i \in DOMAIN schedule : wait # -1 /\ wait <= schedule[i].time - now
  BY DEF AdviseInv, ClockTyped, Rendering!WakesInTime, Rendering!Tick, Rendering!Forever
<1>2. \A i \in DOMAIN schedule : schedule[i].time \in Int
  BY <1>1, ListTyped
<1>3. \A i \in DOMAIN schedule' : wait' # -1 /\ wait' <= schedule'[i].time - now'
  BY <1>1, <1>2
<1>4. now' \in Nat /\ wait' \in Int /\ (wait' = -1 \/ wait' >= 0)
  BY <1>1
<1>5. /\ rtNow' = rtNow /\ m_ev' = m_ev /\ clock = "wait" /\ clock' = "wait"
      /\ rtNow \in Nat /\ m_ev \in BOOLEAN
  BY DEF AdviseInv, ClockTyped, Rendering!Tick
<1> QED BY <1>1, <1>3, <1>4, <1>5 DEF AdviseInv, ClockTyped, SampleTyped, Rendering!WakesInTime,
           Rendering!Ordered, Rendering!Forever

LEMMA SetTimeDeltaKeeps ==
    ASSUME AdviseInv, Rendering!SetTimeDelta, UNCHANGED << m_tStart, m_pMediaSample >>
    PROVE  AdviseInv'
BY DEF AdviseInv, ClockTyped, SampleTyped, Rendering!SetTimeDelta, Rendering!WakesInTime,
       Rendering!Ordered

-----------------------------------------------------------------------------
(* What the renderer does to the list of advises. *)

\* A new advise that is not the first is due no earlier than the first, and one that
\* is the first wakes the thread.
LEMMA AddKeeps ==
    ASSUME AdviseInv, SampleTyped', NEW p \in Rendering!Packet, Rendering!AddAdvisePacket(p),
           Rendering!Fixed
    PROVE  AdviseInv'
<1>1. /\ schedule \in Seq(Rendering!Packet) /\ InOrder(schedule)
      /\ schedule' = Rendering!PutBefore(schedule, p, p.time)
      /\ m_ev' = (m_ev \/ Head(schedule') = p)
  BY DEF AdviseInv, ClockTyped, Rendering!WakesInTime, Rendering!Ordered, InOrder,
         Rendering!AddAdvisePacket
<1>2. p.time \in {p.time, p.time + 1}
  OBVIOUS
<1>3. PICK n \in 0..Len(schedule) :
        /\ schedule' \in Seq(Rendering!Packet) /\ InOrder(schedule')
        /\ WithOne(schedule', schedule, n, p) /\ Rendering!Place(schedule, p.time, n)
  BY <1>1, <1>2, PutKeeps
<1>4. /\ Len(schedule) \in Nat /\ DOMAIN schedule = 1..Len(schedule) /\ p.time \in Int
      /\ \A i \in DOMAIN schedule : schedule[i].time \in Int
      /\ DOMAIN schedule' = 1..Len(schedule) + 1
  BY <1>1, <1>3, ListTyped, PacketTyped DEF WithOne
<1>5. /\ now' = now /\ clock' = clock /\ rtNow' = rtNow /\ wait' = wait /\ now \in Nat /\ wait \in Int
      /\ m_ev \in BOOLEAN
  BY DEF Rendering!Fixed, AdviseInv, ClockTyped
<1>6. ASSUME clock = "wait", ~m_ev', NEW i \in DOMAIN schedule'
      PROVE  wait # Rendering!Forever /\ wait <= schedule'[i].time - now
  <2>1. \A j \in DOMAIN schedule : wait # Rendering!Forever /\ wait <= schedule[j].time - now
    BY <1>1, <1>6 DEF AdviseInv, Rendering!WakesInTime
  <2>2. n # 0
    <3> SUFFICES ASSUME n = 0 PROVE FALSE
      OBVIOUS
    <3>1. schedule'[1] = p
      BY <1>3 DEF WithOne
    <3>2. Head(schedule') = schedule'[1]
      BY <1>3, <1>4
    <3> QED BY <1>1, <1>6, <3>1, <3>2
  <2>3. 1 \in DOMAIN schedule /\ schedule[1].time < p.time
    BY <1>3, <1>4, <2>2 DEF Rendering!Place
  <2>4. CASE i <= n
    <3>1. i \in DOMAIN schedule /\ schedule'[i] = schedule[i]
      BY <1>3, <1>4, <2>4 DEF WithOne
    <3> QED BY <2>1, <3>1
  <2>5. CASE i = n + 1
    <3>1. schedule'[i] = p
      BY <1>3, <2>5 DEF WithOne
    <3>2. wait # Rendering!Forever /\ wait <= schedule[1].time - now
      BY <2>1, <2>3
    <3> QED BY <1>4, <1>5, <2>3, <3>1, <3>2
  <2>6. CASE n + 1 < i
    <3>1. i - 1 \in n + 1..Len(schedule) /\ i - 1 + 1 = i /\ i - 1 \in DOMAIN schedule
      BY <1>3, <1>4, <2>6
    <3>2. schedule'[i] = schedule[i - 1]
      BY <1>3, <3>1 DEF WithOne
    <3> QED BY <2>1, <3>1, <3>2
  <2> QED BY <1>3, <1>4, <2>4, <2>5, <2>6
<1>7. Rendering!WakesInTime'
  <2>1. Rendering!Ordered'
    BY <1>3 DEF Rendering!Ordered, InOrder
  <2> QED BY <1>5, <1>6, <2>1 DEF Rendering!WakesInTime, Rendering!Forever
<1>8. m_ev' \in BOOLEAN
  BY <1>1, <1>5
<1> QED BY <1>3, <1>5, <1>7, <1>8 DEF AdviseInv, ClockTyped, Rendering!Forever

LEMMA UnadviseKeeps ==
    ASSUME AdviseInv, SampleTyped', NEW cookie, schedule' = Rendering!Without(schedule, cookie),
           m_ev' = m_ev, Rendering!Fixed
    PROVE  AdviseInv'
<1>1. schedule \in Seq(Rendering!Packet) /\ InOrder(schedule)
  BY DEF AdviseInv, ClockTyped, Rendering!WakesInTime, Rendering!Ordered, InOrder
<1>2. /\ schedule' \in Seq(Rendering!Packet) /\ InOrder(schedule')
      /\ \A i \in DOMAIN schedule' : \E j \in DOMAIN schedule : schedule'[i] = schedule[j]
  BY <1>1, WithoutKeeps
<1>3. Rendering!WakesInTime'
  BY <1>2 DEF Rendering!WakesInTime, Rendering!Ordered, InOrder, Rendering!Fixed, AdviseInv,
     Rendering!Forever
<1> QED BY <1>2, <1>3 DEF AdviseInv, ClockTyped, Rendering!Fixed, Rendering!Forever

LEMMA ScheduleKept ==
    ASSUME AdviseInv, SampleTyped', Rendering!NoAdvise, Rendering!Fixed
    PROVE  AdviseInv'
BY DEF AdviseInv, ClockTyped, Rendering!WakesInTime, Rendering!Ordered, Rendering!NoAdvise,
       Rendering!Fixed, Rendering!Forever

\* Every handler of the renderer does one of these, or leaves the list alone.
Touch ==
    /\ SampleTyped' /\ Rendering!Fixed
    /\ \/ Rendering!NoAdvise
       \/ m_ev' = m_ev /\ \E cookie \in {m_dwAdvise} : schedule' = Rendering!Without(schedule, cookie)
       \/ \E p \in Rendering!Packet : Rendering!AddAdvisePacket(p)

LEMMA TouchKeeps == AdviseInv /\ Touch => AdviseInv'
BY AddKeeps, UnadviseKeeps, ScheduleKept DEF Touch

LEMMA CancelTouches ==
    ASSUME SampleTyped', Rendering!Fixed, Rendering!CancelNotification PROVE Touch
<1>1. CASE m_dwAdvise # 0
  BY <1>1 DEF Rendering!CancelNotification, Touch
<1>2. CASE m_dwAdvise = 0
  BY <1>2 DEF Rendering!CancelNotification, Rendering!NoAdvise, Touch
<1> QED BY <1>1, <1>2

LEMMA ScheduleTouches ==
    ASSUME SampleTyped', Rendering!Fixed, NEW begins \in Int, NEW tStart \in Int,
           Rendering!ScheduleSample(begins, tStart)
    PROVE  Touch
<1>1. CASE Rendering!NoAdvise
  BY <1>1 DEF Touch
<1>2. CASE \E cookie \in Rendering!NewCookies({m_dwAdvise}) :
             Rendering!AddAdvisePacket([cookie |-> cookie, time |-> tStart + begins,
                                        period |-> 0, client |-> RenderEvent])
           /\ Rendering!Valid(tStart + begins)
  <2>1. PICK cookie \in Rendering!NewCookies({m_dwAdvise}) :
             Rendering!AddAdvisePacket([cookie |-> cookie, time |-> tStart + begins,
                                        period |-> 0, client |-> RenderEvent])
           /\ Rendering!Valid(tStart + begins)
    BY <1>2
  <2>2. PICK p : p = [cookie |-> cookie, time |-> tStart + begins, period |-> 0, client |-> RenderEvent]
    OBVIOUS
  <2>3. tStart + begins \in Nat \ {0} /\ cookie \in 1..MaxCookie
    BY <2>1 DEF Rendering!Valid, Rendering!NewCookies
  <2>4. p \in Rendering!Packet
    BY <2>2, <2>3, RendererConstants DEF Rendering!Packet
  <2> QED BY <2>1, <2>2, <2>4 DEF Touch
<1> QED BY <1>1, <1>2 DEF Rendering!ScheduleSample

LEMMA ClockUntouched ==
    ASSUME SampleTyped', UNCHANGED Rendering!clockVars PROVE Touch
BY DEF Rendering!clockVars, Touch, Rendering!NoAdvise, Rendering!Fixed

LEMMA AdviseStep == AdviseInv /\ Rendering!Next => AdviseInv'
<1> SUFFICES ASSUME AdviseInv, Rendering!Next PROVE AdviseInv'
  OBVIOUS
<1>0. SampleTyped /\ now \in Int
  BY DEF AdviseInv, ClockTyped
<1>1. CASE Rendering!ClockThread \/ Rendering!TimePasses \/ Rendering!SetClock
  <2>1. UNCHANGED << m_tStart, m_pMediaSample >>
    BY <1>1 DEF Rendering!ClockThread, Rendering!TimePasses, Rendering!SetClock,
       Rendering!rendererVars, Rendering!stateVars, Rendering!sampleVars
  <2> QED BY <1>1, <2>1, WakeKeeps, AdviseKeeps, SleepKeeps, TickKeeps, SetTimeDeltaKeeps
          DEF Rendering!ClockThread, Rendering!TimePasses, Rendering!SetClock, Rendering!Thread
<1>2. CASE Rendering!Application
  <2>1. UNCHANGED Rendering!clockVars /\ UNCHANGED << m_tStart, m_pMediaSample >>
    BY <1>2 DEF Rendering!Application, Rendering!Stopped, Rendering!FlushWaited, Rendering!FlushReset,
       Rendering!stateVars, Rendering!sampleVars
  <2>2. SampleTyped'
    BY <1>0, <2>1 DEF SampleTyped
  <2> QED BY <2>1, <2>2, ClockUntouched, TouchKeeps
<1>3. CASE Rendering!EndOfStream \/ Rendering!Refuse \/ \E begins \in SampleTimes : Rendering!Drop(begins)
  <2>1. UNCHANGED Rendering!clockVars /\ UNCHANGED << m_tStart, m_pMediaSample >>
    BY <1>3 DEF Rendering!EndOfStream, Rendering!Refuse, Rendering!Drop,
       Rendering!stateVars, Rendering!sampleVars
  <2>2. SampleTyped'
    BY <1>0, <2>1 DEF SampleTyped
  <2> QED BY <2>1, <2>2, ClockUntouched, TouchKeeps
<1>4. CASE \E begins \in SampleTimes : Rendering!PrepareReceive(begins)
  <2>1. PICK begins \in SampleTimes : Rendering!PrepareReceive(begins)
    BY <1>4
  <2>2. /\ Rendering!Fixed /\ m_tStart' = m_tStart /\ m_pMediaSample' = {begins}
        /\ Rendering!ScheduleSample(begins, m_tStart) \/ Rendering!NoAdvise
    BY <2>1 DEF Rendering!PrepareReceive, Rendering!stateVars
  <2>3. begins \in Int
    BY RendererConstants
  <2>4. SampleTyped'
    BY <1>0, <2>2, <2>3 DEF SampleTyped
  <2>5. CASE Rendering!NoAdvise
    BY <2>2, <2>4, <2>5, TouchKeeps DEF Touch
  <2>6. CASE Rendering!ScheduleSample(begins, m_tStart)
    <3>1. m_tStart \in Int
      BY <1>0 DEF SampleTyped
    <3> QED BY <2>2, <2>3, <2>4, <2>6, <3>1, ScheduleTouches, TouchKeeps
  <2> QED BY <2>2, <2>5, <2>6
<1>5. CASE Rendering!Received \/ Rendering!FirstSample \/ Rendering!WaitEnds
           \/ Rendering!SignalTimerFired \/ Rendering!ReportError
  <2>1. UNCHANGED Rendering!clockVars /\ UNCHANGED << m_tStart, m_pMediaSample >>
    BY <1>5 DEF Rendering!Received, Rendering!FirstSample, Rendering!WaitEnds,
       Rendering!SignalTimerFired, Rendering!ReportError, Rendering!stateVars, Rendering!sampleVars
  <2>2. SampleTyped'
    BY <1>0, <2>1 DEF SampleTyped
  <2> QED BY <2>1, <2>2, ClockUntouched, TouchKeeps
<1>6. CASE Rendering!WaitForRenderTime
  <2>1. Rendering!Fixed /\ Rendering!NoAdvise /\ UNCHANGED << m_tStart, m_pMediaSample >>
    BY <1>6 DEF Rendering!WaitForRenderTime, Rendering!stateVars, Rendering!sampleVars
  <2>2. SampleTyped'
    BY <1>0, <2>1 DEF SampleTyped
  <2> QED BY <2>1, <2>2, TouchKeeps DEF Touch
<1>7. CASE Rendering!Render
  <2>1. CASE UNCHANGED Rendering!clockVars /\ UNCHANGED << m_tStart, m_pMediaSample >>
    <3>1. SampleTyped'
      BY <1>0, <2>1 DEF SampleTyped
    <3> QED BY <2>1, <3>1, ClockUntouched, TouchKeeps
  <2>2. CASE /\ Rendering!Fixed /\ Rendering!CancelNotification /\ m_tStart' = m_tStart
             /\ m_pMediaSample' = {}
    <3>1. SampleTyped'
      BY <1>0, <2>2 DEF SampleTyped
    <3> QED BY <2>2, <3>1, CancelTouches, TouchKeeps
  <2> QED BY <1>7, <2>1, <2>2 DEF Rendering!Render, Rendering!stateVars
<1>8. CASE Rendering!Pause \/ Rendering!Stop \/ Rendering!BeginFlush
  <2>1. /\ Rendering!Fixed /\ Rendering!CancelNotification /\ m_tStart' = m_tStart
        /\ m_pMediaSample' \in {m_pMediaSample, {}}
    BY <1>8 DEF Rendering!Pause, Rendering!Stop, Rendering!BeginFlush, Rendering!stateVars
  <2>2. SampleTyped'
    BY <1>0, <2>1 DEF SampleTyped
  <2> QED BY <2>1, <2>2, CancelTouches, TouchKeeps
<1>9. CASE Rendering!PauseAgain \/ Rendering!EndFlush \/ Rendering!OnDisplayChange
           \/ Rendering!TimerFires \/ Rendering!TimerCallback
  <2>1. UNCHANGED Rendering!clockVars /\ m_tStart' = m_tStart /\ m_pMediaSample' \in {m_pMediaSample, {}}
    BY <1>9 DEF Rendering!PauseAgain, Rendering!EndFlush, Rendering!OnDisplayChange,
       Rendering!TimerFires, Rendering!TimerCallback, Rendering!stateVars, Rendering!sampleVars
  <2>2. SampleTyped'
    BY <1>0, <2>1 DEF SampleTyped
  <2> QED BY <2>1, <2>2, ClockUntouched, TouchKeeps
<1>10. CASE Rendering!Run
  <2>1. /\ Rendering!Fixed /\ m_tStart' \in { now - 1, now } /\ m_pMediaSample' = m_pMediaSample
        /\ Rendering!StartStreaming(m_tStart')
    BY <1>10 DEF Rendering!Run, Rendering!sampleVars
  <2>2. m_tStart' \in Int /\ SampleTyped'
    BY <1>0, <2>1 DEF SampleTyped
  <2>3. Rendering!NoAdvise \/ \E begins \in m_pMediaSample : Rendering!ScheduleSample(begins, m_tStart')
    BY <2>1 DEF Rendering!StartStreaming
  <2>4. CASE Rendering!NoAdvise
    BY <2>1, <2>2, <2>4, TouchKeeps DEF Touch
  <2>5. CASE \E begins \in m_pMediaSample : Rendering!ScheduleSample(begins, m_tStart')
    <3>1. PICK begins \in m_pMediaSample : Rendering!ScheduleSample(begins, m_tStart')
      BY <2>5
    <3>2. begins \in Int
      BY <1>0 DEF SampleTyped
    <3> QED BY <2>1, <2>2, <3>1, <3>2, ScheduleTouches, TouchKeeps
  <2> QED BY <2>3, <2>4, <2>5
<1> QED BY <1>1, <1>2, <1>3, <1>4, <1>5, <1>6, <1>7, <1>8, <1>9, <1>10
        DEF Rendering!Next, Rendering!Deliver, Rendering!Receive

LEMMA AdviseStays == AdviseInv /\ UNCHANGED renderingVars => AdviseInv'
BY DEF AdviseInv, ClockTyped, SampleTyped, renderingVars, Rendering!WakesInTime, Rendering!Ordered

\* In the first part the clock's thread sleeps past no advise.
AdvisePart == part \in {"rendering", "quality"} /\ (part = "rendering" => AdviseInv)

LEMMA AdvisePartStep == AdvisePart /\ [RenderingNext]_mcVars => AdvisePart'
<1> SUFFICES ASSUME AdvisePart, [RenderingNext]_mcVars PROVE AdvisePart'
  OBVIOUS
<1>1. part' = part
  BY DEF RenderingNext, mcVars
<1>2. ASSUME part = "rendering" PROVE AdviseInv'
  <2>1. AdviseInv
    BY <1>2 DEF AdvisePart
  <2>2. CASE Rendering!Next
    BY <2>1, <2>2, AdviseStep
  <2>3. CASE UNCHANGED renderingVars
    BY <2>1, <2>3, AdviseStays
  <2> QED BY <1>2, <2>2, <2>3, Zenon DEF RenderingNext, mcVars
<1> QED BY <1>1, <1>2 DEF AdvisePart

\* For every bound of the clock, every set of clients, times and periods, whatever
\* the renderer asks of its clock meanwhile and takes back: the list of advises is in
\* the order of their times, and the clock's thread sleeps past none of them.
THEOREM AdvisesHold == RenderingSpec => []AdvisesWake
<1>1. RenderingInit => AdvisePart
  BY AdviseInit DEF AdvisePart, RenderingInit
<1>2. AdvisePart => AdvisesWake
  BY DEF AdvisePart, AdviseInv, AdvisesWake
<1> QED BY <1>1, <1>2, AdvisePartStep, PTL DEF RenderingSpec

-----------------------------------------------------------------------------
(* The formats of the pin. *)

\* A type fixed by SetFormat is one that CheckMediaType accepts.
ForcedSound ==
    m_bFormatAlreadySet =>
        m_mt.video /\ m_mt.format # "none" /\ m_mt.subtype \in AcceptedSubtypes

\* The inductive invariant: OfferedIsAccepted follows from it.
FormatInv == TypeOK /\ ForcedSound /\ AgreedInForce /\ RectNotEmpty

-----------------------------------------------------------------------------
(* Lemmas about the pin's formats. *)

\* The depth at each position.
LEMMA KindFacts ==
    /\ \A i \in 0 .. 5 : KindAt(i) \in Kinds
    /\ \A i \in 0 .. 5 : BitmapSubtype(KindAt(i)) \in Subtypes \ {"null"}
    /\ \A i \in 0 .. 4 : BitmapSubtype(KindAt(i)) \in AcceptedSubtypes
<1>1. \A i \in 0 .. 5 : i = 0 \/ i = 1 \/ i = 2 \/ i = 3 \/ i = 4 \/ i = 5
  OBVIOUS
<1>2. /\ KindAt(0) = "rgb32" /\ KindAt(1) = "rgb32" /\ KindAt(2) = "rgb24"
      /\ KindAt(3) = "rgb16" /\ KindAt(4) = "bitfields16" /\ KindAt(5) = "pal8"
  BY DEF KindAt
<1>3. /\ BitmapSubtype("rgb32") = "RGB32" /\ BitmapSubtype("rgb24") = "RGB24"
      /\ BitmapSubtype("rgb16") = "RGB555" /\ BitmapSubtype("bitfields16") = "RGB555"
      /\ BitmapSubtype("pal8") = "RGB8"
  BY DEF BitmapSubtype
<1>4. \A i \in 0 .. 5 : KindAt(i) \in Kinds
  BY <1>1, <1>2 DEF Kinds
<1>5. \A i \in 0 .. 5 : BitmapSubtype(KindAt(i)) \in Subtypes \ {"null"}
  BY <1>1, <1>2, <1>3 DEF Subtypes
<1>6. \A i \in 0 .. 4 : BitmapSubtype(KindAt(i)) \in AcceptedSubtypes
  <2>1. \A i \in 0 .. 4 : i = 0 \/ i = 1 \/ i = 2 \/ i = 3 \/ i = 4
    OBVIOUS
  <2> QED  BY <2>1, <1>2, <1>3 DEF AcceptedSubtypes
<1> QED  BY <1>4, <1>5, <1>6

\* GetMediaType makes a media type of any media type.
LEMMA FillType ==
    ASSUME TypeOK, NEW i \in 0 .. 5, NEW mt \in MediaType
    PROVE  Fill(i, mt) \in MediaType
<1>1. KindAt(i) \in Kinds /\ BitmapSubtype(KindAt(i)) \in Subtypes
  BY KindFacts
<1>2. mt.subtype \in Subtypes
  BY DEF MediaType
<1> QED  BY <1>1, <1>2 DEF Fill, MediaType, TypeOK

\* The empty type is a media type.
LEMMA BlankType == Blank \in MediaType
BY DEF Blank, MediaType, Subtypes, Kinds

\* So are the types the pin offers.
LEMMA OfferedType ==
    ASSUME TypeOK, NEW i \in 0 .. 6, HasType(i), NEW mt \in MediaType
    PROVE  Offered(i, mt) \in MediaType
<1>1. CASE m_bFormatAlreadySet
  BY <1>1 DEF Offered, TypeOK
<1>2. CASE ~m_bFormatAlreadySet
  <2>1. i \in 0 .. 5
    BY <1>2 DEF HasType
  <2> QED  BY <1>2, <2>1, FillType DEF Offered
<1> QED  BY <1>1, <1>2

\* An attempt with a type, whatever its outcome, keeps what the type decides.
LEMMA AttemptSound ==
    ASSUME FormatInv, ~m_Connected, NEW t \in MediaType,
           Refused(t) \/ TriedInVain(t) \/ Agreed(t),
           UNCHANGED << m_bFormatAlreadySet, settings >>
    PROVE  /\ m_mt' \in MediaType
           /\ m_Connected' \in BOOLEAN
           /\ m_rtFrameLength' \in Frames
           /\ m_rScreen' \in Sizes \cup {NoSize}
           /\ agreed' \in MediaType
           /\ written' \subseteq {"settings", "wrap", "type"}
           /\ ForcedSound'
           /\ AgreedInForce'
           /\ RectNotEmpty'
           /\ m_bFormatAlreadySet => m_mt' = m_mt /\ (m_Connected' => agreed' = m_mt)
<1> USE DEF FormatInv
<1>1. CASE Refused(t)
  BY <1>1 DEF Refused, TypeOK, ForcedSound, AgreedInForce, RectNotEmpty
<1>2. ASSUME SetMediaType(t), CheckMediaType(t)
      PROVE  /\ m_mt' \in MediaType
             /\ m_rtFrameLength' \in Frames
             /\ m_rScreen' \in Sizes \cup {NoSize}
             /\ ForcedSound'
             /\ m_bFormatAlreadySet => m_mt' = m_mt
  BY <1>2 DEF SetMediaType, CheckMediaType, TypeOK, ForcedSound, MediaType
<1>3. CASE TriedInVain(t)
  <2>1. ~m_Connected' /\ agreed' = agreed
    BY <1>3 DEF TriedInVain
  <2> QED  BY <1>2, <1>3, <2>1 DEF TriedInVain, AgreedInForce, RectNotEmpty, TypeOK
<1>4. CASE Agreed(t)
  <2>1. m_Connected' = TRUE /\ agreed' = t
    BY <1>4, Zenon DEF Agreed
  <2>2. AgreedInForce'
    BY <1>4, <2>1 DEF Agreed, SetMediaType, AgreedInForce
  <2>3. RectNotEmpty'
    BY <1>4 DEF Agreed, SetMediaType, SizeUsable, RectNotEmpty, Proper
  <2>4. m_bFormatAlreadySet => agreed' = m_mt
    BY <1>4, <2>1 DEF Agreed, CheckMediaType
  <2>5. m_Connected' \in BOOLEAN
    BY <2>1, Zenon
  <2>6. agreed' \in MediaType
    BY <2>1
  <2> QED  BY <1>2, <1>4, <2>2, <2>3, <2>4, <2>5, <2>6 DEF Agreed
<1> QED  BY <1>1, <1>3, <1>4

-----------------------------------------------------------------------------
(* The invariant of the formats. *)

\* Connect is only under way while the pin is not connected.
ConnectingIsAlone == connecting # "no" => ~m_Connected

\* The constructor leaves a sound pin.
LEMMA InitSound == Init => FormatInv /\ ConnectingIsAlone
<1> SUFFICES ASSUME Init PROVE FormatInv /\ ConnectingIsAlone
  OBVIOUS
<1>1. KindAt(0) \in Kinds /\ BitmapSubtype(KindAt(0)) \in Subtypes
  BY KindFacts
<1>2. Fill(0, Blank) \in MediaType
  BY <1>1, BlankType DEF Init, Fill, Blank, MediaType
<1>3. TypeOK
  <2>1. 0 \in 0 .. MaxPuts
    BY PinFormatAssumption
  <2>2. m_bFormatAlreadySet \in BOOLEAN /\ m_Connected \in BOOLEAN /\ constructed \in BOOLEAN
    BY Zenon DEF Init
  <2> QED  BY <1>2, <2>1, <2>2, BlankType DEF Init, TypeOK
<1> QED  BY <1>3 DEF Init, FormatInv, ForcedSound, AgreedInForce, RectNotEmpty, ConnectingIsAlone

\* Every step keeps it, and a type fixed by SetFormat with it.
LEMMA StepSound ==
    ASSUME FormatInv, ConnectingIsAlone, [Next]_vars
    PROVE  /\ FormatInv'
           /\ ConnectingIsAlone'
           /\ m_bFormatAlreadySet /\ m_bFormatAlreadySet' =>
                 /\ m_mt' = m_mt
                 /\ ~m_Connected /\ m_Connected' => agreed' = m_mt
<1> DEFINE Goal == /\ FormatInv'
                   /\ ConnectingIsAlone'
                   /\ m_bFormatAlreadySet /\ m_bFormatAlreadySet' =>
                         /\ m_mt' = m_mt
                         /\ ~m_Connected /\ m_Connected' => agreed' = m_mt
<1> USE DEF FormatInv, settings
<1>1. ASSUME put_Settings PROVE Goal
  <2>1. puts' \in 0 .. MaxPuts
    BY <1>1, PinFormatAssumption DEF put_Settings, Written, TypeOK
  <2>2. TypeOK'
    BY <1>1, <2>1 DEF put_Settings, Written, TypeOK
  <2>3. m_Connected /\ "wrap" \notin written' =>
          /\ "wrap" \notin written
          /\ constructed /\ Proper(m_rScreen) => Proper(m_rScreen')
    BY <1>1 DEF put_Settings, Written, Proper
  <2>4. "settings" \in written' \/ ~m_Connected
    BY <1>1 DEF put_Settings, Written
  <2>5. "type" \in written' <=> m_Connected /\ "type" \in written
    BY <1>1 DEF put_Settings, Written
  <2>6. RectNotEmpty'
    BY <1>1, <2>3 DEF put_Settings, RectNotEmpty
  <2>7. AgreedInForce'
    BY <1>1, <2>4, <2>5 DEF put_Settings, AgreedInForce
  <2> QED
    BY <1>1, <2>2, <2>6, <2>7 DEF put_Settings, ForcedSound, ConnectingIsAlone
<1>2. ASSUME FinishPutSettings PROVE Goal
  <2>1. puts' \in 0 .. MaxPuts
    BY <1>2, PinFormatAssumption DEF FinishPutSettings, TypeOK
  <2>2. m_mt' \in MediaType
    <3>1. HasType(0)
      BY DEF HasType
    <3>2. m_mt \in MediaType
      BY DEF TypeOK
    <3> QED  BY <1>2, <3>1, <3>2, OfferedType DEF FinishPutSettings
  <2>3. m_bFormatAlreadySet => m_mt' = m_mt
    BY <1>2 DEF FinishPutSettings, Offered
  <2> QED
    BY <1>2, <2>1, <2>2, <2>3 DEF FinishPutSettings, Written, Retyped, TypeOK,
                                  ForcedSound, AgreedInForce, RectNotEmpty, ConnectingIsAlone, Proper
<1>3. ASSUME NEW i \in 0 .. 6, GetStreamCaps(i) PROVE Goal
  <2>1. m_mt' \in MediaType
    <3>1. m_mt \in MediaType
      BY DEF TypeOK
    <3> QED  BY <1>3, <3>1, OfferedType DEF GetStreamCaps
  <2>2. m_bFormatAlreadySet => m_mt' = m_mt
    BY <1>3 DEF GetStreamCaps, Offered
  <2> QED
    BY <1>3, <2>1, <2>2 DEF GetStreamCaps, Written, Retyped, TypeOK, ForcedSound,
                            AgreedInForce, RectNotEmpty, ConnectingIsAlone, Proper
<1>4. ASSUME NEW t \in Foreign \cup {m_mt}, SetFormat(t) PROVE Goal
  <2>1. t \in MediaType
    BY PinFormatAssumption DEF TypeOK
  <2>2. m_bFormatAlreadySet' \in BOOLEAN
    BY <1>4, Zenon DEF SetFormat, TypeOK
  <2>3. TypeOK'
    BY <1>4, <2>1, <2>2 DEF SetFormat, Written, Retyped, TypeOK
  <2>4. ForcedSound'
    BY <1>4 DEF SetFormat, CheckMediaType, ForcedSound
  <2>5. m_bFormatAlreadySet => m_mt' = m_mt
    BY <1>4 DEF SetFormat, CheckMediaType
  <2> QED
    BY <1>4, <2>3, <2>4, <2>5 DEF SetFormat, Written, Retyped, AgreedInForce, RectNotEmpty,
                                  ConnectingIsAlone, Proper
<1>5. ASSUME ResetFormat PROVE Goal
  <2>1. m_bFormatAlreadySet' \in BOOLEAN
    BY <1>5, Zenon DEF ResetFormat, TypeOK
  <2>2. m_bFormatAlreadySet' => m_bFormatAlreadySet
    BY <1>5, Zenon DEF ResetFormat
  <2> QED
    BY <1>5, <2>1, <2>2 DEF ResetFormat, TypeOK, ForcedSound, AgreedInForce,
                            RectNotEmpty, ConnectingIsAlone, Proper
<1>6. ASSUME BeginConnect PROVE Goal
  BY <1>6 DEF BeginConnect, TypeOK, ForcedSound, AgreedInForce, RectNotEmpty,
              ConnectingIsAlone, Proper
<1>7. ASSUME TryGiven PROVE Goal
  <2>1. PICK t \in Foreign : Refused(t) \/ TriedInVain(t) \/ Agreed(t)
    BY <1>7 DEF TryGiven
  <2>2. t \in MediaType
    BY PinFormatAssumption
  <2>3. ~m_Connected
    BY <1>7 DEF TryGiven, ConnectingIsAlone
  <2>4. UNCHANGED << m_bFormatAlreadySet, settings >> /\ m_Position' = m_Position
        /\ connecting' = "no"
    BY <1>7 DEF TryGiven
  <2> QED  BY <2>1, <2>2, <2>3, <2>4, AttemptSound DEF TypeOK, ConnectingIsAlone
<1>8. ASSUME TryTheirs PROVE Goal
  <2>1. PICK t \in Foreign :
            \/ (Refused(t) \/ TriedInVain(t)) /\ UNCHANGED connecting
            \/ Agreed(t) /\ connecting' = "no"
    BY <1>8 DEF TryTheirs
  <2>2. t \in MediaType
    BY PinFormatAssumption
  <2>3. ~m_Connected
    BY <1>8 DEF TryTheirs, ConnectingIsAlone
  <2>4. UNCHANGED << m_bFormatAlreadySet, settings >> /\ m_Position' = m_Position
    BY <1>8 DEF TryTheirs
  <2>5. connecting' # "no" => ~m_Connected'
    BY <2>1, <2>3 DEF Refused, TriedInVain
  <2>6. connecting' \in {"no", "given", "theirs", "mine"}
    BY <2>1 DEF TypeOK
  <2> QED
    BY <2>1, <2>2, <2>3, <2>4, <2>5, <2>6, AttemptSound DEF TypeOK, ConnectingIsAlone
<1>9. ASSUME NoMoreOfTheirs PROVE Goal
  BY <1>9 DEF NoMoreOfTheirs, TypeOK, ForcedSound, AgreedInForce, RectNotEmpty,
              ConnectingIsAlone, Proper
<1>10. ASSUME TryMine PROVE Goal
  <2> DEFINE t == Offered(m_Position, Blank)
  <2>1. m_Position \in 0 .. 5
    BY <1>10 DEF TryMine, HasType, TypeOK
  <2>2. t \in MediaType
    BY <1>10, <2>1, BlankType, OfferedType DEF TryMine
  <2>3. ~m_Connected
    BY <1>10 DEF TryMine, ConnectingIsAlone
  <2>4. UNCHANGED << m_bFormatAlreadySet, settings >>
    BY <1>10 DEF TryMine
  <2>5. m_Position' \in 0 .. 6
    BY <1>10, <2>1 DEF TryMine
  <2>6. \/ (Refused(t) \/ TriedInVain(t)) /\ UNCHANGED connecting
        \/ UNCHANGED << m_mt, m_rtFrameLength, m_rScreen, m_Connected, agreed, written,
                         connecting >>
        \/ Agreed(t) /\ connecting' = "no"
    BY <1>10 DEF TryMine
  <2> HIDE DEF t
  <2>7. CASE UNCHANGED << m_mt, m_rtFrameLength, m_rScreen, m_Connected, agreed, written,
                          connecting >>
    BY <2>3, <2>4, <2>5, <2>7 DEF TypeOK, ForcedSound, AgreedInForce, RectNotEmpty,
                                  ConnectingIsAlone, Proper
  <2>8. CASE (Refused(t) \/ TriedInVain(t)) /\ UNCHANGED connecting
    <3>1. ~m_Connected'
      BY <2>3, <2>8 DEF Refused, TriedInVain
    <3> QED
      BY <2>2, <2>3, <2>4, <2>5, <2>8, <3>1, AttemptSound DEF TypeOK, ConnectingIsAlone
  <2>9. CASE Agreed(t) /\ connecting' = "no"
    BY <2>2, <2>3, <2>4, <2>5, <2>9, AttemptSound DEF TypeOK, ConnectingIsAlone
  <2> QED  BY <2>6, <2>7, <2>8, <2>9
<1>11. ASSUME NoMoreOfMine PROVE Goal
  BY <1>11 DEF NoMoreOfMine, TypeOK, ForcedSound, AgreedInForce, RectNotEmpty,
               ConnectingIsAlone, Proper
<1>12. ASSUME Disconnect PROVE Goal
  <2>1. ~m_Connected' /\ m_Connected' \in BOOLEAN
    BY <1>12, Zenon DEF Disconnect
  <2> QED
    BY <1>12, <2>1, BlankType DEF Disconnect, TypeOK, ForcedSound, AgreedInForce,
                                  RectNotEmpty, ConnectingIsAlone, Proper
<1>13. ASSUME UNCHANGED vars PROVE Goal
  BY <1>13 DEF vars, TypeOK, ForcedSound, AgreedInForce, RectNotEmpty,
               ConnectingIsAlone, Proper
<1> QED
  BY <1>1, <1>2, <1>3, <1>4, <1>5, <1>6, <1>7, <1>8, <1>9, <1>10, <1>11, <1>12, <1>13 DEF Next

\* The invariant holds in every reachable state.
LEMMA Invariance == Spec => [](FormatInv /\ ConnectingIsAlone)
<1>1. FormatInv /\ ConnectingIsAlone /\ [Next]_vars => (FormatInv /\ ConnectingIsAlone)'
  BY StepSound
<1> QED  BY InitSound, <1>1, PTL DEF Spec

-----------------------------------------------------------------------------
(* The theorems about the formats. *)

\* Type correctness of the pin's format state.
THEOREM TypeCorrect == Spec => []TypeOK
BY Invariance, PTL DEF FormatInv

\* Every type the pin offers to a connection it also accepts (GetMediaType and
\* CheckMediaType agree), whatever SetFormat, GetStreamCaps, put_Settings and
\* failed connections did before.
THEOREM OffersAccepted == Spec => []OfferedIsAccepted
<1>1. FormatInv => OfferedIsAccepted
  <2> SUFFICES ASSUME FormatInv, Proper(capture), NEW i \in 0 .. 4, HasType(i)
               PROVE  CheckMediaType(Offered(i, Blank))
    BY DEF OfferedIsAccepted
  <2>1. CASE m_bFormatAlreadySet
    BY <2>1 DEF FormatInv, ForcedSound, Offered, CheckMediaType
  <2>2. CASE ~m_bFormatAlreadySet
    <3>1. BitmapSubtype(KindAt(i)) \in AcceptedSubtypes
      BY KindFacts
    <3>2. Fill(i, Blank).subtype \in AcceptedSubtypes
      BY <3>1 DEF Fill, Blank
    <3>3. /\ Fill(i, Blank).video = TRUE /\ Fill(i, Blank).format = "VideoInfo"
          /\ Fill(i, Blank).size = capture
      BY DEF Fill
    <3> QED  BY <2>2, <3>2, <3>3 DEF Offered, CheckMediaType
  <2> QED  BY <2>1, <2>2
<1> QED  BY Invariance, <1>1, PTL

\* Whatever attempts were refused before, what a connection agreed is what the worker
\* goes by: frame length and size until put_Settings changes them, the type until
\* another one is written to m_mt, which never happens to one that SetFormat fixed.
THEOREM AgreementStands == Spec => []AgreedInForce
BY Invariance, PTL DEF FormatInv

\* A connected pin has a rectangle to capture, if the constructor's put_Settings
\* went through (the assertion in CopyScreenToDataBlock) and no sum in put_Settings has
\* wrapped round since it was connected.
THEOREM RectIsNotEmpty == Spec => []RectNotEmpty
BY Invariance, PTL DEF FormatInv

\* A type fixed by SetFormat is kept until SetFormat(NULL) and used by every
\* connection made meanwhile.
THEOREM FormatIsHonoured == Spec => FormatHonoured
<1>1. FormatInv /\ ConnectingIsAlone /\ [Next]_vars =>
        [m_bFormatAlreadySet /\ m_bFormatAlreadySet' =>
            /\ m_mt' = m_mt
            /\ ~m_Connected /\ m_Connected' => agreed' = m_mt]_vars
  BY StepSound
<1> QED  BY Invariance, <1>1, PTL DEF Spec, FormatHonoured
=============================================================================
