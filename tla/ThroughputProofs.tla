--------------------------- MODULE ThroughputProofs ---------------------------
(***************************************************************************)
(* Machine-checked proofs about module Throughput, for any sizes, clocks   *)
(* and window, and any unit of rates that makes the model's division exact *)
(* for as many samples as the model takes (ThroughputAssumption, Grain).   *)
(***************************************************************************)
EXTENDS Throughput, TLAPS

Shown == [rate: Nat, remaining: Int, done: Nat, total: Nat]
Steady == [pace: Int, ticks: Nat, before: Nat]

TypeOK == /\ sampled \in BOOLEAN /\ lastBytes \in Nat /\ rate \in Nat
          /\ shown \in Shown /\ shown.rate = rate
          /\ samples \in 0 .. MaxSamples
          /\ lo \in Int /\ hi \in Int /\ steady \in Steady

\* The rate lies among the measured ones, and is 0 before the first.
Between == IF lo = Unmeasured THEN rate = 0 /\ hi = Unmeasured /\ shown.remaining = 0
           ELSE 0 <= lo /\ lo <= rate /\ rate <= hi

\* The rate is a multiple of its grain, so that the next sample divides exactly.
Multiple(r, g) == \E k \in Nat : r = g * k
Grained == Multiple(rate, Grain[samples])

\* A mean of a rate and a pace, the pace weighed with e of w ticks.
Mean(w, e, old, p, new) == w * new = (w - e) * old + e * p

\* How far apart two rates are.
Apart(a, b) == IF a >= b THEN a - b ELSE b - a

\* What may be left, after s ticks at a new pace, of a difference of 8 * w^3:
\* the truncated exponential 1 - x + x^2/2 - x^3/8 of x = s / w.
Left(w, s) == 8 * w * w * w - 8 * w * w * s + 4 * w * s * s - s * s * s

\* A difference of d is what s ticks may leave of a difference of d0.
Faded(w, s, d, d0) == /\ s < w => d * (8 * w * w * w) <= d0 * Left(w, s)
                      /\ s >= w => 8 * d <= 3 * d0

Fading == Faded(Window, steady.ticks, Apart(rate, steady.pace),
                Apart(steady.before, steady.pace))

IInv == TypeOK /\ Between /\ Grained /\ Fading /\ RemainingIsHonest

-----------------------------------------------------------------------------
\* Division rounds down.
LEMMA Division ==
  ASSUME NEW n \in Int, NEW d \in Nat \ {0}
  PROVE  /\ n \div d \in Int /\ (n % d) \in 0 .. d - 1
         /\ n = d * (n \div d) + (n % d)
<1>1. n \div d \in Int
  OBVIOUS
<1>2. (n % d) \in 0 .. d - 1
  OBVIOUS
<1>3. n = d * (n \div d) + (n % d)
  OBVIOUS
<1>. QED
  BY <1>1, <1>2, <1>3

\* A multiple is divided exactly, and a quotient is bounded by its bounds.
LEMMA DivExact ==
  ASSUME NEW a \in Int, NEW d \in Nat \ {0}
  PROVE  (d * a) \div d = a
OBVIOUS

\* A quotient is at most what its numerator is at most a multiple of.
LEMMA DivAtMost ==
  ASSUME NEW n \in Int, NEW d \in Nat \ {0}, NEW q \in Int, n <= d * q
  PROVE  n \div d <= q
OBVIOUS

\* A quotient is at least what its numerator is at least a multiple of.
LEMMA DivAtLeast ==
  ASSUME NEW n \in Int, NEW d \in Nat \ {0}, NEW q \in Int, d * q <= n
  PROVE  q <= n \div d
OBVIOUS

\* A value that fits does not wrap.
LEMMA ModSmall ==
  ASSUME NEW n \in Nat, NEW d \in Nat \ {0}, n < d
  PROVE  n % d = n
OBVIOUS

\* A common positive factor does not change an order.
LEMMA Scaled ==
  ASSUME NEW a \in Int, NEW b \in Int, NEW k \in Nat, a <= b
  PROVE  a * k <= b * k
OBVIOUS

\* A common positive factor can be dropped from an order.
LEMMA Cancel ==
  ASSUME NEW a \in Int, NEW b \in Int, NEW k \in Nat \ {0}, a * k <= b * k
  PROVE  a <= b
OBVIOUS

\* The constants are positive.
LEMMA Constants ==
  /\ Total \in Nat \ {0} /\ Window \in Nat \ {0} /\ Scale \in Nat \ {0}
  /\ Nanos \in Nat \ {0} /\ MaxDuration \in Nat \ {0} /\ MaxSamples \in Nat \ {0}
BY ThroughputAssumption

-----------------------------------------------------------------------------
\* A measured pace is no negative number.
LEMMA InstantType ==
  ASSUME NEW e \in Nat \ {0}, NEW b \in Nat
  PROVE  Instant(e, b) \in Nat
<1>1. b * Scale \in Nat
  BY Constants
<1>. QED
  BY <1>1 DEF Instant

\* The filter neither overshoots nor passes the pace it moves to.
LEMMA FilterBetween ==
  ASSUME NEW old \in Nat, NEW e \in Nat \ {0}, NEW p \in Nat
  PROVE  /\ Filtered(old, e, p) \in Nat
         /\ old # 0 /\ old <= p => old <= Filtered(old, e, p) /\ Filtered(old, e, p) <= p
         /\ p <= old => p <= Filtered(old, e, p) /\ Filtered(old, e, p) <= old
<1>. DEFINE step == (e * (p - old)) \div Window
<1>1. CASE old = 0 \/ e >= Window
  BY <1>1 DEF Filtered
<1>2. CASE ~(old = 0 \/ e >= Window)
  <2>1. Filtered(old, e, p) = old + step
    BY <1>2 DEF Filtered
  <2>2. Window \in Nat \ {0} /\ e * (p - old) \in Int
    BY Constants
  <2>3. step \in Int
    BY <2>2, Division
  <2>4. ASSUME old <= p PROVE 0 <= step /\ step <= p - old
    <3>1. 0 <= e * (p - old) /\ e * (p - old) <= Window * (p - old)
      BY <1>2, <2>2, <2>4
    <3>2. Window * 0 <= e * (p - old)
      BY <3>1, <2>2
    <3>. QED
      BY <2>2, <3>1, <3>2, DivAtMost, DivAtLeast
  <2>5. ASSUME p <= old PROVE p - old <= step /\ step <= 0
    <3>1. Window * (p - old) <= e * (p - old) /\ e * (p - old) <= 0
      BY <1>2, <2>2, <2>5
    <3>2. e * (p - old) <= Window * 0
      BY <3>1, <2>2
    <3>. QED
      BY <2>2, <3>1, <3>2, DivAtMost, DivAtLeast
  <2>. HIDE DEF step
  <2>. QED
    BY <2>1, <2>3, <2>4, <2>5
<1>. QED
  BY <1>1, <1>2

\* With rates in multiples of the grain, a sample is a weighted mean exactly,
\* and its outcome a multiple of the next grain.
LEMMA FilterExact ==
  ASSUME NEW n \in 0 .. MaxSamples, n < MaxSamples,
         NEW e \in Elapsed, e > 0, NEW b \in Nat,
         NEW old, Multiple(old, Grain[n])
  PROVE  /\ Multiple(Filtered(old, e, Instant(e, b)), Grain[n + 1])
         /\ \/ Filtered(old, e, Instant(e, b)) = Instant(e, b)
            \/ /\ e < Window
               /\ Mean(Window, e, old, Instant(e, b), Filtered(old, e, Instant(e, b)))
<1>. DEFINE p == Instant(e, b)
            g == Grain[n + 1]
<1>0. PICK k \in Nat : old = Grain[n] * k
  BY DEF Multiple
<1>1. Window \in Nat \ {0} /\ Scale \in Nat \ {0} /\ e \in Nat \ {0}
  BY Constants, ThroughputAssumption
<1>2. Grain[n] \in Nat \ {0} /\ g \in Nat \ {0} /\ Grain[n] = Window * g
  <2>1. n + 1 \in 1 .. MaxSamples /\ (n + 1) - 1 = n /\ n + 1 \in 0 .. MaxSamples
    BY Constants
  <2>. QED
    BY <2>1, ThroughputAssumption
<1>3. PICK c \in Nat : Scale = (e * Grain[n]) * c
  <2>1. e * Grain[n] \in Nat \ {0}
    BY <1>1, <1>2
  <2>2. Scale % (e * Grain[n]) = 0
    BY <1>1, ThroughputAssumption
  <2>3. Scale = (e * Grain[n]) * (Scale \div (e * Grain[n])) /\ Scale \div (e * Grain[n]) \in Nat
    <3>. DEFINE d == e * Grain[n]
    <3>. HIDE DEF d
    <3>1. d \in Nat \ {0} /\ Scale % d = 0
      BY <2>1, <2>2 DEF d
    <3>2. Scale = d * (Scale \div d) + 0 /\ Scale \div d \in Int
      BY <1>1, <3>1, Division
    <3>3. Scale \div d \in Nat
      BY <1>1, <3>1
    <3>4. Scale = d * (Scale \div d)
      BY <1>1, <3>1, <3>2
    <3>. QED
      BY <3>3, <3>4 DEF d
  <2>. QED
    BY <2>3
<1>4. p = Grain[n] * (b * c)
  <2>1. b * Scale = e * (Grain[n] * (b * c))
    BY <1>1, <1>2, <1>3
  <2>2. Grain[n] * (b * c) \in Int
    BY <1>2
  <2>3. (e * (Grain[n] * (b * c))) \div e = Grain[n] * (b * c)
    <3>. DEFINE a == Grain[n] * (b * c)
    <3>1. a \in Int
      BY <2>2
    <3>. HIDE DEF a
    <3>2. (e * a) \div e = a
      BY <1>1, <3>1, DivExact
    <3>. QED
      BY <3>2 DEF a
  <2>. QED
    BY <2>1, <2>3 DEF Instant
<1>5. CASE old = 0 \/ e >= Window
  <2>1. Filtered(old, e, p) = p
    BY <1>5 DEF Filtered
  <2>2. p = g * (Window * (b * c)) /\ Window * (b * c) \in Nat
    BY <1>0, <1>1, <1>2, <1>4
  <2>. QED
    BY <2>1, <2>2 DEF Multiple
<1>6. CASE ~(old = 0 \/ e >= Window)
  <2>. DEFINE move == e * (g * (b * c - k))
  <2>1. move \in Int /\ e * (p - old) = Window * move
    BY <1>0, <1>1, <1>2, <1>4
  <2>2. Filtered(old, e, p) = old + (e * (p - old)) \div Window
    BY <1>6 DEF Filtered
  <2>3. (e * (p - old)) \div Window = move
    <3>. HIDE DEF move
    <3>. QED
      BY <1>1, <2>1, DivExact
  <2>4. Filtered(old, e, p) = old + move
    BY <2>2, <2>3
  <2>5. old + move = g * ((Window - e) * k + e * (b * c)) /\ (Window - e) * k + e * (b * c) \in Nat
    BY <1>0, <1>1, <1>2, <1>6
  <2>6. Window * (old + move) = (Window - e) * old + e * p
    BY <1>0, <1>1, <1>2, <1>4
  <2>. QED
    BY <1>1, <1>6, <2>4, <2>5, <2>6 DEF Multiple, Mean
<1>. QED
  BY <1>5, <1>6

-----------------------------------------------------------------------------
\* A distance is no negative number.
LEMMA ApartType ==
  ASSUME NEW a \in Int, NEW b \in Int
  PROVE  Apart(a, b) \in Nat
<1>1. CASE a >= b
  BY <1>1 DEF Apart
<1>2. CASE a < b
  BY <1>2 DEF Apart
<1>. QED
  BY <1>1, <1>2

\* A mean that weighs a pace with e of w ticks leaves (w - e) / w of the distance.
LEMMA ApartStep ==
  ASSUME NEW w \in Nat \ {0}, NEW e \in Nat, e <= w, NEW old \in Nat, NEW new \in Nat,
         NEW p \in Nat, Mean(w, e, old, p, new)
  PROVE  Apart(new, p) * w = Apart(old, p) * (w - e)
<1>1. (new - p) * w = (old - p) * (w - e)
  BY DEF Mean
<1>2. CASE old >= p
  <2>1. 0 <= (old - p) * (w - e)
    BY <1>2
  <2>2. new >= p
    BY <1>1, <2>1
  <2>. QED
    BY <1>1, <1>2, <2>2 DEF Apart
<1>3. CASE old < p
  <2>1. (old - p) * (w - e) <= 0
    BY <1>3
  <2>2. new <= p
    BY <1>1, <2>1
  <2>. QED
    BY <1>1, <1>3, <2>2 DEF Apart
<1>. QED
  BY <1>2, <1>3

\* The truncated exponential is not negative, shrinks by no more than a sample
\* may shrink the difference, and is three eighths after a window.
LEMMA LeftFacts ==
  ASSUME NEW w \in Nat \ {0}, NEW s \in Nat, s < w
  PROVE  /\ Left(w, s) \in Nat
         /\ s * Left(w, s) <= 3 * w * w * w * w
<1>1. Left(w, s) = 8 * w * w * (w - s) + s * s * (4 * w - s)
  BY DEF Left
<1>2. 0 <= 8 * w * w * (w - s) /\ 0 <= s * s * (4 * w - s)
  OBVIOUS
<1>3. 3 * w * w * w * w - s * Left(w, s)
        = (w - s) * (w - s) * ((w - s) * (w - s) + 2 * w * w)
  BY DEF Left
<1>4. 0 <= (w - s) * (w - s) * ((w - s) * (w - s) + 2 * w * w)
  OBVIOUS
<1>5. Left(w, s) \in Int
  BY DEF Left
<1>. QED
  BY <1>1, <1>2, <1>3, <1>4, <1>5

\* A sample of e ticks lets no more than its share 1 - e/w of what was left remain.
LEMMA LeftStep ==
  ASSUME NEW w \in Nat \ {0}, NEW s \in Nat, NEW e \in Nat, s + e < w
  PROVE  (w - e) * Left(w, s) <= w * Left(w, s + e)
<1>1. w * Left(w, s + e) - (w - e) * Left(w, s)
        = e * (s * s * (w - s) + e * (w * (4 * w - 3 * s - e)))
  BY DEF Left
<1>2. 0 <= s * s * (w - s) /\ 0 <= 4 * w - 3 * s - e
  OBVIOUS
<1>3. 0 <= e * (w * (4 * w - 3 * s - e))
  BY <1>2
<1>4. 0 <= e * (s * s * (w - s) + e * (w * (4 * w - 3 * s - e)))
  BY <1>2, <1>3
<1>5. Left(w, s) \in Int /\ Left(w, s + e) \in Int
  BY DEF Left
<1>. QED
  BY <1>1, <1>4, <1>5

\* A sample at the pace that has been steady lets the difference fade on.
LEMMA FadeStep ==
  ASSUME NEW w \in Nat \ {0}, NEW s \in Nat, NEW e \in Nat \ {0},
         NEW d \in Nat, NEW d1 \in Nat, NEW d0 \in Nat,
         Faded(w, s, d, d0), d1 = 0 \/ (e < w /\ d1 * w = d * (w - e))
  PROVE  Faded(w, s + e, d1, d0)
<1>1. CASE d1 = 0
  <2>1. s + e < w => 0 <= d0 * Left(w, s + e)
    BY LeftFacts
  <2>2. 0 * (8 * w * w * w) = 0 /\ 8 * 0 <= 3 * d0
    OBVIOUS
  <2>. QED
    BY <1>1, <2>1, <2>2 DEF Faded
<1>2. CASE d1 # 0 /\ s + e < w
  <2>. DEFINE c == 8 * w * w * w
              l == Left(w, s)
              l1 == Left(w, s + e)
  <2>1. c \in Nat /\ l \in Nat /\ l1 \in Nat /\ (w - e) \in Nat
    BY <1>2, LeftFacts
  <2>2. (w - e) * l <= w * l1
    BY <1>2, LeftStep
  <2>3. d * c <= d0 * l /\ d1 * w = d * (w - e)
    BY <1>2 DEF Faded
  <2>. HIDE DEF c, l, l1
  <2>4. (d * c) * (w - e) <= (d0 * l) * (w - e)
    BY <2>1, <2>3
  <2>5. (d1 * c) * w = (d * c) * (w - e)
    BY <2>1, <2>3
  <2>6. ((w - e) * l) * d0 <= (w * l1) * d0
    BY <2>1, <2>2
  <2>7. (d0 * l) * (w - e) = ((w - e) * l) * d0 /\ (w * l1) * d0 = (d0 * l1) * w
    BY <2>1
  <2>8. (d1 * c) * w <= (d0 * l1) * w
    BY <2>1, <2>4, <2>5, <2>6, <2>7
  <2>9. d1 * c <= d0 * l1
    <3>1. d1 * c \in Int /\ d0 * l1 \in Int
      BY <2>1
    <3>. QED
      BY <2>8, <3>1, Cancel
  <2>. QED
    BY <1>2, <2>9 DEF Faded, c, l1
<1>3. CASE d1 # 0 /\ s < w /\ s + e >= w
  <2>. DEFINE c == 8 * w * w * w
              l == Left(w, s)
              q == w * w * w * w
  <2>1. c \in Nat /\ l \in Nat /\ q \in Nat \ {0} /\ (w - e) \in Nat /\ c * w = 8 * q
    <3>1. w * w * w \in Nat \ {0}
      OBVIOUS
    <3>. QED
      BY <1>3, <3>1, LeftFacts
  <2>2. s * l <= 3 * q
    BY <1>3, LeftFacts
  <2>3. d * c <= d0 * l /\ d1 * w = d * (w - e) /\ w - e <= s
    BY <1>3 DEF Faded
  <2>. HIDE DEF c, l, q
  <2>4. (d * c) * (w - e) <= (d0 * l) * (w - e)
    BY <2>1, <2>3
  <2>5. d1 * (c * w) = (d * c) * (w - e)
    BY <2>1, <2>3
  <2>6. (d0 * l) * (w - e) <= (d0 * l) * s
    BY <2>1, <2>3
  <2>7. (s * l) * d0 <= (3 * q) * d0
    BY <2>1, <2>2
  <2>8. (d0 * l) * s = (s * l) * d0 /\ (3 * q) * d0 = (3 * d0) * q /\ d1 * (c * w) = (8 * d1) * q
    BY <2>1
  <2>9. (8 * d1) * q <= (3 * d0) * q
    BY <2>1, <2>4, <2>5, <2>6, <2>7, <2>8
  <2>10. 8 * d1 <= 3 * d0
    BY <2>1, <2>9, Cancel
  <2>. QED
    BY <1>3, <2>10 DEF Faded
<1>4. CASE d1 # 0 /\ s >= w
  <2>1. 8 * d <= 3 * d0 /\ d1 * w = d * (w - e) /\ s + e >= w /\ ~(s + e < w)
    BY <1>4 DEF Faded
  <2>2. d * (w - e) <= d * w
    OBVIOUS
  <2>3. d1 <= d
    BY <2>1, <2>2, Cancel
  <2>. QED
    BY <2>1, <2>3 DEF Faded
<1>. QED
  BY <1>1, <1>2, <1>3, <1>4

-----------------------------------------------------------------------------
\* The time that is left is the quotient rounded to whole seconds: the guard
\* keeps the quotient, and what it rounds to, within a Duration.
LEMMA RemainingFacts ==
  ASSUME NEW left \in Int, NEW r \in Nat
  PROVE  /\ Remaining(left, r) \in 0 .. MaxDuration
         /\ r = 0 => Remaining(left, r) = 0
         /\ Remaining(left, r) # 0 =>
              /\ 2 * (Remaining(left, r) * r - left * Scale * Nanos) <= r * Nanos
              /\ -2 * (Remaining(left, r) * r - left * Scale * Nanos) <= r * (Nanos + 2)
<1>1. CASE left <= 0 \/ r <= 0 \/ left * Scale > (MaxDuration \div Nanos) * r
  BY <1>1, Constants DEF Remaining
<1>2. CASE ~(left <= 0 \/ r <= 0 \/ left * Scale > (MaxDuration \div Nanos) * r)
  <2>. DEFINE k == MaxDuration \div Nanos
              x == left * Scale * Nanos
              q == x \div r
              h == Nanos \div 2
              m == (q + h) \div Nanos
  <2>1. /\ left \in Nat \ {0} /\ r \in Nat \ {0} /\ left * Scale <= k * r
        /\ Nanos \in Nat \ {0} /\ Scale \in Nat \ {0} /\ MaxDuration \in Nat \ {0}
        /\ k \in Int /\ x \in Nat
    <3>1. left * Scale \in Nat
      BY <1>2, Constants
    <3>. QED
      BY <1>2, <3>1, Constants, Division
  <2>2. k \in Nat /\ k * Nanos <= MaxDuration
    <3>1. MaxDuration = Nanos * k + (MaxDuration % Nanos) /\ (MaxDuration % Nanos) \in 0 .. Nanos - 1
      BY <2>1, Division
    <3>2. k \in Nat
      BY <2>1
    <3>3. Nanos * k = k * Nanos
      BY <2>1
    <3>. HIDE DEF k
    <3>. QED
      BY <2>1, <3>1, <3>2, <3>3
  <2>3. x <= r * (k * Nanos)
    <3>. HIDE DEF k
    <3>1. (left * Scale) * Nanos <= (k * r) * Nanos
      BY <2>1, <2>2
    <3>. QED
      BY <2>1, <2>2, <3>1
  <2>4. q \in 0 .. k * Nanos
    <3>. HIDE DEF k, x
    <3>1. q <= k * Nanos
      BY <2>1, <2>2, <2>3, DivAtMost
    <3>2. q \in Int /\ 0 <= q
      BY <2>1, Division
    <3>. QED
      BY <2>1, <2>2, <3>1, <3>2
  <2>5. Wrapped(q) = q
    <3>. HIDE DEF k, x, q
    <3>1. q + MaxDuration + 1 \in Nat /\ q + MaxDuration + 1 < 2 * (MaxDuration + 1)
      BY <2>1, <2>2, <2>4
    <3>2. 2 * (MaxDuration + 1) \in Nat \ {0}
      BY <2>1
    <3>3. (q + MaxDuration + 1) % (2 * (MaxDuration + 1)) = q + MaxDuration + 1
      BY <3>1, <3>2, ModSmall
    <3>. QED
      BY <2>1, <2>2, <2>4, <3>3 DEF Wrapped
  <2>6. Remaining(left, r) = m * Nanos
    BY <1>2, <2>5 DEF Remaining, Rounded
  <2>7. h \in Nat /\ 2 * h <= Nanos /\ Nanos <= 2 * h + 1
    BY <2>1
  <2>8. x \in r * q .. r * q + r - 1
    <3>. HIDE DEF k, x
    <3>1. x = r * q + (x % r) /\ (x % r) \in 0 .. r - 1 /\ q \in Int
      BY <2>1, Division
    <3>. QED
      BY <2>1, <3>1
  <2>. HIDE DEF k, x, q, h
  <2>9. m \in Nat /\ q + h - Nanos + 1 <= m * Nanos /\ m * Nanos <= q + h
    <3>1. q + h \in Nat
      BY <2>2, <2>4, <2>7
    <3>2. q + h = Nanos * m + ((q + h) % Nanos) /\ ((q + h) % Nanos) \in 0 .. Nanos - 1
      <4>. DEFINE n == q + h
      <4>. HIDE DEF n
      <4>1. n \in Int
        BY <3>1 DEF n
      <4>2. n = Nanos * (n \div Nanos) + (n % Nanos) /\ (n % Nanos) \in 0 .. Nanos - 1
        BY <2>1, <4>1, Division
      <4>. QED
        BY <4>2 DEF n
    <3>3. m \in Nat
      BY <2>1, <3>1
    <3>4. Nanos * m = m * Nanos
      BY <2>1, <3>3
    <3>. HIDE DEF m
    <3>. QED
      BY <2>1, <2>2, <2>4, <2>7, <3>1, <3>2, <3>3, <3>4
  <2>10. m <= k
    <3>1. q + h < Nanos * (k + 1)
      BY <2>1, <2>2, <2>4, <2>7
    <3>2. m * Nanos < (k + 1) * Nanos
      <4>. HIDE DEF m
      <4>. QED
        BY <2>1, <2>2, <2>4, <2>7, <2>9, <3>1
    <3>3. m < k + 1
      <4>. HIDE DEF m
      <4>. QED
        BY <2>1, <2>2, <2>9, <3>2
    <3>. QED
      BY <2>2, <2>9, <3>3
  <2>. HIDE DEF m
  <2>11. m * Nanos \in 0 .. MaxDuration
    <3>1. m * Nanos <= k * Nanos
      BY <2>1, <2>2, <2>9, <2>10
    <3>. QED
      BY <2>1, <2>2, <2>9, <3>1
  <2>12. 2 * ((m * Nanos) * r - x) <= r * Nanos
    <3>1. 2 * (m * Nanos - q) <= Nanos
      BY <2>1, <2>2, <2>4, <2>7, <2>9
    <3>2. (2 * (m * Nanos - q)) * r <= Nanos * r
      BY <2>1, <2>2, <2>4, <2>9, <3>1
    <3>3. 2 * (r * q - x) <= 0
      BY <2>1, <2>2, <2>4, <2>8
    <3>4. 2 * ((m * Nanos) * r - x) = (2 * (m * Nanos - q)) * r + 2 * (r * q - x)
      BY <2>1, <2>2, <2>4, <2>9
    <3>. QED
      BY <2>1, <2>2, <2>4, <2>9, <3>2, <3>3, <3>4
  <2>13. -2 * ((m * Nanos) * r - x) <= r * (Nanos + 2)
    <3>1. 2 * (q - m * Nanos) <= Nanos
      BY <2>1, <2>2, <2>4, <2>7, <2>9
    <3>2. (2 * (q - m * Nanos)) * r <= Nanos * r
      BY <2>1, <2>2, <2>4, <2>9, <3>1
    <3>3. 2 * (x - r * q) <= 2 * r
      BY <2>1, <2>2, <2>4, <2>8
    <3>4. -2 * ((m * Nanos) * r - x) = (2 * (q - m * Nanos)) * r + 2 * (x - r * q)
      BY <2>1, <2>2, <2>4, <2>9
    <3>. QED
      BY <2>1, <2>2, <2>4, <2>9, <3>2, <3>3, <3>4
  <2>. QED
    BY <2>1, <2>6, <2>11, <2>12, <2>13 DEF x
<1>. QED
  BY <1>1, <1>2

-----------------------------------------------------------------------------
\* A sample that measures keeps the rate between, grained and fading.
LEMMA MeasuredKeeps ==
  ASSUME IInv, NEW done \in 0 .. Total, NEW elapsed \in Elapsed,
         Stage(done, elapsed), Measures(done, elapsed)
  PROVE  /\ rate' \in Nat /\ lo' \in Int /\ hi' \in Int /\ steady' \in Steady
         /\ 0 <= lo' /\ lo' <= rate' /\ rate' <= hi'
         /\ Grained' /\ Fading'
<1>. USE DEF IInv
<1>. DEFINE pace == Instant(elapsed, done - lastBytes)
<1>1. elapsed \in Nat \ {0} /\ elapsed > 0 /\ done - lastBytes \in Nat /\ Window \in Nat \ {0}
  BY ThroughputAssumption, Constants DEF Measures, TypeOK
<1>2. pace \in Nat
  BY <1>1, InstantType
<1>3. /\ rate' = Filtered(rate, elapsed, pace)
      /\ lo' = IF lo = Unmeasured \/ pace < lo THEN pace ELSE lo
      /\ hi' = IF pace > hi THEN pace ELSE hi
      /\ steady' = IF pace = steady.pace THEN [steady EXCEPT !.ticks = @ + elapsed]
                   ELSE [pace |-> pace, ticks |-> elapsed, before |-> rate]
      /\ samples' = samples + 1 /\ samples < MaxSamples
  BY DEF Stage, Sample, Measured
<1>4. samples \in 0 .. MaxSamples /\ Multiple(rate, Grain[samples])
  BY DEF Grained, TypeOK
<1>5. /\ Multiple(Filtered(rate, elapsed, pace), Grain[samples + 1])
      /\ \/ Filtered(rate, elapsed, pace) = pace
         \/ elapsed < Window /\ Mean(Window, elapsed, rate, pace, Filtered(rate, elapsed, pace))
  BY <1>1, <1>3, <1>4, FilterExact
<1>. HIDE DEF pace
<1>6. rate \in Nat /\ lo \in Int /\ hi \in Int /\ steady \in Steady
  BY DEF TypeOK
<1>7. /\ rate' \in Nat
      /\ rate # 0 /\ rate <= pace => rate <= rate' /\ rate' <= pace
      /\ pace <= rate => pace <= rate' /\ rate' <= rate
  BY <1>1, <1>2, <1>3, <1>6, FilterBetween
<1>8. 0 <= lo' /\ lo' <= rate' /\ rate' <= hi' /\ lo' \in Int /\ hi' \in Int
  <2>1. rate = 0 => rate' = pace
    BY <1>3 DEF Filtered
  <2>. QED
    BY <1>2, <1>3, <1>6, <1>7, <2>1 DEF Between, Unmeasured
<1>9. Grained'
  BY <1>3, <1>5 DEF Grained
<1>10. /\ steady' \in Steady /\ steady'.pace = pace
       /\ \/ steady'.ticks = steady.ticks + elapsed /\ steady'.before = steady.before /\ steady.pace = pace
          \/ steady'.ticks = 0 + elapsed /\ steady'.before = rate
  BY <1>1, <1>2, <1>3, <1>6 DEF Steady
<1>11. Fading'
  <2>. DEFINE d == Apart(rate, pace)
              d1 == Apart(rate', pace)
  <2>1. d \in Nat /\ d1 \in Nat
    <3>1. rate \in Int /\ rate' \in Int /\ pace \in Int
      BY <1>2, <1>6, <1>7
    <3>. QED
      BY <3>1, ApartType
  <2>2. d1 = 0 \/ (elapsed < Window /\ d1 * Window = d * (Window - elapsed))
    <3>1. CASE rate' = pace
      BY <1>2, <3>1 DEF Apart
    <3>2. CASE elapsed < Window /\ Mean(Window, elapsed, rate, pace, rate')
      <4>1. elapsed \in Nat /\ elapsed <= Window
        BY <1>1, <3>2
      <4>2. d1 * Window = d * (Window - elapsed)
        BY <1>1, <1>2, <1>6, <1>7, <3>2, <4>1, ApartStep
      <4>. QED
        BY <3>2, <4>2
    <3>. QED
      BY <1>3, <1>5, <3>1, <3>2
  <2>. HIDE DEF d, d1
  <2>3. CASE steady'.ticks = steady.ticks + elapsed /\ steady'.before = steady.before /\ steady.pace = pace
    <3>. DEFINE d0 == Apart(steady.before, pace)
    <3>1. d0 \in Nat /\ steady.ticks \in Nat
      BY <1>2, <1>6 DEF Apart, Steady
    <3>2. Faded(Window, steady.ticks, d, d0)
      BY <2>3 DEF Fading, d
    <3>. HIDE DEF d0
    <3>3. Faded(Window, steady.ticks + elapsed, d1, d0)
      BY <1>1, <2>1, <2>2, <3>1, <3>2, FadeStep
    <3>. QED
      BY <1>10, <2>3, <3>3 DEF Fading, d0, d1
  <2>4. CASE steady'.ticks = 0 + elapsed /\ steady'.before = rate
    <3>1. Faded(Window, 0, d, d)
      BY <1>1, <2>1 DEF Faded, Left
    <3>2. Faded(Window, 0 + elapsed, d1, d)
      BY <1>1, <2>1, <2>2, <3>1, FadeStep
    <3>. QED
      BY <1>10, <2>4, <3>2 DEF Fading, d, d1
  <2>. QED
    BY <1>10, <2>3, <2>4
<1>. QED
  BY <1>7, <1>8, <1>9, <1>10, <1>11

\* A staging event keeps the invariant, whether its sample measures or is dropped.
LEMMA StageKeeps ==
  ASSUME IInv, NEW done \in 0 .. Total, NEW elapsed \in Elapsed, Stage(done, elapsed)
  PROVE  IInv'
<1>. USE DEF IInv
<1>1. /\ samples < MaxSamples /\ samples' = samples + 1 /\ sampled' = TRUE /\ lastBytes' = done
      /\ shown' = [rate |-> rate', remaining |-> Remaining(Total - done, rate'),
                   done |-> done, total |-> Total]
  BY DEF Stage, Sample
<1>2. /\ rate' \in Nat /\ lo' \in Int /\ hi' \in Int /\ steady' \in Steady
      /\ IF lo' = Unmeasured THEN rate' = 0 /\ hi' = Unmeasured
         ELSE 0 <= lo' /\ lo' <= rate' /\ rate' <= hi'
      /\ Grained' /\ Fading'
  <2>1. CASE Measures(done, elapsed)
    <3>1. 0 <= lo' /\ lo' \in Int => lo' # Unmeasured
      BY DEF Unmeasured
    <3>. QED
      BY <2>1, <3>1, MeasuredKeeps
  <2>2. CASE ~Measures(done, elapsed)
    <3>1. UNCHANGED <<rate, lo, hi, steady>>
      BY <2>2 DEF Stage, Sample, Measured
    <3>2. Grained'
      <4>1. PICK k \in Nat : rate = Grain[samples] * k
        BY DEF Grained, Multiple
      <4>2. /\ samples + 1 \in 1 .. MaxSamples /\ (samples + 1) - 1 = samples
            /\ samples + 1 \in 0 .. MaxSamples
        BY <1>1, Constants DEF TypeOK
      <4>3. Grain[samples] = Window * Grain[samples + 1] /\ Grain[samples + 1] \in Nat
        BY <4>2, ThroughputAssumption
      <4>4. rate' = Grain[samples + 1] * (Window * k) /\ Window * k \in Nat
        BY <3>1, <4>1, <4>3, Constants
      <4>. QED
        BY <1>1, <4>4 DEF Grained, Multiple
    <3>. QED
      BY <3>1, <3>2 DEF TypeOK, Between, Fading
  <2>. QED
    BY <2>1, <2>2
<1>3. /\ Remaining(Total - done, rate') \in 0 .. MaxDuration
      /\ rate' = 0 => Remaining(Total - done, rate') = 0
      /\ Remaining(Total - done, rate') # 0 =>
           /\ 2 * (Remaining(Total - done, rate') * rate' - (Total - done) * Scale * Nanos) <= rate' * Nanos
           /\ -2 * (Remaining(Total - done, rate') * rate' - (Total - done) * Scale * Nanos)
                <= rate' * (Nanos + 2)
  <2>1. Total - done \in Int
    BY Constants
  <2>. QED
    BY <1>2, <2>1, RemainingFacts
<1>4. TypeOK'
  BY <1>1, <1>2, <1>3, Constants DEF TypeOK, Shown
<1>5. Between'
  BY <1>1, <1>2, <1>3 DEF Between
<1>6. RemainingIsHonest'
  BY <1>1, <1>3 DEF RemainingIsHonest
<1>. QED
  BY <1>2, <1>4, <1>5, <1>6

\* A phase that stages nothing, and a Reset, leave no estimate behind.
LEMMA ClearKeeps ==
  ASSUME shown \in Shown, Elsewhere \/ PanelReset
  PROVE  IInv'
<1>1. /\ sampled' = FALSE /\ lastBytes' = 0 /\ rate' = 0 /\ samples' = 0
      /\ lo' = Unmeasured /\ hi' = Unmeasured /\ steady' = Nothing
      /\ shown' \in Shown /\ shown'.rate = 0 /\ shown'.remaining = 0
  <2>1. Blank \in Shown /\ Blank.rate = 0 /\ Blank.remaining = 0
    BY DEF Blank, Shown
  <2>2. CASE PanelReset
    BY <2>1, <2>2 DEF PanelReset
  <2>3. CASE Elsewhere
    <3>1. shown' = [shown EXCEPT !.rate = 0, !.remaining = 0, !.done = 0, !.total = 0]
      BY <2>3 DEF Elsewhere, Clear
    <3>2. shown' \in Shown /\ shown'.rate = 0 /\ shown'.remaining = 0
      <4>1. shown = [rate |-> shown.rate, remaining |-> shown.remaining, done |-> shown.done,
                     total |-> shown.total]
        BY DEF Shown
      <4>2. shown' = [rate |-> 0, remaining |-> 0, done |-> 0, total |-> 0]
        BY <3>1, <4>1
      <4>. QED
        BY <4>2 DEF Shown
    <3>. QED
      BY <2>3, <3>2 DEF Elsewhere, Clear
  <2>. QED
    BY <2>2, <2>3
<1>2. TypeOK' /\ Between'
  <2>1. Nothing \in Steady /\ Unmeasured \in Int
    BY DEF Nothing, Steady, Unmeasured
  <2>2. 0 \in 0 .. MaxSamples
    BY Constants
  <2>. QED
    BY <1>1, <2>1, <2>2 DEF TypeOK, Between
<1>3. Grained'
  <2>1. Grain[0] \in Nat
    BY ThroughputAssumption, Constants
  <2>2. 0 = Grain[0] * 0
    BY <2>1
  <2>. QED
    BY <1>1, <2>2 DEF Grained, Multiple
<1>4. Fading'
  <2>1. Apart(0, -1) = 1
    BY DEF Apart
  <2>2. Faded(Window, 0, 1, 1)
    BY Constants DEF Faded, Left
  <2>. QED
    BY <1>1, <2>1, <2>2 DEF Fading, Nothing, Unmeasured
<1>5. RemainingIsHonest'
  BY <1>1, Constants DEF RemainingIsHonest
<1>. QED
  BY <1>2, <1>3, <1>4, <1>5 DEF IInv

\* The inductive invariant of the estimate.
LEMMA EstimateInvariance == Spec => []IInv
<1>1. Init => IInv
  <2>. SUFFICES ASSUME Init PROVE IInv
    OBVIOUS
  <2>1. Grain[0] \in Nat /\ Window \in Nat \ {0} /\ MaxSamples \in Nat /\ MaxDuration \in Nat
    BY ThroughputAssumption, Constants
  <2>2. TypeOK /\ Between /\ RemainingIsHonest
    <3>1. Nothing \in Steady /\ Unmeasured \in Int /\ 0 \in 0 .. MaxSamples
      BY <2>1 DEF Nothing, Steady, Unmeasured
    <3>2. Blank \in Shown /\ Blank.rate = 0 /\ Blank.remaining = 0
      BY DEF Blank, Shown
    <3>3. TypeOK /\ Between
      BY <3>1, <3>2 DEF Init, TypeOK, Between
    <3>. QED
      BY <2>1, <3>2, <3>3 DEF Init, RemainingIsHonest
  <2>3. Grained
    <3>1. 0 = Grain[0] * 0
      BY <2>1
    <3>. QED
      BY <3>1 DEF Init, Grained, Multiple
  <2>4. Apart(0, -1) = 1 /\ Faded(Window, 0, 1, 1)
    BY <2>1 DEF Apart, Faded, Left
  <2>5. Fading
    BY <2>4 DEF Init, Fading, Nothing, Unmeasured
  <2>. QED
    BY <2>2, <2>3, <2>5 DEF IInv
<1>2. IInv /\ [Next]_vars => IInv'
  <2>. SUFFICES ASSUME IInv, [Next]_vars PROVE IInv'
    OBVIOUS
  <2>1. CASE UNCHANGED vars
    BY <2>1 DEF vars, estimate, IInv, TypeOK, Between, Grained, Fading, RemainingIsHonest
  <2>2. CASE Elsewhere \/ PanelReset
    BY <2>2, ClearKeeps DEF IInv, TypeOK
  <2>. QED
    BY <2>1, <2>2, StageKeeps DEF Next
<1>. QED
  BY <1>1, <1>2, PTL DEF Spec

\* The rate shown lies among those measured since staging began: the filter
\* neither overshoots nor remembers (progress.go sample, reset).
THEOREM MeasuredProved == Spec => []RateIsMeasured
<1>1. IInv => RateIsMeasured
  BY DEF IInv, TypeOK, Between, RateIsMeasured
<1>. QED
  BY <1>1, EstimateInvariance, PTL

\* A time that is shown is the rest at the rate shown, to half a second, and
\* never a number that wrapped (progress.go remaining).
THEOREM HonestProved == Spec => []RemainingIsHonest
<1>1. IInv => RemainingIsHonest
  BY DEF IInv
<1>. QED
  BY <1>1, EstimateInvariance, PTL

\* Of a change of pace, three eighths at most are left after a window, in
\* however many samples it comes (progress.go rateWindow, sample).
THEOREM ReactsProved == Spec => []RateReacts
<1>1. IInv => RateReacts
  BY DEF IInv, Fading, Faded, Apart, RateReacts
<1>. QED
  BY <1>1, EstimateInvariance, PTL

=============================================================================
