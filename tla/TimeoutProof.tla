---------------------------- MODULE TimeoutProof ----------------------------
(***************************************************************************)
(* The timing wheel files every timeout in a bucket that turns in time, on *)
(* one queue only, and calls it when TimeoutSpec says, for wheels of any   *)
(* size, any timeouts and any delays.                                      *)
(***************************************************************************)
EXTENDS Timeout, QueueProof

-----------------------------------------------------------------------------
\* Numbers.

\* Division with remainder, by any positive number.
LEMMA DivMod ==
  ASSUME NEW x \in Int, NEW m \in Nat \ {0}
  PROVE  /\ x \div m \in Int /\ x % m \in 0..(m - 1)
         /\ x = m * (x \div m) + (x % m)
  OBVIOUS

\* There is only one way to divide.
LEMMA DivUnique ==
  ASSUME NEW q \in Int, NEW m \in Nat \ {0}, NEW r \in 0..(m - 1)
  PROVE  (m * q + r) \div m = q /\ (m * q + r) % m = r
<1> DEFINE x == m * q + r
           p == x \div m
           s == x % m
<1>1. m * q \in Int /\ x \in Int
  OBVIOUS
<1>2. p \in Int /\ s \in 0..(m - 1) /\ x = m * p + s
  BY <1>1, DivMod
<1>3. m * (q - p) = s - r
  BY <1>1, <1>2
<1>4. q - p = 0
  <2>1. CASE q - p >= 1
    <3>1. m * (q - p) >= m
      BY <1>2, <2>1
    <3> QED BY <1>2, <1>3, <3>1
  <2>2. CASE q - p <= -1
    <3>1. m * (q - p) <= -m
      BY <1>2, <2>2
    <3> QED BY <1>2, <1>3, <3>1
  <2> QED BY <1>2, <2>1, <2>2
<1> QED BY <1>2, <1>3, <1>4

\* Half the number of ints.
Half == INT_MAX + 1

\* The sizes of the levels; the four of them cover all ints.
LEMMA Spans ==
  /\ WHEELSIZE \in Nat \ {0}
  /\ span(0) = 1 /\ span(1) = WHEELSIZE /\ span(2) = span(1) * WHEELSIZE
  /\ span(3) = span(2) * WHEELSIZE /\ span(4) = span(3) * WHEELSIZE
  /\ \A n \in 0..4 : span(n) \in Nat \ {0}
  /\ Half \in Nat \ {0} /\ 2 * Half = span(4)
  /\ \E h \in Nat \ {0} : WHEELSIZE = 2 * h /\ Half = span(3) * h
<1>1. WHEELSIZE \in Nat \ {0} /\ WHEELSIZE % 2 = 0
  BY WheelAssumption
<1>2. PICK W \in Nat \ {0} : W = WHEELSIZE
  BY <1>1
<1>3. /\ span(0) = 1 /\ span(1) = W /\ span(2) = W * W
      /\ span(3) = W * W * W /\ span(4) = W * W * W * W
  BY <1>2 DEF span
<1>4. PICK h \in Nat \ {0} : W = 2 * h
  <2>1. W = 2 * (W \div 2)
    BY <1>1, <1>2
  <2>2. W \div 2 \in Nat \ {0}
    BY <2>1
  <2> QED BY <2>1, <2>2
<1>5. W * W \in Nat \ {0}
  OBVIOUS
<1>6. W * W * W \in Nat \ {0}
  BY <1>5
<1>7. W * W * W * W \in Nat \ {0}
  BY <1>6
<1>8. PICK c \in Nat \ {0} : c = W * W * W
  BY <1>6
<1>9. span(4) = 2 * (c * h)
  BY <1>3, <1>4, <1>8
<1>10. c * h \in Nat \ {0}
  OBVIOUS
<1>11. Half = c * h
  <2>1. (2 * (c * h)) \div 2 = c * h
    BY <1>10
  <2> QED BY <1>9, <1>10, <2>1 DEF Half, INT_MAX
<1>12. \A n \in 0..4 : span(n) \in Nat \ {0}
  <2>1. \A n \in 0..4 : n = 0 \/ n = 1 \/ n = 2 \/ n = 3 \/ n = 4
    OBVIOUS
  <2> QED BY <1>3, <1>5, <1>6, <1>7, <2>1
<1> QED BY <1>1, <1>2, <1>3, <1>4, <1>8, <1>9, <1>10, <1>11, <1>12

\* The int that a sum or a difference of two ints wraps to.
LEMMA IntIs ==
  ASSUME NEW x \in Int
  PROVE  /\ int(x) \in -Half..(Half - 1)
         /\ x \in -(2 * Half)..(2 * Half - 1) =>
              int(x) = IF x >= Half THEN x - 2 * Half
                       ELSE IF x < -Half THEN x + 2 * Half ELSE x
<1>1. PICK H \in Nat \ {0} : H = Half
  BY Spans
<1>2. int(x) = ((x + H) % (2 * H)) - H
  <2>1. INT_MAX \in Int /\ H = INT_MAX + 1
    BY <1>1, Spans, WheelAssumption DEF Half, INT_MAX
  <2>2. x + INT_MAX + 1 = x + H
    BY <2>1
  <2> QED BY <2>1, <2>2 DEF int
<1>3. (x + H) % (2 * H) \in 0..(2 * H - 1)
  BY DivMod
<1>4. ASSUME NEW q \in -1..1, NEW r \in 0..(2 * H - 1), x + H = (2 * H) * q + r
      PROVE  int(x) = r - H
  <2>1. PICK m \in Nat \ {0} : m = 2 * H
    OBVIOUS
  <2>2. q \in Int /\ r \in 0..(m - 1) /\ x + H = m * q + r
    BY <1>4, <2>1
  <2>3. (m * q + r) % m = r
    BY <2>2, DivUnique
  <2> QED BY <1>2, <2>1, <2>2, <2>3
<1>5. CASE x \in H..(2 * H - 1)
  <2>1. x - H \in 0..(2 * H - 1) /\ x + H = (2 * H) * 1 + (x - H)
    BY <1>5
  <2>2. int(x) = x - H - H
    BY <1>4, <2>1
  <2> QED BY <1>1, <1>5, <2>2
<1>6. CASE x \in -(2 * H)..(-H - 1)
  <2>1. x + H + 2 * H \in 0..(2 * H - 1) /\ x + H = (2 * H) * (-1) + (x + H + 2 * H)
    BY <1>6
  <2>2. int(x) = x + H + 2 * H - H
    BY <1>4, <2>1
  <2> QED BY <1>1, <1>6, <2>2
<1>7. CASE x \in -H..(H - 1)
  <2>1. x + H \in 0..(2 * H - 1) /\ x + H = (2 * H) * 0 + (x + H)
    BY <1>7
  <2>2. int(x) = x + H - H
    BY <1>4, <2>1
  <2> QED BY <1>1, <1>7, <2>2
<1>8. int(x) \in -H..(H - 1)
  BY <1>2, <1>3
<1>9. x \in -(2 * H)..(2 * H - 1) =>
         x \in H..(2 * H - 1) \/ x \in -(2 * H)..(-H - 1) \/ x \in -H..(H - 1)
  OBVIOUS
<1> QED BY <1>1, <1>5, <1>6, <1>7, <1>8, <1>9

\* The tick at which the clock is next, or just was, at the start of a bucket
\* of a level: lower levels are at 0 then, and this one where it was.
LEMMA BucketStart ==
  ASSUME NEW w \in 0..3, NEW x \in -Half..(Half - 1)
  PROVE  LET y == x - (x % span(w))
         IN  /\ x % span(w) \in 0..(span(w) - 1)
             /\ y \in -Half..(Half - 1)
             /\ turned(w, y) /\ moved(w, y) = moved(w, x)
<1>1. PICK H \in Nat \ {0} : H = Half
  BY Spans
<1>2. PICK W \in Nat \ {0} : W = WHEELSIZE
  BY Spans
<1>3. PICK m \in Nat \ {0} : m = span(w)
  BY Spans
<1>4. x \in Int /\ x >= -H /\ x < H
  BY <1>1
<1>5. PICK d \in Int, s \in 0..(m - 1) : x = m * d + s /\ x % m = s /\ x \div m = d
  BY <1>4, DivMod
<1>6. PICK y \in Int : y = x - s /\ y = m * d
  BY <1>4, <1>5
<1>7. y \in -H..(H - 1)
  <2>1. PICK h \in Nat \ {0} : H = m * h
    <3>1. PICK h \in Nat \ {0} : W = 2 * h /\ H = span(3) * h
      BY <1>1, <1>2, Spans
    <3>2. PICK a \in Nat, b \in Nat, c \in Nat : a = span(1) /\ b = span(2) /\ c = span(3)
      BY Spans
    <3>3. a = W /\ b = a * W /\ c = b * W
      BY <1>2, <3>2, Spans
    <3>4. H = c * h /\ H = b * (W * h) /\ H = a * (W * (W * h)) /\ H = 1 * H
      BY <3>1, <3>2, <3>3
    <3>5. W * h \in Nat \ {0} /\ W * (W * h) \in Nat \ {0}
      <4>1. W * h \in Nat \ {0}
        OBVIOUS
      <4> QED BY <4>1
    <3>6. w = 0 \/ w = 1 \/ w = 2 \/ w = 3
      OBVIOUS
    <3> QED BY <1>3, <3>2, <3>4, <3>5, <3>6, Spans
  <2>2. d >= -h
    <3> SUFFICES ASSUME d + h + 1 <= 0 PROVE FALSE
      OBVIOUS
    <3>1. m * (d + h + 1) <= 0
      OBVIOUS
    <3>2. m * (d + h + 1) = m * d + H + m
      BY <2>1
    <3> QED BY <1>4, <1>5, <3>1, <3>2
  <2>3. m * (d + h) >= 0
    BY <2>2
  <2>4. m * (d + h) = y + H
    BY <1>6, <2>1
  <2> QED BY <1>4, <1>6, <2>3, <2>4
<1>8. y \div m = d
  <2>1. 0 \in 0..(m - 1)
    OBVIOUS
  <2>2. (m * d + 0) \div m = d
    BY <2>1, DivUnique
  <2>3. m * d + 0 = y
    BY <1>6
  <2> QED BY <2>2, <2>3
<1>9. moved(w, y) = moved(w, x)
  BY <1>3, <1>5, <1>8 DEF moved, MASKWHEEL
<1>10. turned(w, y)
  <2> SUFFICES ASSUME NEW v \in 0..(w - 1) PROVE (y \div span(v)) % WHEELSIZE = 0
    BY DEF turned, MASKWHEEL
  <2>1. PICK p \in Nat \ {0} : p = span(v)
    BY Spans
  <2>2. PICK k \in Nat \ {0} : m = p * (W * k)
    <3>1. PICK a \in Nat \ {0}, b \in Nat \ {0}, c \in Nat \ {0} :
            a = span(1) /\ b = span(2) /\ c = span(3)
      BY Spans
    <3>2. a = W /\ b = a * W /\ c = b * W /\ span(0) = 1
      BY <1>2, <3>1, Spans
    <3>3. /\ a = 1 * (W * 1) /\ b = 1 * (W * W) /\ c = 1 * (W * (W * W))
          /\ b = a * (W * 1) /\ c = a * (W * W) /\ c = b * (W * 1)
      BY <3>2
    <3>4. W * W \in Nat \ {0}
      OBVIOUS
    <3>5. CASE v = 0 /\ w = 1
      BY <1>3, <2>1, <3>1, <3>2, <3>3, <3>5
    <3>6. CASE v = 0 /\ w = 2
      BY <1>3, <2>1, <3>1, <3>2, <3>3, <3>6
    <3>7. CASE v = 0 /\ w = 3
      BY <1>3, <2>1, <3>1, <3>2, <3>3, <3>4, <3>7
    <3>8. CASE v = 1 /\ w = 2
      BY <1>3, <2>1, <3>1, <3>3, <3>8
    <3>9. CASE v = 1 /\ w = 3
      BY <1>3, <2>1, <3>1, <3>3, <3>9
    <3>10. CASE v = 2 /\ w = 3
      BY <1>3, <2>1, <3>1, <3>3, <3>10
    <3>11. v \in {0, 1, 2} /\ w \in {1, 2, 3} /\ v < w
      OBVIOUS
    <3> QED BY <3>5, <3>6, <3>7, <3>8, <3>9, <3>10, <3>11
  <2>3. PICK e \in Int : e = k * d
    BY <1>5
  <2>4. W * e \in Int
    OBVIOUS
  <2>5. y = p * (W * e)
    <3>1. (p * (W * k)) * d = p * (W * (k * d))
      OBVIOUS
    <3> QED BY <1>6, <2>2, <2>3, <3>1
  <2>6. (p * (W * e) + 0) \div p = W * e
    <3>1. 0 \in 0..(p - 1)
      OBVIOUS
    <3> QED BY <2>4, <3>1, DivUnique
  <2>7. (W * e + 0) % W = 0
    <3>1. 0 \in 0..(W - 1)
      OBVIOUS
    <3> QED BY <3>1, DivUnique
  <2>8. p * (W * e) + 0 = y /\ W * e + 0 = W * e
    BY <2>4, <2>5
  <2> QED BY <1>2, <2>1, <2>6, <2>7, <2>8
<1> QED BY <1>1, <1>3, <1>5, <1>6, <1>7, <1>9, <1>10

\* Ints, and what the clock does to them.
Ints == -Half..(Half - 1)

\* The range that TypeOK gives an int.
LEMMA IntSet == (-INT_MAX - 1)..INT_MAX = Ints /\ INT_MAX \in Nat /\ Ints \subseteq Int
<1>1. PICK H \in Nat \ {0} : H = Half
  BY Spans
<1>2. INT_MAX \in Int
  BY Spans DEF INT_MAX
<1>3. INT_MAX = H - 1
  BY <1>1, <1>2 DEF Half
<1> QED BY <1>1, <1>3 DEF Ints

\* Ticks go on, and every timeout comes as much nearer as the clock has moved,
\* unless the difference wraps.
LEMMA Advanced ==
  ASSUME NEW k \in Ints, NEW a \in 0..(Half - 1)
  PROVE  /\ int(k + a) \in Ints
         /\ \A b \in 0..(Half - 1) : a + b < Half => int(int(k + a) + b) = int(k + a + b)
         /\ \A x \in Ints : int(x - k) - a >= -Half => int(x - int(k + a)) = int(x - k) - a
<1>1. PICK H \in Nat \ {0} : H = Half
  BY Spans
<1>2. \A x \in Int :
         /\ int(x) \in -H..(H - 1)
         /\ x >= H /\ x < 2 * H => int(x) = x - 2 * H
         /\ x >= -(2 * H) /\ x < -H => int(x) = x + 2 * H
         /\ x >= -H /\ x < H => int(x) = x
  <2> TAKE x \in Int
  <2>1. /\ int(x) \in -H..(H - 1)
        /\ x \in -(2 * H)..(2 * H - 1) =>
              int(x) = IF x >= H THEN x - 2 * H ELSE IF x < -H THEN x + 2 * H ELSE x
    BY <1>1, IntIs
  <2> QED BY <2>1
<1>3. Ints = -H..(H - 1) /\ k \in -H..(H - 1) /\ a \in 0..(H - 1)
  BY <1>1 DEF Ints
<1>4. int(k + a) = k + a \/ (int(k + a) = k + a - 2 * H /\ k + a >= H)
  BY <1>2, <1>3
<1>5. ASSUME NEW b \in 0..(H - 1), a + b < H PROVE int(int(k + a) + b) = int(k + a + b)
  <2>1. CASE int(k + a) = k + a
    BY <1>3, <2>1
  <2>2. CASE int(k + a) = k + a - 2 * H /\ k + a >= H
    <3>1. int(k + a + b) = k + a + b - 2 * H
      BY <1>2, <1>3, <1>5, <2>2
    <3>2. int(k + a - 2 * H + b) = k + a - 2 * H + b
      BY <1>2, <1>3, <1>5, <2>2
    <3> QED BY <1>3, <1>5, <2>2, <3>1, <3>2
  <2> QED BY <1>4, <2>1, <2>2
<1>6. ASSUME NEW x \in -H..(H - 1), int(x - k) - a >= -H
      PROVE  int(x - int(k + a)) = int(x - k) - a
  <2>1. x - k \in Int /\ x - k >= -(2 * H) /\ x - k < 2 * H
    BY <1>3
  <2>2. PICK r \in -H..(H - 1) : r = int(x - k)
    BY <1>2, <2>1
  <2>3. r = x - k \/ r = x - k - 2 * H \/ r = x - k + 2 * H
    BY <1>2, <2>1, <2>2
  <2>4. PICK j \in -H..(H - 1) : j = int(k + a) /\ (j = k + a \/ j = k + a - 2 * H)
    BY <1>2, <1>3, <1>4
  <2>5. x - j \in Int /\ x - j >= -(2 * H) /\ x - j < 2 * H
    BY <2>4
  <2>6. int(x - j) = x - j \/ int(x - j) = x - j - 2 * H \/ int(x - j) = x - j + 2 * H
    BY <1>2, <2>5
  <2>7. PICK z \in -H..(H - 1) : z = int(x - j)
    BY <1>2, <2>5
  <2>8. r - a >= -H /\ r - a < H
    BY <1>3, <1>6, <2>2
  <2>9. PICK g \in {0, 2 * H, -(2 * H)} : r = x - k + g
    BY <1>3, <2>3
  <2>10. PICK e \in {0, 2 * H} : j = k + a - e
    BY <1>3, <2>4
  <2>11. PICK f \in {0, 2 * H, -(2 * H)} : z = x - j + f
    BY <2>6, <2>7
  <2>12. z - (r - a) = e + f - g
    BY <1>3, <2>9, <2>10, <2>11
  <2>13. z - (r - a) < 2 * H /\ z - (r - a) > -(2 * H)
    BY <1>3, <2>8
  <2>14. e + f - g = 0
    BY <2>12, <2>13
  <2>15. z = r - a
    BY <1>3, <2>12, <2>14
  <2> QED BY <2>2, <2>4, <2>7, <2>15
<1> QED BY <1>1, <1>2, <1>3, <1>5, <1>6

\* A timeout set for a ticks from now is due in a ticks.
LEMMA Scheduled ==
  ASSUME NEW k \in Ints, NEW a \in 0..(Half - 1)
  PROVE  int(int(k + a) - k) = a
<1>1. PICK H \in Nat \ {0} : H = Half
  BY Spans
<1>2. /\ k \in -H..(H - 1) /\ a \in 0..(H - 1)
      /\ int(k + a) = IF k + a >= H THEN k + a - 2 * H ELSE k + a
  BY <1>1, IntIs DEF Ints
<1>3. CASE k + a >= H
  <2>1. int(k + a - 2 * H - k) = a
    <3>1. k + a - 2 * H - k = a - 2 * H /\ a - 2 * H \in Int
      BY <1>2
    <3>2. int(a - 2 * H) = a
      BY <1>1, <1>2, IntIs
    <3> QED BY <3>1, <3>2
  <2> QED BY <1>2, <1>3, <2>1
<1>4. CASE k + a < H
  <2>1. k + a - k = a /\ a \in Int
    BY <1>2
  <2>2. int(a) = a
    BY <1>1, <1>2, IntIs
  <2> QED BY <1>2, <1>4, <2>1, <2>2
<1> QED BY <1>2, <1>3, <1>4

\* The buckets of a level.
LEMMA MovedRange ==
  ASSUME NEW x \in Int
  PROVE  /\ BUCKETS \in Nat /\ TODO = BUCKETS
         /\ \A w \in 0..3 : moved(w, x) \in 0..(BUCKETS - 1)
         /\ \A v, w \in 0..3 : moved(v, x) = moved(w, x) => v = w
<1>1. PICK W \in Nat \ {0} : W = WHEELSIZE
  BY Spans
<1>2. ASSUME NEW w \in 0..3
      PROVE  moved(w, x) \in (w * W)..(w * W + W - 1)
  <2>1. PICK m \in Nat \ {0} : m = span(w)
    BY Spans
  <2>2. PICK d \in Int : d = x \div m
    BY DivMod
  <2>3. d % W \in 0..(W - 1)
    BY DivMod
  <2>4. w * W \in Nat
    OBVIOUS
  <2>5. moved(w, x) = (d % W) + w * W
    BY <1>1, <2>1, <2>2 DEF moved, MASKWHEEL
  <2> QED BY <2>3, <2>4, <2>5
<1>3. BUCKETS = 4 * W
  BY <1>1 DEF BUCKETS
<1>4. /\ moved(0, x) \in 0..(W - 1) /\ moved(1, x) \in W..(2 * W - 1)
      /\ moved(2, x) \in (2 * W)..(3 * W - 1) /\ moved(3, x) \in (3 * W)..(4 * W - 1)
  <2>1. /\ moved(0, x) \in (0 * W)..(0 * W + W - 1) /\ moved(1, x) \in (1 * W)..(1 * W + W - 1)
        /\ moved(2, x) \in (2 * W)..(2 * W + W - 1) /\ moved(3, x) \in (3 * W)..(3 * W + W - 1)
    BY <1>2
  <2> QED BY <2>1
<1>5. \A w \in 0..3 : w = 0 \/ w = 1 \/ w = 2 \/ w = 3
  OBVIOUS
<1> QED BY <1>3, <1>4, <1>5 DEF TODO

\* A timeout that is not due goes to a bucket that the clock reaches in time.
LEMMA FiledInTime ==
  ASSUME NEW k \in Ints, NEW x \in Ints, int(x - k) >= 1
  PROVE  /\ BUCKET(int(x - k), x) \in 0..(BUCKETS - 1)
         /\ \E n \in 1..int(x - k) : moves(BUCKET(int(x - k), x), int(k + n))
<1>1. PICK H \in Nat \ {0} : H = Half
  BY Spans
<1>2. k \in -H..(H - 1) /\ x \in -H..(H - 1) /\ x \in Int /\ x - k \in Int
  BY <1>1 DEF Ints
<1>3. PICK r \in 1..(H - 1) : r = int(x - k) /\ (r = x - k \/ r = x - k + 2 * H)
  <2>1. int(x - k) \in -H..(H - 1)
    BY <1>1, <1>2, IntIs
  <2>2. int(x - k) = x - k \/ int(x - k) = x - k + 2 * H \/ int(x - k) = x - k - 2 * H
    BY <1>1, <1>2, IntIs
  <2>3. PICK r \in -H..(H - 1) : r = int(x - k)
    BY <2>1
  <2>4. r >= 1 /\ (r = x - k \/ r = x - k + 2 * H \/ r = x - k - 2 * H)
    BY <2>2, <2>3
  <2>5. r # x - k - 2 * H
    BY <1>2, <2>4
  <2> QED BY <2>3, <2>4, <2>5
<1>4. PICK w \in 0..3 : w = level(r) /\ (w = 0 \/ r > span(w))
  BY <1>3, Spans DEF level
<1>5. PICK m \in Nat \ {0} : m = span(w)
  BY Spans
<1>6. PICK s \in 0..(m - 1) : s = x % m
  BY <1>2, DivMod
<1>7. /\ x - s \in -H..(H - 1)
      /\ turned(w, x - s) /\ moved(w, x - s) = moved(w, x)
  BY <1>1, <1>2, <1>5, <1>6, BucketStart DEF Ints
<1>8. r - s \in 1..r
  <2>1. w = 0 => m = 1
    BY <1>5, Spans
  <2> QED BY <1>3, <1>4, <1>5, <1>6, <2>1
<1>9. int(k + (r - s)) = x - s
  <2>1. k + (r - s) = x - s \/ k + (r - s) = (x - s) + 2 * H
    BY <1>2, <1>3, <1>6
  <2>2. k + (r - s) \in -H..(2 * H - 1)
    BY <1>2, <1>3, <1>8
  <2>3. PICK z \in -H..(2 * H - 1) : z = k + (r - s)
    BY <2>2
  <2>4. int(z) = IF z >= H THEN z - 2 * H ELSE IF z < -H THEN z + 2 * H ELSE z
    BY <1>1, IntIs
  <2>5. int(z) = x - s
    BY <1>2, <1>6, <1>7, <2>1, <2>3, <2>4
  <2> QED BY <2>3, <2>5
<1>10. BUCKET(r, x) = moved(w, x)
  BY <1>4 DEF BUCKET, moved
<1>11. moves(BUCKET(r, x), int(k + (r - s)))
  BY <1>7, <1>9, <1>10 DEF moves
<1>12. BUCKET(r, x) \in 0..(BUCKETS - 1)
  BY <1>2, <1>10, MovedRange
<1> QED BY <1>3, <1>8, <1>11, <1>12

-----------------------------------------------------------------------------
\* Queues.

\* The queues hold timeouts, each at most once and on one queue only.
Apart(q) == \A a, b \in 0..TODO : a # b => ToSet(q[a]) \cap ToSet(q[b]) = {}
Lists(q) ==
  /\ q \in [0..TODO -> Seq(Timeouts)]
  /\ \A b \in 0..TODO : IsInjective(q[b])
  /\ Apart(q)

\* One list after another.
LEMMA ConcatOnce ==
  ASSUME NEW T, NEW s \in Seq(T), NEW u \in Seq(T)
  PROVE  /\ s \o u \in Seq(T)
         /\ ToSet(s \o u) = ToSet(s) \cup ToSet(u)
         /\ IsInjective(s) /\ IsInjective(u) /\ ToSet(s) \cap ToSet(u) = {}
              => IsInjective(s \o u)
<1> DEFINE c == s \o u
<1>1. /\ c \in Seq(T) /\ Len(c) = Len(s) + Len(u)
      /\ DOMAIN c = 1..(Len(s) + Len(u)) /\ DOMAIN s = 1..Len(s) /\ DOMAIN u = 1..Len(u)
      /\ Len(s) \in Nat /\ Len(u) \in Nat
  OBVIOUS
<1>2. /\ \A i \in 1..Len(s) : c[i] = s[i]
      /\ \A i \in 1..Len(u) : c[Len(s) + i] = u[i]
  OBVIOUS
<1>3. \A i \in DOMAIN c : \/ i \in DOMAIN s /\ c[i] = s[i]
                          \/ i - Len(s) \in DOMAIN u /\ c[i] = u[i - Len(s)]
  <2> TAKE i \in DOMAIN c
  <2>1. i \in 1..Len(s) \/ i - Len(s) \in 1..Len(u)
    BY <1>1
  <2>2. i = Len(s) + (i - Len(s))
    BY <1>1
  <2> QED BY <1>1, <1>2, <2>1, <2>2
<1> HIDE DEF c
<1>4. ToSet(c) = ToSet(s) \cup ToSet(u)
  <2>1. ASSUME NEW i \in DOMAIN s PROVE i \in DOMAIN c /\ c[i] = s[i]
    BY <1>1, <1>2
  <2>2. ASSUME NEW i \in DOMAIN u PROVE Len(s) + i \in DOMAIN c /\ c[Len(s) + i] = u[i]
    BY <1>1, <1>2
  <2> QED BY <1>3, <2>1, <2>2 DEF ToSet
<1>5. ASSUME IsInjective(s), IsInjective(u), ToSet(s) \cap ToSet(u) = {}
      PROVE  IsInjective(c)
  <2> SUFFICES ASSUME NEW i \in DOMAIN c, NEW j \in DOMAIN c, c[i] = c[j]
               PROVE  i = j
    BY DEF IsInjective
  <2>1. CASE i \in DOMAIN s /\ c[i] = s[i] /\ j \in DOMAIN s /\ c[j] = s[j]
    BY <1>5, <2>1 DEF IsInjective
  <2>2. CASE /\ i - Len(s) \in DOMAIN u /\ c[i] = u[i - Len(s)]
             /\ j - Len(s) \in DOMAIN u /\ c[j] = u[j - Len(s)]
    <3>1. i - Len(s) = j - Len(s)
      BY <1>5, <2>2 DEF IsInjective
    <3> QED BY <1>1, <3>1
  <2>3. CASE i \in DOMAIN s /\ c[i] = s[i] /\ j - Len(s) \in DOMAIN u /\ c[j] = u[j - Len(s)]
    BY <1>5, <2>3 DEF ToSet
  <2>4. CASE j \in DOMAIN s /\ c[j] = s[j] /\ i - Len(s) \in DOMAIN u /\ c[i] = u[i - Len(s)]
    BY <1>5, <2>4 DEF ToSet
  <2> QED BY <1>3, <2>1, <2>2, <2>3, <2>4
<1> QED BY <1>1, <1>4, <1>5 DEF c

\* Unlinking a timeout, and linking one at the tail of a queue.
LEMMA Removed ==
  ASSUME NEW q, Lists(q), NEW t
  PROVE  /\ Lists(CIRCQ_REMOVE(t, q))
         /\ \A b \in 0..TODO : ToSet(CIRCQ_REMOVE(t, q)[b]) = ToSet(q[b]) \ {t}
<1> DEFINE r == CIRCQ_REMOVE(t, q)
<1>1. DOMAIN q = 0..TODO /\ \A b \in 0..TODO : q[b] \in Seq(Timeouts) /\ IsInjective(q[b])
  BY DEF Lists
<1>2. r = [b \in 0..TODO |-> Without(q[b], {t})]
  BY <1>1 DEF CIRCQ_REMOVE
<1> HIDE DEF r
<1>3. ASSUME NEW b \in 0..TODO
      PROVE  r[b] \in Seq(Timeouts) /\ IsInjective(r[b]) /\ ToSet(r[b]) = ToSet(q[b]) \ {t}
  BY <1>1, <1>2, WithoutProperties
<1>4. r \in [0..TODO -> Seq(Timeouts)]
  BY <1>2, <1>3
<1>5. Apart(r)
  BY <1>3 DEF Apart, Lists
<1> QED BY <1>3, <1>4, <1>5 DEF Lists, r

\* The queue gets it as its last element, the others stay as they are.
LEMMA Inserted ==
  ASSUME NEW q, Lists(q), NEW t \in Timeouts, NEW c \in 0..TODO,
         \A b \in 0..TODO : t \notin ToSet(q[b])
  PROVE  /\ Lists(CIRCQ_INSERT(t, c, q))
         /\ \A b \in 0..TODO : ToSet(CIRCQ_INSERT(t, c, q)[b])
                                 = IF b = c THEN ToSet(q[b]) \cup {t} ELSE ToSet(q[b])
<1> DEFINE r == CIRCQ_INSERT(t, c, q)
<1>1. q \in [0..TODO -> Seq(Timeouts)] /\ \A b \in 0..TODO : IsInjective(q[b])
  BY DEF Lists
<1>2. /\ DOMAIN r = 0..TODO /\ r[c] = Append(q[c], t)
      /\ \A b \in 0..TODO : b # c => r[b] = q[b]
      /\ r \in [0..TODO -> {r[b] : b \in 0..TODO}]
  BY <1>1 DEF CIRCQ_INSERT
<1> HIDE DEF r
<1>3. ASSUME NEW b \in 0..TODO
      PROVE  /\ r[b] \in Seq(Timeouts) /\ IsInjective(r[b])
             /\ ToSet(r[b]) = IF b = c THEN ToSet(q[b]) \cup {t} ELSE ToSet(q[b])
  <2>1. q[b] \in Seq(Timeouts) /\ IsInjective(q[b]) /\ t \notin ToSet(q[b])
    BY <1>1
  <2>2. CASE b = c
    <3>1. r[b] = Append(q[b], t)
      BY <1>2, <2>2
    <3>2. /\ Append(q[b], t) \in Seq(Timeouts)
          /\ ToSet(Append(q[b], t)) = ToSet(q[b]) \cup {t}
          /\ IsInjective(Append(q[b], t))
      BY <2>1, AppendOnce
    <3> QED BY <2>2, <3>1, <3>2
  <2>3. CASE b # c
    BY <1>2, <2>1, <2>3
  <2> QED BY <2>2, <2>3
<1>4. r \in [0..TODO -> Seq(Timeouts)]
  BY <1>2, <1>3
<1>5. Apart(r)
  <2> SUFFICES ASSUME NEW a \in 0..TODO, NEW b \in 0..TODO, a # b, NEW u,
                      u \in ToSet(r[a]), u \in ToSet(r[b])
               PROVE  FALSE
    BY DEF Apart
  <2>1. ~(u \in ToSet(q[a]) /\ u \in ToSet(q[b]))
    BY DEF Lists, Apart
  <2> QED BY <1>3, <2>1
<1> QED BY <1>3, <1>4, <1>5 DEF Lists, r

\* What timeout_hardclock_update() makes of the queues, at tick x.
Turn(x) ==
  [b \in 0..TODO |->
     IF b = TODO
       THEN circq[TODO] \o MOVEBUCKET(0, x) \o MOVEBUCKET(1, x)
                        \o MOVEBUCKET(2, x) \o MOVEBUCKET(3, x)
     ELSE IF moves(b, x) THEN <<>> ELSE circq[b]]

\* No timeout is lost when buckets are moved, none is moved twice.
LEMMA TurnedQueues ==
  ASSUME Lists(circq), NEW x \in Int
  PROVE  /\ Lists(Turn(x))
         /\ \A t : t \in ToSet(Turn(x)[TODO])
              <=> \/ t \in ToSet(circq[TODO])
                  \/ \E b \in 0..(BUCKETS - 1) : moves(b, x) /\ t \in ToSet(circq[b])
         /\ \A b \in 0..(BUCKETS - 1) :
              ToSet(Turn(x)[b]) = IF moves(b, x) THEN {} ELSE ToSet(circq[b])
<1>1. /\ BUCKETS \in Nat /\ TODO = BUCKETS
      /\ \A w \in 0..3 : moved(w, x) \in 0..(BUCKETS - 1)
      /\ \A v, w \in 0..3 : moved(v, x) = moved(w, x) => v = w
  BY MovedRange
<1>2. /\ \A b \in 0..TODO : circq[b] \in Seq(Timeouts) /\ IsInjective(circq[b])
      /\ \A a, b \in 0..TODO : a # b => ToSet(circq[a]) \cap ToSet(circq[b]) = {}
  BY DEF Lists, Apart
<1>3. ToSet(<<>>) = {} /\ IsInjective(<<>>) /\ <<>> \in Seq(Timeouts)
  BY DEF ToSet, IsInjective
<1>4. ASSUME NEW w \in 0..3
      PROVE  /\ MOVEBUCKET(w, x) \in Seq(Timeouts) /\ IsInjective(MOVEBUCKET(w, x))
             /\ \A t : t \in ToSet(MOVEBUCKET(w, x))
                          <=> turned(w, x) /\ t \in ToSet(circq[moved(w, x)])
  <2>1. moved(w, x) \in 0..TODO
    BY <1>1
  <2> QED BY <1>2, <1>3, <2>1 DEF MOVEBUCKET
<1>5. \A v, w \in 0..3 : v # w => ToSet(MOVEBUCKET(v, x)) \cap ToSet(MOVEBUCKET(w, x)) = {}
  <2> SUFFICES ASSUME NEW v \in 0..3, NEW w \in 0..3, v # w, NEW t,
                      t \in ToSet(MOVEBUCKET(v, x)), t \in ToSet(MOVEBUCKET(w, x))
               PROVE  FALSE
    OBVIOUS
  <2>1. moved(v, x) \in 0..TODO /\ moved(w, x) \in 0..TODO /\ moved(v, x) # moved(w, x)
    BY <1>1
  <2> QED BY <1>2, <1>4, <2>1
<1>6. \A w \in 0..3 : ToSet(circq[TODO]) \cap ToSet(MOVEBUCKET(w, x)) = {}
  <2> SUFFICES ASSUME NEW w \in 0..3, NEW t,
                      t \in ToSet(circq[TODO]), t \in ToSet(MOVEBUCKET(w, x))
               PROVE  FALSE
    OBVIOUS
  <2>1. moved(w, x) \in 0..TODO /\ moved(w, x) # TODO /\ TODO \in 0..TODO
    BY <1>1
  <2> QED BY <1>2, <1>4, <2>1
<1>7. PICK s, m0, m1, m2, m3 :
        /\ s = circq[TODO] /\ m0 = MOVEBUCKET(0, x) /\ m1 = MOVEBUCKET(1, x)
        /\ m2 = MOVEBUCKET(2, x) /\ m3 = MOVEBUCKET(3, x)
  OBVIOUS
<1>8. /\ s \in Seq(Timeouts) /\ m0 \in Seq(Timeouts) /\ m1 \in Seq(Timeouts)
      /\ m2 \in Seq(Timeouts) /\ m3 \in Seq(Timeouts)
      /\ IsInjective(s) /\ IsInjective(m0) /\ IsInjective(m1) /\ IsInjective(m2)
      /\ IsInjective(m3)
  <2>1. TODO \in 0..TODO /\ 0 \in 0..3 /\ 1 \in 0..3 /\ 2 \in 0..3 /\ 3 \in 0..3
    BY <1>1
  <2> QED BY <1>2, <1>4, <1>7, <2>1
<1>9. /\ ToSet(s) \cap ToSet(m0) = {} /\ ToSet(s) \cap ToSet(m1) = {}
      /\ ToSet(s) \cap ToSet(m2) = {} /\ ToSet(s) \cap ToSet(m3) = {}
      /\ ToSet(m0) \cap ToSet(m1) = {} /\ ToSet(m0) \cap ToSet(m2) = {}
      /\ ToSet(m0) \cap ToSet(m3) = {} /\ ToSet(m1) \cap ToSet(m2) = {}
      /\ ToSet(m1) \cap ToSet(m3) = {} /\ ToSet(m2) \cap ToSet(m3) = {}
  BY <1>5, <1>6, <1>7
<1>10. PICK all : all = s \o m0 \o m1 \o m2 \o m3
  OBVIOUS
<1>11. /\ all \in Seq(Timeouts) /\ IsInjective(all)
       /\ ToSet(all) = ToSet(s) \cup ToSet(m0) \cup ToSet(m1) \cup ToSet(m2) \cup ToSet(m3)
  <2>1. /\ s \o m0 \in Seq(Timeouts) /\ IsInjective(s \o m0)
        /\ ToSet(s \o m0) = ToSet(s) \cup ToSet(m0)
    BY <1>8, <1>9, ConcatOnce
  <2>2. PICK a : a = s \o m0
    OBVIOUS
  <2>3. a \in Seq(Timeouts) /\ IsInjective(a) /\ ToSet(a) \cap ToSet(m1) = {}
    BY <1>9, <2>1, <2>2
  <2>4. /\ a \o m1 \in Seq(Timeouts) /\ IsInjective(a \o m1)
        /\ ToSet(a \o m1) = ToSet(a) \cup ToSet(m1)
    BY <1>8, <2>3, ConcatOnce
  <2>5. PICK b : b = a \o m1
    OBVIOUS
  <2>6. b \in Seq(Timeouts) /\ IsInjective(b) /\ ToSet(b) \cap ToSet(m2) = {}
    BY <1>9, <2>1, <2>2, <2>4, <2>5
  <2>7. /\ b \o m2 \in Seq(Timeouts) /\ IsInjective(b \o m2)
        /\ ToSet(b \o m2) = ToSet(b) \cup ToSet(m2)
    BY <1>8, <2>6, ConcatOnce
  <2>8. PICK c : c = b \o m2
    OBVIOUS
  <2>9. c \in Seq(Timeouts) /\ IsInjective(c) /\ ToSet(c) \cap ToSet(m3) = {}
    BY <1>9, <2>1, <2>2, <2>4, <2>5, <2>7, <2>8
  <2>10. /\ c \o m3 \in Seq(Timeouts) /\ IsInjective(c \o m3)
         /\ ToSet(c \o m3) = ToSet(c) \cup ToSet(m3)
    BY <1>8, <2>9, ConcatOnce
  <2>11. all = c \o m3
    BY <1>10, <2>2, <2>5, <2>8
  <2> QED BY <2>1, <2>2, <2>4, <2>5, <2>7, <2>8, <2>10, <2>11
<1>12. \A t : t \in ToSet(all)
              <=> \/ t \in ToSet(circq[TODO])
                  \/ \E b \in 0..(BUCKETS - 1) : moves(b, x) /\ t \in ToSet(circq[b])
  <2> TAKE t
  <2>1. t \in ToSet(all) <=> \/ t \in ToSet(circq[TODO])
                             \/ \E w \in 0..3 : t \in ToSet(MOVEBUCKET(w, x))
    <3>1. \A w \in 0..3 : w = 0 \/ w = 1 \/ w = 2 \/ w = 3
      OBVIOUS
    <3>2. 0 \in 0..3 /\ 1 \in 0..3 /\ 2 \in 0..3 /\ 3 \in 0..3
      OBVIOUS
    <3> QED BY <1>7, <1>11, <3>1, <3>2
  <2>2. (\E w \in 0..3 : t \in ToSet(MOVEBUCKET(w, x)))
           <=> \E b \in 0..(BUCKETS - 1) : moves(b, x) /\ t \in ToSet(circq[b])
    BY <1>1, <1>4 DEF moves
  <2> QED BY <2>1, <2>2
<1>13. \A b \in 0..(BUCKETS - 1) : b \in 0..TODO /\ b # TODO
  BY <1>1
<1>14. \A b \in 0..TODO : b = TODO \/ b \in 0..(BUCKETS - 1)
  BY <1>1
<1>15. TODO \in 0..TODO
  BY <1>1
<1> DEFINE q == Turn(x)
<1>16. /\ DOMAIN q = 0..TODO /\ q[TODO] = all
       /\ \A b \in 0..(BUCKETS - 1) : q[b] = IF moves(b, x) THEN <<>> ELSE circq[b]
       /\ q = [b \in 0..TODO |-> q[b]]
  BY <1>7, <1>10, <1>13, <1>15 DEF Turn
<1> HIDE DEF q
<1>17. \A b \in 0..TODO : q[b] \in Seq(Timeouts) /\ IsInjective(q[b])
  BY <1>2, <1>3, <1>11, <1>13, <1>14, <1>16
<1>18. \A b \in 0..(BUCKETS - 1) : ToSet(q[b]) = IF moves(b, x) THEN {} ELSE ToSet(circq[b])
  BY <1>3, <1>16
<1>19. Apart(q)
  <2> SUFFICES ASSUME NEW a \in 0..TODO, NEW b \in 0..TODO, a # b, NEW u,
                      u \in ToSet(q[a]), u \in ToSet(q[b])
               PROVE  FALSE
    BY DEF Apart
  <2>1. ASSUME NEW d \in 0..(BUCKETS - 1), u \in ToSet(q[d]), u \in ToSet(all) PROVE FALSE
    <3>1. ~moves(d, x) /\ u \in ToSet(circq[d])
      BY <1>18, <2>1
    <3>2. \E e \in 0..TODO : e # d /\ u \in ToSet(circq[e])
      BY <1>12, <1>13, <1>15, <2>1, <3>1
    <3> QED BY <1>2, <1>13, <2>1, <3>1, <3>2
  <2>2. CASE a = TODO
    BY <1>14, <1>16, <2>1, <2>2
  <2>3. CASE b = TODO
    BY <1>14, <1>16, <2>1, <2>3
  <2>4. CASE a # TODO /\ b # TODO
    <3>1. u \in ToSet(circq[a]) /\ u \in ToSet(circq[b])
      BY <1>14, <1>18, <2>4
    <3> QED BY <1>2, <3>1
  <2> QED BY <2>2, <2>3, <2>4
<1>20. q \in [0..TODO -> Seq(Timeouts)]
  BY <1>16, <1>17
<1>21. Lists(q)
  BY <1>17, <1>19, <1>20 DEF Lists
<1> QED BY <1>12, <1>16, <1>18, <1>21 DEF q

\* What timeout_adjust_ticks() makes of the queues: all of the wheel is on the
\* work list.
Gather == [b \in 0..TODO |-> IF b = TODO THEN circq[TODO] \o Joined(circq, BUCKETS) ELSE <<>>]

\* No timeout is lost when the wheel is emptied, none is moved twice.
LEMMA GatheredQueues ==
  ASSUME Lists(circq)
  PROVE  /\ Lists(Gather)
         /\ \A b \in 0..(BUCKETS - 1) : ToSet(Gather[b]) = {}
         /\ \A t : t \in ToSet(Gather[TODO]) <=> \E b \in 0..TODO : t \in ToSet(circq[b])
         /\ \A t : t \in ToSet(Joined(circq, BUCKETS))
                     <=> \E b \in 0..(BUCKETS - 1) : t \in ToSet(circq[b])
<1>1. BUCKETS \in Nat /\ TODO = BUCKETS
  BY MovedRange
<1>2. /\ \A b \in 0..(BUCKETS - 1) : b \in 0..TODO /\ b # TODO
      /\ \A b \in 0..TODO : b = TODO \/ b \in 0..(BUCKETS - 1)
      /\ TODO \in 0..TODO
  BY <1>1
<1>3. /\ \A b \in 0..TODO : circq[b] \in Seq(Timeouts) /\ IsInjective(circq[b])
      /\ \A a, b \in 0..TODO : a # b => ToSet(circq[a]) \cap ToSet(circq[b]) = {}
  BY DEF Lists, Apart
<1>4. ToSet(<<>>) = {} /\ IsInjective(<<>>) /\ <<>> \in Seq(Timeouts)
  BY DEF ToSet, IsInjective
<1>5. PICK n \in Nat : n = BUCKETS
  BY <1>1
<1>6. PICK w : w = Joined(circq, n)
  OBVIOUS
<1>7. /\ w \in Seq(Timeouts) /\ IsInjective(w)
      /\ \A t : t \in ToSet(w) <=> \E b \in 0..(n - 1) : t \in ToSet(circq[b])
  <2>1. PICK q : q = circq
    OBVIOUS
  <2>2. /\ \A b \in 0..(n - 1) : q[b] \in Seq(Timeouts)
        /\ \A b \in 0..(n - 1) : IsInjective(q[b])
        /\ \A a, b \in 0..(n - 1) : a # b => ToSet(q[a]) \cap ToSet(q[b]) = {}
    BY <1>2, <1>3, <1>5, <2>1
  <2>3. /\ Joined(q, n) \in Seq(Timeouts) /\ IsInjective(Joined(q, n))
        /\ \A t : t \in ToSet(Joined(q, n)) <=> \E b \in 0..(n - 1) : t \in ToSet(q[b])
    BY <2>2, JoinedProperties
  <2> QED BY <1>6, <2>1, <2>3
<1>8. PICK s : s = circq[TODO]
  OBVIOUS
<1>9. s \in Seq(Timeouts) /\ IsInjective(s) /\ ToSet(s) \cap ToSet(w) = {}
  <2>1. ASSUME NEW t, t \in ToSet(s), t \in ToSet(w) PROVE FALSE
    <3>1. PICK b \in 0..(BUCKETS - 1) : t \in ToSet(circq[b])
      BY <1>5, <1>7, <2>1
    <3> QED BY <1>2, <1>3, <1>8, <2>1, <3>1
  <2> QED BY <1>2, <1>3, <1>8, <2>1
<1>10. /\ s \o w \in Seq(Timeouts) /\ IsInjective(s \o w)
       /\ ToSet(s \o w) = ToSet(s) \cup ToSet(w)
  BY <1>7, <1>9, ConcatOnce
<1> DEFINE g == Gather
<1>11. /\ DOMAIN g = 0..TODO /\ g[TODO] = s \o w
       /\ \A b \in 0..(BUCKETS - 1) : g[b] = <<>>
       /\ g = [b \in 0..TODO |-> g[b]]
  BY <1>2, <1>5, <1>6, <1>8 DEF Gather
<1> HIDE DEF g
<1>12. \A b \in 0..TODO : g[b] \in Seq(Timeouts) /\ IsInjective(g[b])
  BY <1>2, <1>4, <1>10, <1>11
<1>13. \A b \in 0..(BUCKETS - 1) : ToSet(g[b]) = {}
  BY <1>4, <1>11
<1>14. Apart(g)
  BY <1>2, <1>13 DEF Apart
<1>15. \A t : t \in ToSet(g[TODO]) <=> \E b \in 0..TODO : t \in ToSet(circq[b])
  BY <1>2, <1>5, <1>7, <1>8, <1>10, <1>11
<1>16. g \in [0..TODO -> Seq(Timeouts)]
  BY <1>11, <1>12
<1>17. Lists(g)
  BY <1>12, <1>14, <1>16 DEF Lists
<1> QED BY <1>5, <1>6, <1>7, <1>13, <1>15, <1>17 DEF g

-----------------------------------------------------------------------------
\* Time.

\* The clock, now at k, reaches bucket b no later than at x.
InTime(k, x, b) == \E n \in 1..int(x - k) : moves(b, int(k + n))

\* ... and even less late if x is put off,
LEMMA PutOff ==
  ASSUME NEW k \in Ints, NEW x \in Ints, NEW y \in Ints, NEW b,
         InTime(k, x, b), ~(int(y - k) < int(x - k))
  PROVE  InTime(k, y, b)
<1>1. x - k \in Int /\ y - k \in Int
  BY IntSet
<1>2. int(x - k) \in Int /\ int(y - k) \in Int
  BY <1>1, Spans, IntIs
<1>3. PICK n \in 1..int(x - k) : moves(b, int(k + n))
  BY DEF InTime
<1>4. n \in 1..int(y - k)
  BY <1>2, <1>3
<1> QED BY <1>3, <1>4 DEF InTime

\* ... and still after a tick that does not move b.
LEMMA Ticking ==
  ASSUME NEW k \in Ints, NEW x \in Ints, NEW b,
         InTime(k, x, b), ~moves(b, int(k + 1))
  PROVE  InTime(int(k + 1), x, b)
<1>1. PICK H \in Nat \ {0} : H = Half
  BY Spans
<1>2. k \in Int /\ x \in Int /\ x - k \in Int
  BY IntSet
<1>3. PICK r \in -H..(H - 1) : r = int(x - k)
  BY <1>1, <1>2, IntIs
<1>4. PICK n \in 1..r : moves(b, int(k + n))
  BY <1>3 DEF InTime
<1>5. n # 1 /\ n - 1 \in 1..(r - 1) /\ 1 \in 0..(H - 1) /\ n - 1 \in 0..(H - 1)
  BY <1>3, <1>4
<1>6. int(int(k + 1) + (n - 1)) = int(k + 1 + (n - 1))
  <2>1. 1 + (n - 1) < H
    BY <1>3, <1>4
  <2> QED BY <1>1, <1>5, <2>1, Advanced
<1>7. k + 1 + (n - 1) = k + n
  BY <1>2, <1>4
<1>8. int(x - int(k + 1)) = r - 1
  <2>1. int(x - k) - 1 >= -Half
    BY <1>1, <1>3, <1>4
  <2>2. int(x - int(k + 1)) = int(x - k) - 1
    BY <1>1, <1>5, <2>1, Advanced
  <2> QED BY <1>3, <2>2
<1>9. moves(b, int(int(k + 1) + (n - 1)))
  BY <1>4, <1>6, <1>7
<1> QED BY <1>5, <1>8, <1>9 DEF InTime

-----------------------------------------------------------------------------
\* The invariant, and how each step keeps it.

Queued == \A t \in Timeouts : OnQueue(t) <=> \E b \in 0..TODO : On(t, b)
Marked == \A t \in Timeouts : ~{"ONQUEUE", "TRIGGERED"} \subseteq to_flags[t]
Timely ==
  \A b \in 0..(BUCKETS - 1) : \A t \in ToSet(circq[b]) : InTime(ticks, to_time[t], b)

IInv == TypeOK /\ Lists(circq) /\ Queued /\ Marked /\ Timely

\* Indices, and what the type invariant says of single variables.
LEMMA Typed ==
  ASSUME IInv
  PROVE  /\ ticks \in Ints /\ to_time \in [Timeouts -> Ints]
         /\ to_flags \in [Timeouts -> SUBSET {"INITIALIZED", "ONQUEUE", "TRIGGERED"}]
         /\ sc \in {"idle", "locked"} \cup Timeouts /\ softclock_si \in BOOLEAN
         /\ \A b \in 0..TODO : circq[b] \in Seq(Timeouts) /\ ToSet(circq[b]) \subseteq Timeouts
         /\ TODO \in 0..TODO
         /\ \A b \in 0..(BUCKETS - 1) : b \in 0..TODO /\ b # TODO
         /\ \A b \in 0..TODO : b = TODO \/ b \in 0..(BUCKETS - 1)
<1>1. BUCKETS \in Nat /\ TODO = BUCKETS
  BY MovedRange
<1>2. \A b \in 0..TODO : circq[b] \in Seq(Timeouts) /\ ToSet(circq[b]) \subseteq Timeouts
  <2> TAKE b \in 0..TODO
  <2>1. circq[b] \in Seq(Timeouts)
    BY DEF IInv, Lists
  <2> QED BY <2>1 DEF ToSet
<1>3. TODO \in 0..TODO /\ (\A b \in 0..(BUCKETS - 1) : b \in 0..TODO /\ b # TODO)
      /\ \A b \in 0..TODO : b = TODO \/ b \in 0..(BUCKETS - 1)
  BY <1>1
<1> QED BY <1>2, <1>3, IntSet DEF IInv, TypeOK

\* Nothing is scheduled at first.
LEMMA Starts ==
  ASSUME Init
  PROVE  IInv
<1>1. ToSet(<<>>) = {} /\ IsInjective(<<>>) /\ <<>> \in Seq(Timeouts)
  BY DEF ToSet, IsInjective
<1>2. BUCKETS \in Nat /\ TODO = BUCKETS
  BY MovedRange
<1>3. \A b \in 0..TODO : circq[b] = <<>>
  BY DEF Init
<1>4. Lists(circq)
  BY <1>1, <1>3 DEF Lists, Apart, Init
<1>5. 0 \in (-INT_MAX - 1)..INT_MAX
  BY IntSet
<1>6. TypeOK
  BY <1>4, <1>5 DEF TypeOK, Init, Lists
<1>7. Timely
  BY <1>1, <1>2, <1>3 DEF Timely
<1>8. Queued /\ Marked
  BY <1>1, <1>3 DEF Queued, Marked, OnQueue, On, Init
<1> QED BY <1>4, <1>6, <1>7, <1>8 DEF IInv

\* timeout_set() touches only what is on no queue.
LEMMA SetKeeps ==
  ASSUME IInv, NEW t \in Timeouts, timeout_set(t)
  PROVE  IInv'
<1>1. /\ to_flags' = [to_flags EXCEPT ![t] = {"INITIALIZED"}] /\ ~OnQueue(t)
      /\ ticks' = ticks /\ to_time' = to_time /\ circq' = circq
      /\ softclock_si' = softclock_si /\ sc' = sc
  BY DEF timeout_set
<1>2. TypeOK'
  BY <1>1 DEF IInv, TypeOK
<1>3. Lists(circq)' /\ Timely'
  BY <1>1 DEF IInv, Timely
<1>4. Queued' /\ Marked'
  BY <1>1, Typed DEF IInv, Queued, Marked, OnQueue, On
<1> QED BY <1>2, <1>3, <1>4 DEF IInv

\* The delay that timeout_add() is asked for, and the time it sets.
LEMMA Delay ==
  ASSUME NEW n \in Requests, NEW k \in Ints
  PROVE  /\ clip(n) \in 0..(Half - 1)
         /\ int(k + clip(n)) \in Ints /\ int(int(k + clip(n)) - k) = clip(n)
<1>1. INT_MAX \in Nat /\ Half = INT_MAX + 1
  BY IntSet DEF Half
<1>2. n \in Nat
  BY WheelAssumption
<1>3. clip(n) \in 0..(Half - 1)
  BY <1>1, <1>2 DEF clip
<1> QED BY <1>3, Advanced, Scheduled

\* timeout_add() leaves the timeout in its bucket only if it is put off, so that
\* the bucket is still moved in time.
LEMMA AddKeeps ==
  ASSUME IInv, NEW t \in Timeouts, NEW n \in Requests, timeout_add(t, n)
  PROVE  IInv'
<1>1. PICK new \in Ints : new = int(ticks + clip(n))
  BY Delay, Typed
<1>2. /\ to_time' = [to_time EXCEPT ![t] = new]
      /\ circq' = IF OnQueue(t) /\ ~earlier(t, new)
                    THEN circq
                    ELSE CIRCQ_INSERT(t, TODO, CIRCQ_REMOVE(t, circq))
      /\ to_flags' = [to_flags EXCEPT ![t] = (@ \ {"TRIGGERED"}) \cup {"ONQUEUE"}]
      /\ ticks' = ticks /\ softclock_si' = softclock_si /\ sc' = sc
  BY <1>1 DEF timeout_add
<1>3. /\ to_time' \in [Timeouts -> Ints] /\ to_time'[t] = new
      /\ \A u \in Timeouts : u # t => to_time'[u] = to_time[u]
  BY <1>2, Typed
<1>4. /\ to_flags' \in [Timeouts -> SUBSET {"INITIALIZED", "ONQUEUE", "TRIGGERED"}]
      /\ OnQueue(t)' /\ ~("TRIGGERED" \in to_flags'[t])
      /\ \A u \in Timeouts : u # t => to_flags'[u] = to_flags[u]
  BY <1>2, Typed DEF OnQueue
<1>5. CASE OnQueue(t) /\ ~earlier(t, new)
  <2>1. circq' = circq
    BY <1>2, <1>5
  <2>2. Lists(circq)' /\ circq' \in [0..TODO -> Seq(Timeouts)]
    BY <2>1 DEF IInv, Lists
  <2>3. TypeOK'
    BY <1>2, <1>3, <1>4, <2>2, Typed, IntSet DEF TypeOK
  <2>4. Queued' /\ Marked'
    BY <1>4, <1>5, <2>1 DEF IInv, Queued, Marked, OnQueue, On
  <2>5. Timely'
    <3> SUFFICES ASSUME NEW b \in 0..(BUCKETS - 1), NEW u \in ToSet(circq[b])
                 PROVE  InTime(ticks, to_time'[u], b)
      BY <1>2, <2>1 DEF Timely
    <3>1. InTime(ticks, to_time[u], b) /\ u \in Timeouts
      BY Typed DEF IInv, Timely
    <3>2. CASE u = t
      <4>1. ~(int(new - ticks) < int(to_time[t] - ticks))
        BY <1>5 DEF earlier, rel
      <4> QED BY <1>3, <3>1, <3>2, <4>1, PutOff, Typed
    <3>3. CASE u # t
      BY <1>3, <3>1, <3>3
    <3> QED BY <3>2, <3>3
  <2> QED BY <2>2, <2>3, <2>4, <2>5 DEF IInv
<1>6. CASE ~(OnQueue(t) /\ ~earlier(t, new))
  <2>1. PICK q : q = CIRCQ_REMOVE(t, circq)
    OBVIOUS
  <2>2. Lists(q) /\ \A b \in 0..TODO : ToSet(q[b]) = ToSet(circq[b]) \ {t}
    BY <2>1, Removed DEF IInv
  <2>3. circq' = CIRCQ_INSERT(t, TODO, q)
    BY <1>2, <1>6, <2>1
  <2>4. /\ Lists(circq')
        /\ \A b \in 0..TODO : ToSet(circq'[b])
                                 = IF b = TODO THEN ToSet(q[b]) \cup {t} ELSE ToSet(q[b])
    <3>1. TODO \in 0..TODO /\ \A b \in 0..TODO : t \notin ToSet(q[b])
      BY <2>2, Typed
    <3>2. /\ Lists(CIRCQ_INSERT(t, TODO, q))
          /\ \A b \in 0..TODO : ToSet(CIRCQ_INSERT(t, TODO, q)[b])
                                  = IF b = TODO THEN ToSet(q[b]) \cup {t} ELSE ToSet(q[b])
      BY <2>2, <3>1, Inserted, ZenonT(40)
    <3> QED BY <2>3, <3>2
  <2>5. \A b \in 0..TODO : ToSet(circq'[b]) = IF b = TODO THEN ToSet(circq[b]) \cup {t}
                                                ELSE ToSet(circq[b]) \ {t}
    BY <2>2, <2>4
  <2>6. TypeOK'
    BY <1>2, <1>3, <1>4, <2>4, Typed, IntSet DEF TypeOK, Lists
  <2>7. Queued' /\ Marked'
    <3>1. Marked'
      BY <1>4 DEF IInv, Marked
    <3>2. ASSUME NEW u \in Timeouts PROVE OnQueue(u)' <=> \E b \in 0..TODO : On(u, b)'
      <4>1. CASE u = t
        BY <1>4, <2>5, <4>1, Typed DEF On
      <4>2. CASE u # t
        <5>1. OnQueue(u)' <=> OnQueue(u)
          BY <1>4, <4>2 DEF OnQueue
        <5>2. \A b \in 0..TODO : On(u, b)' <=> On(u, b)
          BY <2>5, <4>2 DEF On
        <5> QED BY <5>1, <5>2 DEF IInv, Queued
      <4> QED BY <4>1, <4>2
    <3> QED BY <3>1, <3>2 DEF Queued
  <2>8. Timely'
    <3> SUFFICES ASSUME NEW b \in 0..(BUCKETS - 1), NEW u \in ToSet(circq'[b])
                 PROVE  InTime(ticks, to_time'[u], b)
      BY <1>2 DEF Timely
    <3>1. u \in ToSet(circq[b]) /\ u # t
      BY <2>5, Typed
    <3>2. InTime(ticks, to_time[u], b) /\ u \in Timeouts
      BY <3>1, Typed DEF IInv, Timely
    <3> QED BY <1>3, <3>1, <3>2
  <2> QED BY <2>4, <2>6, <2>7, <2>8 DEF IInv
<1> QED BY <1>5, <1>6

\* timeout_del() unlinks what TIMEOUT_ONQUEUE says is linked.
LEMMA DelKeeps ==
  ASSUME IInv, NEW t \in Timeouts, timeout_del(t)
  PROVE  IInv'
<1>1. /\ to_flags' = [to_flags EXCEPT ![t] = @ \ {"TRIGGERED", "ONQUEUE"}]
      /\ circq' = IF OnQueue(t) THEN CIRCQ_REMOVE(t, circq) ELSE circq
      /\ to_time' = [to_time EXCEPT ![t] = 0]
      /\ ticks' = ticks /\ softclock_si' = softclock_si /\ sc' = sc
  BY DEF timeout_del
<1>2. 0 \in Ints
  BY IntSet
<1>3. /\ to_time' \in [Timeouts -> Ints]
      /\ \A u \in Timeouts : u # t => to_time'[u] = to_time[u]
  BY <1>1, <1>2, Typed
<1>4. /\ to_flags' \in [Timeouts -> SUBSET {"INITIALIZED", "ONQUEUE", "TRIGGERED"}]
      /\ ~OnQueue(t)'
      /\ \A u \in Timeouts : u # t => to_flags'[u] = to_flags[u]
  BY <1>1, Typed DEF OnQueue
<1>5. Lists(circq') /\ \A b \in 0..TODO : ToSet(circq'[b]) = ToSet(circq[b]) \ {t}
  <2>1. CASE OnQueue(t)
    BY <1>1, <2>1, Removed DEF IInv
  <2>2. CASE ~OnQueue(t)
    <3>1. \A b \in 0..TODO : t \notin ToSet(circq[b])
      BY <2>2 DEF IInv, Queued, On
    <3> QED BY <1>1, <2>2, <3>1 DEF IInv
  <2> QED BY <2>1, <2>2
<1>6. TypeOK'
  BY <1>1, <1>3, <1>4, <1>5, Typed, IntSet DEF TypeOK, Lists
<1>7. Queued' /\ Marked'
  <2>1. Marked'
    BY <1>4 DEF IInv, Marked, OnQueue
  <2>2. ASSUME NEW u \in Timeouts PROVE OnQueue(u)' <=> \E b \in 0..TODO : On(u, b)'
    <3>1. CASE u = t
      BY <1>4, <1>5, <3>1 DEF On
    <3>2. CASE u # t
      <4>1. OnQueue(u)' <=> OnQueue(u)
        BY <1>4, <3>2 DEF OnQueue
      <4>2. \A b \in 0..TODO : On(u, b)' <=> On(u, b)
        BY <1>5, <3>2 DEF On
      <4> QED BY <4>1, <4>2 DEF IInv, Queued
    <3> QED BY <3>1, <3>2
  <2> QED BY <2>1, <2>2 DEF Queued
<1>8. Timely'
  <2> SUFFICES ASSUME NEW b \in 0..(BUCKETS - 1), NEW u \in ToSet(circq'[b])
               PROVE  InTime(ticks, to_time'[u], b)
    BY <1>1 DEF Timely
  <2>1. u \in ToSet(circq[b]) /\ u # t
    BY <1>5, Typed
  <2>2. InTime(ticks, to_time[u], b) /\ u \in Timeouts
    BY <2>1, Typed DEF IInv, Timely
  <2> QED BY <1>3, <2>1, <2>2
<1> QED BY <1>5, <1>6, <1>7, <1>8 DEF IInv

\* A tick moves the buckets whose time has come; the others have time left.
LEMMA TickKeeps ==
  ASSUME IInv, timeout_hardclock_update
  PROVE  IInv'
<1>1. PICK k : k = ticks'
  OBVIOUS
<1>2. /\ k = int(ticks + 1) /\ circq' = Turn(k)
      /\ softclock_si' \in BOOLEAN
      /\ to_time' = to_time /\ to_flags' = to_flags /\ sc' = sc
  BY <1>1 DEF timeout_hardclock_update, Turn
<1>3. 1 \in 0..(Half - 1)
  BY AdjustAssumption, IntSet DEF Half
<1>4. k \in Ints /\ k \in Int
  BY <1>2, <1>3, Typed, Advanced, IntSet
<1>5. /\ Lists(circq')
      /\ \A t : t \in ToSet(circq'[TODO])
           <=> \/ t \in ToSet(circq[TODO])
               \/ \E b \in 0..(BUCKETS - 1) : moves(b, k) /\ t \in ToSet(circq[b])
      /\ \A b \in 0..(BUCKETS - 1) :
           ToSet(circq'[b]) = IF moves(b, k) THEN {} ELSE ToSet(circq[b])
  BY <1>2, <1>4, TurnedQueues DEF IInv
<1>6. TypeOK'
  BY <1>1, <1>2, <1>4, <1>5, Typed, IntSet DEF TypeOK, Lists
<1>7. Marked'
  BY <1>2 DEF IInv, Marked
<1>8. Queued'
  <2> SUFFICES ASSUME NEW u \in Timeouts
               PROVE  (\E b \in 0..TODO : On(u, b)') <=> (\E b \in 0..TODO : On(u, b))
    BY <1>2 DEF IInv, Queued, OnQueue
  <2> QED BY <1>5, Typed DEF On
<1>9. Timely'
  <2> SUFFICES ASSUME NEW b \in 0..(BUCKETS - 1), NEW u \in ToSet(circq'[b])
               PROVE  InTime(k, to_time[u], b)
    BY <1>1, <1>2 DEF Timely
  <2>1. ~moves(b, k) /\ u \in ToSet(circq[b])
    BY <1>5
  <2>2. InTime(ticks, to_time[u], b) /\ to_time[u] \in Ints
    BY <2>1, Typed DEF IInv, Timely
  <2> QED BY <1>2, <2>1, <2>2, Typed, Ticking
<1> QED BY <1>5, <1>6, <1>7, <1>8, <1>9 DEF IInv

\* The steps of softclock() that only take or release the mutex.
LEMMA SoftclockKeeps ==
  ASSUME IInv, softclock \/ softclock_return \/ softclock_done
  PROVE  IInv'
<1>1. /\ ticks' = ticks /\ to_time' = to_time /\ to_flags' = to_flags /\ circq' = circq
      /\ softclock_si' \in BOOLEAN /\ sc' \in {"idle", "locked"} \cup Timeouts
  BY Typed DEF softclock, softclock_return, softclock_done
<1>2. TypeOK'
  BY <1>1 DEF IInv, TypeOK
<1>3. Lists(circq)' /\ Timely'
  BY <1>1 DEF IInv, Timely
<1>4. Queued' /\ Marked'
  BY <1>1 DEF IInv, Queued, Marked, OnQueue, On
<1> QED BY <1>2, <1>3, <1>4 DEF IInv

\* The timeout that softclock() takes from the work list.
LEMMA First ==
  ASSUME IInv, circq[TODO] # <<>>
  PROVE  Head(circq[TODO]) \in Timeouts /\ Head(circq[TODO]) \in ToSet(circq[TODO])
<1>1. circq[TODO] \in Seq(Timeouts) /\ TODO \in 0..TODO
  BY Typed
<1>2. IsInjective(circq[TODO])
  BY <1>1 DEF IInv, Lists
<1> QED BY <1>1, <1>2, TailOnce

\* softclock() files a timeout that is not due in a bucket that turns in time.
LEMMA FileKeeps ==
  ASSUME IInv, softclock_file
  PROVE  IInv'
<1>1. circq[TODO] # <<>>
  BY DEF softclock_file
<1>2. PICK t \in Timeouts : t = Head(circq[TODO]) /\ t \in ToSet(circq[TODO])
  BY <1>1, First
<1>3. PICK c : c = BUCKET(rel(t), to_time[t])
  OBVIOUS
<1>4. /\ ~due(t) /\ circq' = CIRCQ_INSERT(t, c, CIRCQ_REMOVE(t, circq))
      /\ ticks' = ticks /\ to_time' = to_time /\ to_flags' = to_flags
      /\ softclock_si' = softclock_si /\ sc' = sc
  BY <1>2, <1>3 DEF softclock_file
<1>5. ticks \in Ints /\ to_time[t] \in Ints
  BY Typed
<1>6. c \in 0..(BUCKETS - 1) /\ InTime(ticks, to_time[t], c)
  <2>1. to_time[t] - ticks \in Int
    BY <1>5, IntSet
  <2>2. int(to_time[t] - ticks) \in Int
    BY <2>1, Spans, IntIs
  <2>3. int(to_time[t] - ticks) >= 1
    BY <1>4, <2>2 DEF due, rel
  <2> QED BY <1>3, <1>5, <2>3, FiledInTime DEF rel, InTime
<1>7. PICK q : q = CIRCQ_REMOVE(t, circq)
  OBVIOUS
<1>8. Lists(q) /\ \A b \in 0..TODO : ToSet(q[b]) = ToSet(circq[b]) \ {t}
  BY <1>7, Removed DEF IInv
<1>9. c \in 0..TODO /\ \A b \in 0..TODO : t \notin ToSet(q[b])
  BY <1>6, <1>8, Typed
<1>10. /\ Lists(CIRCQ_INSERT(t, c, q))
       /\ \A b \in 0..TODO : ToSet(CIRCQ_INSERT(t, c, q)[b])
                                  = IF b = c THEN ToSet(q[b]) \cup {t} ELSE ToSet(q[b])
  BY <1>8, <1>9, Inserted, ZenonT(40)
<1>11. /\ Lists(circq')
       /\ \A b \in 0..TODO : ToSet(circq'[b])
                                = IF b = c THEN ToSet(circq[b]) \cup {t} ELSE ToSet(circq[b]) \ {t}
  BY <1>4, <1>7, <1>8, <1>10
<1>12. TypeOK'
  BY <1>4, <1>11, Typed, IntSet DEF TypeOK, Lists
<1>13. Marked'
  BY <1>4 DEF IInv, Marked
<1>14. Queued'
  <2> SUFFICES ASSUME NEW u \in Timeouts
               PROVE  (\E b \in 0..TODO : On(u, b)') <=> (\E b \in 0..TODO : On(u, b))
    BY <1>4 DEF IInv, Queued, OnQueue
  <2>1. CASE u = t
    BY <1>2, <1>9, <1>11, <2>1, Typed DEF On
  <2>2. CASE u # t
    BY <1>11, <2>2 DEF On
  <2> QED BY <2>1, <2>2
<1>15. Timely'
  <2> SUFFICES ASSUME NEW b \in 0..(BUCKETS - 1), NEW u \in ToSet(circq'[b])
               PROVE  InTime(ticks, to_time[u], b)
    BY <1>4 DEF Timely
  <2>1. (u = t /\ b = c) \/ u \in ToSet(circq[b])
    BY <1>11, Typed
  <2> QED BY <1>6, <2>1 DEF IInv, Timely
<1> QED BY <1>11, <1>12, <1>13, <1>14, <1>15 DEF IInv

\* softclock() unlinks a timeout before it calls its function.
LEMMA CallKeeps ==
  ASSUME IInv, softclock_call
  PROVE  IInv'
<1>1. circq[TODO] # <<>>
  BY DEF softclock_call
<1>2. PICK t \in Timeouts : t = Head(circq[TODO])
  BY <1>1, First
<1>3. /\ circq' = CIRCQ_REMOVE(t, circq)
      /\ to_flags' = [to_flags EXCEPT ![t] = (@ \ {"ONQUEUE"}) \cup {"TRIGGERED"}]
      /\ to_time' = [to_time EXCEPT ![t] = 0]
      /\ sc' = t /\ ticks' = ticks /\ softclock_si' = softclock_si
  BY <1>2 DEF softclock_call
<1>4. 0 \in Ints
  BY IntSet
<1>5. /\ to_time' \in [Timeouts -> Ints]
      /\ \A u \in Timeouts : u # t => to_time'[u] = to_time[u]
  BY <1>3, <1>4, Typed
<1>6. /\ to_flags' \in [Timeouts -> SUBSET {"INITIALIZED", "ONQUEUE", "TRIGGERED"}]
      /\ ~OnQueue(t)'
      /\ \A u \in Timeouts : u # t => to_flags'[u] = to_flags[u]
  BY <1>3, Typed DEF OnQueue
<1>7. Lists(circq') /\ \A b \in 0..TODO : ToSet(circq'[b]) = ToSet(circq[b]) \ {t}
  BY <1>3, Removed DEF IInv
<1>8. TypeOK'
  BY <1>3, <1>5, <1>6, <1>7, Typed, IntSet DEF TypeOK, Lists
<1>9. Marked'
  BY <1>6 DEF IInv, Marked, OnQueue
<1>10. Queued'
  <2> SUFFICES ASSUME NEW u \in Timeouts
               PROVE  OnQueue(u)' <=> \E b \in 0..TODO : On(u, b)'
    BY DEF Queued
  <2>1. CASE u = t
    BY <1>6, <1>7, <2>1 DEF On
  <2>2. CASE u # t
    <3>1. OnQueue(u)' <=> OnQueue(u)
      BY <1>6, <2>2 DEF OnQueue
    <3>2. \A b \in 0..TODO : On(u, b)' <=> On(u, b)
      BY <1>7, <2>2 DEF On
    <3> QED BY <3>1, <3>2 DEF IInv, Queued
  <2> QED BY <2>1, <2>2
<1>11. Timely'
  <2> SUFFICES ASSUME NEW b \in 0..(BUCKETS - 1), NEW u \in ToSet(circq'[b])
               PROVE  InTime(ticks, to_time'[u], b)
    BY <1>3 DEF Timely
  <2>1. u \in ToSet(circq[b]) /\ u # t
    BY <1>7, Typed
  <2>2. InTime(ticks, to_time[u], b) /\ u \in Timeouts
    BY <2>1, Typed DEF IInv, Timely
  <2> QED BY <1>5, <2>1, <2>2
<1> QED BY <1>7, <1>8, <1>9, <1>10, <1>11 DEF IInv

\* A jump of the clock empties the wheel: there is no bucket left to be late.
LEMMA AdjustKeeps ==
  ASSUME IInv, NEW adj \in Adjustments, timeout_adjust_ticks(adj)
  PROVE  IInv'
<1>1. adj \in 0..(Half - 1)
  BY AdjustAssumption, IntSet DEF Half
<1>2. PICK k \in Ints : k = int(ticks + adj)
  BY <1>1, Typed, Advanced
<1>3. PICK w : w = Joined(circq, BUCKETS)
  OBVIOUS
<1>4. /\ circq' = Gather /\ ticks' = k
      /\ to_time' = [t \in Timeouts |-> IF t \in ToSet(w) /\ rel(t) < adj THEN k ELSE to_time[t]]
      /\ to_flags' = to_flags /\ softclock_si' = softclock_si /\ sc' = sc
  BY <1>2, <1>3 DEF timeout_adjust_ticks, Gather
<1>5. to_time' \in [Timeouts -> Ints]
  BY <1>4, Typed
<1>6. /\ Lists(circq')
      /\ \A b \in 0..(BUCKETS - 1) : ToSet(circq'[b]) = {}
      /\ \A t : t \in ToSet(circq'[TODO]) <=> \E b \in 0..TODO : t \in ToSet(circq[b])
  BY <1>4, GatheredQueues DEF IInv
<1>7. TypeOK'
  BY <1>4, <1>5, <1>6, Typed, IntSet DEF TypeOK, Lists
<1>8. Marked'
  BY <1>4 DEF IInv, Marked
<1>9. Queued'
  <2> SUFFICES ASSUME NEW u \in Timeouts
               PROVE  (\E b \in 0..TODO : On(u, b)') <=> (\E b \in 0..TODO : On(u, b))
    BY <1>4 DEF IInv, Queued, OnQueue
  <2> QED BY <1>6, Typed DEF On
<1>10. Timely'
  BY <1>6 DEF Timely
<1> QED BY <1>6, <1>7, <1>8, <1>9, <1>10 DEF IInv

\* The invariant holds in every reachable state.
THEOREM Invariance == Spec => []IInv
<1>1. Init => IInv
  BY Starts
<1>2. IInv /\ [Next]_vars => IInv'
  <2> SUFFICES ASSUME IInv, [Next]_vars PROVE IInv'
    OBVIOUS
  <2>1. CASE UNCHANGED vars
    BY <2>1 DEF vars, IInv, TypeOK, Queued, Marked, Timely, OnQueue, On
  <2>2. ASSUME NEW t \in Timeouts, Caller(t) PROVE IInv'
    BY <2>2, SetKeeps, DelKeeps, AddKeeps DEF Caller
  <2>3. CASE Softclock
    BY <2>3, SoftclockKeeps, FileKeeps, CallKeeps DEF Softclock
  <2> QED BY <2>1, <2>2, <2>3, TickKeeps, AdjustKeeps DEF Next
<1> QED BY <1>1, <1>2, PTL DEF Spec

\* Every variable keeps its type: differences and sums of ints wrap, and every
\* bucket that softclock() computes is one.
THEOREM TypeCorrect == Spec => []TypeOK
<1>1. IInv => TypeOK
  BY DEF IInv
<1> QED BY <1>1, Invariance, PTL

\* TIMEOUT_ONQUEUE always says whether a timeout is on a queue, and it is on
\* one queue only, once.
THEOREM QueuesCorrect == Spec => []QueuesConsistent
<1>1. IInv => QueuesConsistent
  <2> SUFFICES ASSUME IInv PROVE QueuesConsistent
    OBVIOUS
  <2>1. \A t \in Timeouts : \A a, b \in 0..TODO : On(t, a) /\ On(t, b) => a = b
    BY DEF IInv, Lists, Apart, On
  <2>2. \A b \in 0..TODO : IsInjective(circq[b])
    BY DEF IInv, Lists
  <2> QED BY <2>1, <2>2 DEF IInv, Queued, Marked, QueuesConsistent
<1> QED BY <1>1, Invariance, PTL

\* The clock moves every timeout on the wheel to the work list no later than
\* at the tick it is due.
THEOREM BucketsInTime == Spec => []BucketInTime
<1>1. IInv => BucketInTime
  BY DEF IInv, Timely, InTime, BucketInTime, rel
<1> QED BY <1>1, Invariance, PTL

-----------------------------------------------------------------------------
\* The countdown.

\* The clock never jumps so far that the difference between ticks and the time
\* of a late timeout wraps.
Steady == \A adj \in Adjustments : MaxLag + adj <= INT_MAX

\* How late a timeout on the work list can be.
Late ==
  \A t \in ToSet(circq[TODO]) :
    /\ rel(t) >= -INT_MAX
    /\ softclock_pending \/ rel(t) > -INT_MAX

\* A timeout on the wheel is not due.
LEMMA Ahead ==
  ASSUME IInv, NEW t \in Timeouts
  PROVE  /\ rel(t) \in Ints /\ rel(t) \in Int
         /\ \A b \in 0..(BUCKETS - 1) : t \in ToSet(circq[b]) => rel(t) >= 1
<1>1. to_time[t] - ticks \in Int
  BY Typed, IntSet
<1>2. rel(t) \in Ints /\ rel(t) \in Int
  BY <1>1, IntIs, IntSet DEF rel, Ints
<1>3. ASSUME NEW b \in 0..(BUCKETS - 1), t \in ToSet(circq[b]) PROVE rel(t) >= 1
  <2>1. \E n \in 1..rel(t) : moves(b, int(ticks + n))
    BY <1>3 DEF IInv, Timely, InTime, rel
  <2> QED BY <1>2, <2>1
<1> QED BY <1>2, <1>3

\* Every timeout on a queue comes a tick nearer.
LEMMA TickRel ==
  ASSUME IInv, Late, timeout_hardclock_update, NEW t \in Timeouts, OnQueue(t)
  PROVE  rel(t)' = rel(t) - 1 /\ rel(t) > -INT_MAX
<1>1. /\ ticks' = int(ticks + 1) /\ to_time' = to_time
      /\ softclock_pending => keeps_up
  BY DEF timeout_hardclock_update
<1>2. 1 \in 0..(Half - 1) /\ Half = INT_MAX + 1 /\ INT_MAX \in Nat /\ MaxLag \in 1..INT_MAX
  BY AdjustAssumption, IntSet DEF Half
<1>3. rel(t) \in Int
  BY Ahead
<1>4. PICK b \in 0..TODO : t \in ToSet(circq[b])
  BY DEF IInv, Queued, On
<1>5. rel(t) > -INT_MAX
  <2>1. CASE b = TODO
    <3>1. softclock_pending => rel(t) > -MaxLag
      BY <1>1, <1>4, <2>1 DEF keeps_up
    <3> QED BY <1>2, <1>3, <1>4, <2>1, <3>1 DEF Late
  <2>2. CASE b \in 0..(BUCKETS - 1)
    <3>1. rel(t) >= 1
      BY <1>4, <2>2, Ahead
    <3> QED BY <1>2, <1>3, <3>1
  <2> QED BY <1>4, <2>1, <2>2, Typed
<1>6. int(to_time[t] - ticks) - 1 >= -Half
  BY <1>2, <1>3, <1>5 DEF rel
<1>7. int(to_time[t] - int(ticks + 1)) = int(to_time[t] - ticks) - 1
  BY <1>2, <1>6, Typed, Advanced
<1> QED BY <1>1, <1>5, <1>7 DEF rel

\* ... or as near as the clock has jumped; one that would be late, at once.
LEMMA AdjustRel ==
  ASSUME Steady, IInv, NEW adj \in Adjustments, timeout_adjust_ticks(adj),
         NEW t \in Timeouts, OnQueue(t)
  PROVE  \/ t \in ToSet(circq[TODO]) /\ rel(t) > -MaxLag /\ rel(t)' = rel(t) - adj
         \/ rel(t) >= 1 /\ rel(t) >= adj /\ rel(t)' = rel(t) - adj
         \/ rel(t) >= 1 /\ rel(t) < adj /\ rel(t)' = 0
<1>1. /\ adj \in 0..(Half - 1) /\ Half = INT_MAX + 1 /\ INT_MAX \in Nat
      /\ MaxLag \in 1..INT_MAX /\ MaxLag + adj <= INT_MAX
  BY AdjustAssumption, IntSet DEF Half, Steady
<1>2. PICK k \in Ints : k = int(ticks + adj)
  BY <1>1, Typed, Advanced
<1>3. PICK w : w = Joined(circq, BUCKETS)
  OBVIOUS
<1>4. /\ ticks' = k /\ keeps_up
      /\ to_time'[t] = IF t \in ToSet(w) /\ rel(t) < adj THEN k ELSE to_time[t]
  BY <1>2, <1>3 DEF timeout_adjust_ticks
<1>5. t \in ToSet(w) <=> \E b \in 0..(BUCKETS - 1) : t \in ToSet(circq[b])
  BY <1>3, GatheredQueues DEF IInv
<1>6. PICK b \in 0..TODO : t \in ToSet(circq[b])
  BY DEF IInv, Queued, On
<1>7. rel(t) \in Int
  BY Ahead
<1>8. ASSUME to_time'[t] = to_time[t], rel(t) - adj >= -Half
      PROVE  rel(t)' = rel(t) - adj
  <2>1. int(to_time[t] - int(ticks + adj)) = int(to_time[t] - ticks) - adj
    BY <1>1, <1>8, Typed, Advanced DEF rel
  <2> QED BY <1>2, <1>4, <1>8, <2>1 DEF rel
<1>9. CASE b = TODO
  <2>1. \A c \in 0..(BUCKETS - 1) : t \notin ToSet(circq[c])
    BY <1>6, <1>9, Typed DEF IInv, Lists, Apart
  <2>2. rel(t) > -MaxLag /\ to_time'[t] = to_time[t] /\ t \in ToSet(circq[TODO])
    BY <1>4, <1>5, <1>6, <1>9, <2>1 DEF keeps_up
  <2>3. rel(t) - adj >= -Half
    BY <1>1, <1>7, <2>2
  <2> QED BY <1>8, <2>2, <2>3
<1>10. CASE b \in 0..(BUCKETS - 1)
  <2>1. rel(t) >= 1 /\ t \in ToSet(w)
    BY <1>5, <1>6, <1>10, Ahead
  <2>2. CASE rel(t) < adj
    <3>1. to_time'[t] = k
      BY <1>4, <2>1, <2>2
    <3>2. 0 \in 0..(Half - 1) /\ k + 0 = k /\ k - k = 0
      BY <1>1, IntSet
    <3>3. int(0) = 0
      BY <3>2, <1>1, IntIs
    <3> QED BY <1>4, <2>1, <2>2, <3>1, <3>2, <3>3 DEF rel
  <2>3. CASE ~(rel(t) < adj)
    <3>1. to_time'[t] = to_time[t] /\ rel(t) >= adj /\ rel(t) - adj >= -Half
      BY <1>1, <1>4, <1>7, <2>3
    <3> QED BY <1>8, <2>1, <3>1
  <2> QED BY <2>2, <2>3
<1> QED BY <1>6, <1>9, <1>10, Typed

\* Where a step leaves ticks alone, a timeout that keeps its time is as late
\* as before.
LEMMA LateStays ==
  ASSUME Late, UNCHANGED ticks, ToSet(circq'[TODO]) \subseteq ToSet(circq[TODO]),
         \A t \in ToSet(circq'[TODO]) : to_time'[t] = to_time[t],
         softclock_pending => softclock_pending'
  PROVE  Late'
<1>1. \A t \in ToSet(circq'[TODO]) : rel(t)' = rel(t)
  BY DEF rel
<1> QED BY <1>1 DEF Late

\* Every step keeps the bound: the clock waits for softclock() when that is
\* behind, and a jump adds no more than Steady allows.
LEMMA LateKept ==
  ASSUME Steady, IInv, IInv', Late, Next
  PROVE  Late'
<1>1. /\ INT_MAX \in Nat /\ MaxLag \in 1..INT_MAX
      /\ \A adj \in Adjustments : adj \in 0..INT_MAX /\ MaxLag + adj <= INT_MAX
  BY AdjustAssumption, IntSet DEF Steady
<1>2. TODO \in 0..TODO
  BY Typed
<1>3. ASSUME NEW t \in Timeouts, timeout_set(t) PROVE Late'
  BY <1>3, LateStays DEF timeout_set, softclock_pending
<1>4. ASSUME NEW t \in Timeouts, timeout_del(t) PROVE Late'
  <2>1. ToSet(circq'[TODO]) = ToSet(circq[TODO]) \ {t}
    <3>1. CASE OnQueue(t)
      BY <1>2, <1>4, <3>1, Removed DEF timeout_del, IInv
    <3>2. CASE ~OnQueue(t)
      BY <1>2, <1>4, <3>2 DEF timeout_del, IInv, Queued, On
    <3> QED BY <3>1, <3>2
  <2>2. ToSet(circq[TODO]) \subseteq Timeouts
    BY <1>2, Typed
  <2>3. \A u \in ToSet(circq'[TODO]) : to_time'[u] = to_time[u]
    BY <1>4, <2>1, <2>2, Typed DEF timeout_del
  <2> QED BY <1>4, <2>1, <2>3, LateStays DEF timeout_del, softclock_pending
<1>5. ASSUME NEW t \in Timeouts, NEW n \in Requests, timeout_add(t, n) PROVE Late'
  <2>1. PICK d \in 0..(Half - 1) : d = clip(n) /\ int(int(ticks + d) - ticks) = d
    BY Delay, Typed
  <2>2. /\ to_time' = [to_time EXCEPT ![t] = int(ticks + d)]
        /\ ticks' = ticks /\ softclock_si' = softclock_si /\ sc' = sc
        /\ circq' = IF OnQueue(t) /\ ~earlier(t, int(ticks + d)) THEN circq
                    ELSE CIRCQ_INSERT(t, TODO, CIRCQ_REMOVE(t, circq))
    BY <1>5, <2>1 DEF timeout_add
  <2>3. rel(t)' = d
    BY <2>1, <2>2, Typed DEF rel
  <2>4. \A u \in Timeouts : u # t => rel(u)' = rel(u)
    BY <2>2, Typed DEF rel
  <2>5. ToSet(circq'[TODO]) \subseteq ToSet(circq[TODO]) \cup {t}
    <3>1. CASE OnQueue(t) /\ ~earlier(t, int(ticks + d))
      BY <2>2, <3>1
    <3>2. CASE ~(OnQueue(t) /\ ~earlier(t, int(ticks + d)))
      <4>1. PICK q : q = CIRCQ_REMOVE(t, circq)
        OBVIOUS
      <4>2. Lists(q) /\ \A b \in 0..TODO : ToSet(q[b]) = ToSet(circq[b]) \ {t}
        BY <4>1, Removed DEF IInv
      <4>3. \A b \in 0..TODO : t \notin ToSet(q[b])
        BY <4>2
      <4>4. ToSet(CIRCQ_INSERT(t, TODO, q)[TODO]) = ToSet(q[TODO]) \cup {t}
        <5>1. \A b \in 0..TODO : ToSet(CIRCQ_INSERT(t, TODO, q)[b])
                                    = IF b = TODO THEN ToSet(q[b]) \cup {t} ELSE ToSet(q[b])
          BY <1>2, <4>2, <4>3, Inserted, ZenonT(40)
        <5> QED BY <1>2, <5>1
      <4> QED BY <1>2, <2>2, <3>2, <4>1, <4>2, <4>4
    <3> QED BY <3>1, <3>2
  <2>6. d > -INT_MAX
    BY <1>1, <2>1, <2>3, AdjustAssumption, IntSet
  <2>7. ToSet(circq[TODO]) \subseteq Timeouts /\ (softclock_pending' <=> softclock_pending)
    BY <1>2, <2>2, Typed DEF softclock_pending
  <2> SUFFICES ASSUME NEW u \in ToSet(circq'[TODO])
               PROVE  rel(u)' >= -INT_MAX /\ (softclock_pending' \/ rel(u)' > -INT_MAX)
    BY DEF Late
  <2>8. CASE u = t
    BY <1>1, <2>1, <2>3, <2>6, <2>8
  <2>9. CASE u # t
    BY <2>4, <2>5, <2>7, <2>9 DEF Late
  <2> QED BY <2>8, <2>9
<1>6. CASE timeout_hardclock_update
  <2> SUFFICES ASSUME NEW u \in ToSet(circq'[TODO])
               PROVE  rel(u)' >= -INT_MAX /\ softclock_pending'
    BY DEF Late
  <2>1. OnQueue(u)' /\ u \in Timeouts
    <3>1. u \in Timeouts
      <4>1. circq' \in [0..TODO -> Seq(Timeouts)]
        BY DEF IInv, TypeOK
      <4>2. circq'[TODO] \in Seq(Timeouts)
        BY <1>2, <4>1
      <4> QED BY <4>2 DEF ToSet
    <3> QED BY <1>2, <3>1 DEF IInv, Queued, On
  <2>2. OnQueue(u)
    BY <1>6, <2>1 DEF timeout_hardclock_update, OnQueue
  <2>3. rel(u)' = rel(u) - 1 /\ rel(u) > -INT_MAX /\ rel(u) \in Int
    BY <1>6, <2>1, <2>2, TickRel, Ahead
  <2>4. circq'[TODO] # <<>>
    BY DEF ToSet
  <2>5. softclock_pending'
    BY <1>6, <2>4 DEF timeout_hardclock_update, softclock_pending
  <2> QED BY <1>1, <2>3, <2>5
<1>7. CASE softclock
  BY <1>7, LateStays DEF softclock, softclock_pending
<1>8. CASE softclock_return
  <2>1. softclock_pending'
    BY <1>8 DEF softclock_return, softclock_pending
  <2> QED BY <1>8, <2>1, LateStays DEF softclock_return
<1>9. CASE softclock_done
  <2>1. circq'[TODO] = <<>>
    BY <1>9 DEF softclock_done
  <2> QED BY <2>1 DEF Late, ToSet
<1>10. CASE softclock_file
  <2>1. circq[TODO] # <<>>
    BY <1>10 DEF softclock_file
  <2>2. PICK t \in Timeouts : t = Head(circq[TODO])
    BY <2>1, First
  <2>3. PICK c : c = BUCKET(rel(t), to_time[t])
    OBVIOUS
  <2>4. /\ ~due(t) /\ circq' = CIRCQ_INSERT(t, c, CIRCQ_REMOVE(t, circq))
        /\ ticks' = ticks /\ to_time' = to_time
        /\ softclock_si' = softclock_si /\ sc' = sc
    BY <1>10, <2>2, <2>3 DEF softclock_file
  <2>5. c # TODO
    <3>1. rel(t) >= 1
      BY <2>4, Ahead DEF due
    <3>2. c \in 0..(BUCKETS - 1)
      BY <2>3, <3>1, Typed, FiledInTime DEF rel
    <3> QED BY <3>2, Typed
  <2>6. PICK q : q = CIRCQ_REMOVE(t, circq)
    OBVIOUS
  <2>7. Lists(q) /\ \A b \in 0..TODO : ToSet(q[b]) = ToSet(circq[b]) \ {t}
    BY <2>6, Removed DEF IInv
  <2>8. circq'[TODO] = q[TODO]
    BY <1>2, <2>4, <2>5, <2>6, <2>7 DEF CIRCQ_INSERT, Lists
  <2>9. ToSet(circq'[TODO]) \subseteq ToSet(circq[TODO])
    BY <1>2, <2>7, <2>8
  <2> QED BY <2>4, <2>9, LateStays DEF softclock_pending
<1>11. CASE softclock_call
  <2>1. circq[TODO] # <<>>
    BY <1>11 DEF softclock_call
  <2>2. PICK t \in Timeouts : t = Head(circq[TODO])
    BY <2>1, First
  <2>3. /\ circq' = CIRCQ_REMOVE(t, circq) /\ to_time' = [to_time EXCEPT ![t] = 0]
        /\ sc' = t /\ ticks' = ticks
    BY <1>11, <2>2 DEF softclock_call
  <2>4. ToSet(circq'[TODO]) = ToSet(circq[TODO]) \ {t}
    BY <1>2, <2>3, Removed DEF IInv
  <2>5. ToSet(circq[TODO]) \subseteq Timeouts
    BY <1>2, Typed
  <2>6. \A u \in ToSet(circq'[TODO]) : to_time'[u] = to_time[u]
    BY <2>3, <2>4, <2>5, Typed
  <2>7. softclock_pending'
    BY <2>3, WheelAssumption DEF softclock_pending
  <2> QED BY <2>3, <2>4, <2>6, <2>7, LateStays
<1>12. ASSUME NEW adj \in Adjustments, timeout_adjust_ticks(adj) PROVE Late'
  <2> SUFFICES ASSUME NEW u \in ToSet(circq'[TODO]) PROVE rel(u)' > -INT_MAX /\ rel(u)' \in Int
    BY <1>1 DEF Late
  <2>1. OnQueue(u)' /\ u \in Timeouts
    <3>1. u \in Timeouts
      <4>1. circq' \in [0..TODO -> Seq(Timeouts)]
        BY DEF IInv, TypeOK
      <4>2. circq'[TODO] \in Seq(Timeouts)
        BY <1>2, <4>1
      <4> QED BY <4>2 DEF ToSet
    <3> QED BY <1>2, <3>1 DEF IInv, Queued, On
  <2>2. OnQueue(u)
    BY <1>12, <2>1 DEF timeout_adjust_ticks, OnQueue
  <2>3. rel(u) \in Int
    BY <2>1, Ahead
  <2>4. \/ rel(u) > -MaxLag /\ rel(u)' = rel(u) - adj
        \/ rel(u) >= 1 /\ rel(u) >= adj /\ rel(u)' = rel(u) - adj
        \/ rel(u)' = 0
    BY <1>12, <2>1, <2>2, AdjustRel
  <2>5. adj \in 0..INT_MAX /\ MaxLag + adj <= INT_MAX
    BY <1>1
  <2> QED BY <1>1, <2>3, <2>4, <2>5
<1> QED BY <1>3, <1>4, <1>5, <1>6, <1>7, <1>8, <1>9, <1>10, <1>11, <1>12
     DEF Next, Caller, Softclock

\* The clock of the abstract specification moves by as much as ticks.
LEMMA Elapsed ==
  ASSUME NEW k \in Ints, NEW a \in 1..(Half - 1), NEW j, j = int(k + a)
  PROVE  ((j % (2 * Half)) - (k % (2 * Half))) % (2 * Half) = a
<1>1. PICK H \in Nat \ {0} : H = Half
  BY Spans
<1>2. k \in -H..(H - 1) /\ a \in 1..(H - 1)
  BY <1>1 DEF Ints
<1>3. j = IF k + a >= H THEN k + a - 2 * H ELSE k + a
  BY <1>1, <1>2, IntIs
<1>4. j \in -H..(H - 1)
  BY <1>2, <1>3
<1>5. ASSUME NEW x \in Int, NEW q \in Int, NEW r \in 0..(2 * H - 1), x = 2 * H * q + r
      PROVE  x % (2 * H) = r
  <2>1. PICK m \in Nat \ {0} : m = 2 * H
    OBVIOUS
  <2>2. r \in 0..(m - 1) /\ x = m * q + r
    BY <1>5, <2>1
  <2>3. (m * q + r) % m = r
    BY <2>2, DivUnique
  <2> QED BY <2>1, <2>2, <2>3
<1>6. ASSUME NEW x \in -(2 * H)..(2 * H - 1)
      PROVE  x % (2 * H) = IF x >= 0 THEN x ELSE x + 2 * H
  <2>1. CASE x >= 0
    <3>1. x = 2 * H * 0 + x /\ x \in 0..(2 * H - 1) /\ x \in Int
      BY <2>1
    <3>2. x % (2 * H) = x
      BY <1>5, <3>1
    <3> QED BY <2>1, <3>2
  <2>2. CASE x < 0
    <3>1. x = 2 * H * (-1) + (x + 2 * H) /\ x + 2 * H \in 0..(2 * H - 1) /\ x \in Int
      BY <2>2
    <3>2. x % (2 * H) = x + 2 * H
      BY <1>5, <3>1
    <3> QED BY <2>2, <3>2
  <2> QED BY <2>1, <2>2
<1>7. PICK m \in 0..(2 * H - 1), n \in 0..(2 * H - 1) :
        /\ m = k % (2 * H) /\ m = IF k >= 0 THEN k ELSE k + 2 * H
        /\ n = j % (2 * H) /\ n = IF j >= 0 THEN j ELSE j + 2 * H
  BY <1>2, <1>4, <1>6
<1>8. PICK d \in -(2 * H)..(2 * H - 1) : d = n - m
  BY <1>7
<1>9. d = a \/ d = a - 2 * H
  BY <1>2, <1>3, <1>7, <1>8
<1>10. d % (2 * H) = a
  BY <1>2, <1>6, <1>8, <1>9
<1> QED BY <1>1, <1>7, <1>8, <1>10

\* What the provers need of the abstract state.
LEMMA Mapped ==
  ASSUME IInv
  PROVE  /\ remaining = [t \in Timeouts |-> IF OnQueue(t) THEN max0(rel(t)) ELSE -1]
         /\ \A t \in Timeouts : max0(rel(t)) \in 0..INT_MAX
         /\ ticks \in Ints
<1>1. INT_MAX \in Nat /\ Half = INT_MAX + 1
  BY IntSet DEF Half
<1>2. ASSUME NEW t \in Timeouts PROVE max0(rel(t)) \in 0..INT_MAX
  <2>1. rel(t) \in -Half..(Half - 1)
    BY Ahead DEF Ints
  <2> QED BY <1>1, <2>1 DEF max0
<1> QED BY <1>2, Typed DEF remaining

\* Initially nothing counts down.
LEMMA TimersStart ==
  ASSUME Init
  PROVE  Timers!Init
<1>1. now = 0
  <2>1. ticks = 0
    BY DEF Init
  <2>2. PICK H \in Nat \ {0} : H = Half
    BY Spans
  <2>3. 0 % (2 * H) = 0
    <3>1. PICK m \in Nat \ {0} : m = 2 * H
      OBVIOUS
    <3>2. 0 \in 0..(m - 1) /\ m * 0 + 0 = 0
      OBVIOUS
    <3>3. (m * 0 + 0) % m = 0
      BY <3>2, DivUnique
    <3> QED BY <3>1, <3>2, <3>3
  <2> QED BY <2>1, <2>2, <2>3 DEF now, Half
<1>2. remaining = [t \in Timeouts |-> -1]
  BY DEF remaining, Init, OnQueue
<1>3. running = None
  BY WheelAssumption DEF running, Init
<1> QED BY <1>1, <1>2, <1>3 DEF Timers!Init, Timers!Idle

\* A step of the clock by a ticks counts every timeout down by a.
LEMMA Advances ==
  ASSUME IInv, IInv', NEW a \in 1..INT_MAX, ticks' = int(ticks + a),
         UNCHANGED <<to_flags, sc>>,
         \A t \in Timeouts : OnQueue(t) =>
           \/ rel(t)' = rel(t) - a
           \/ rel(t) >= 1 /\ rel(t) < a /\ rel(t)' = 0
  PROVE  Timers!Advance
<1>1. INT_MAX \in Nat /\ Half = INT_MAX + 1 /\ a \in 1..(Half - 1)
  BY IntSet DEF Half
<1>2. Timers!elapsed = a
  <2>1. PICK j : j = ticks'
    OBVIOUS
  <2>2. ((j % (2 * Half)) - (ticks % (2 * Half))) % (2 * Half) = a
    BY <1>1, <2>1, Typed, Elapsed
  <2> QED BY <2>1, <2>2 DEF Timers!elapsed, now, Half
<1>3. \A t \in Timeouts : OnQueue(t)' <=> OnQueue(t)
  BY DEF OnQueue
<1>4. remaining' = [t \in Timeouts |-> IF OnQueue(t)' THEN max0(rel(t)') ELSE -1]
  BY DEF remaining
<1>5. ASSUME NEW t \in Timeouts
      PROVE  (IF OnQueue(t)' THEN max0(rel(t)') ELSE -1)
               = IF remaining[t] = -1 THEN -1 ELSE Timers!less(remaining[t], a)
  <2>1. CASE ~OnQueue(t)
    BY <1>3, <2>1 DEF remaining
  <2>2. CASE OnQueue(t)
    <3>1. rel(t) \in Int
      BY Ahead
    <3>2. remaining[t] = max0(rel(t)) /\ max0(rel(t)) # -1
      BY <2>2, <3>1 DEF remaining, max0
    <3>3. max0(rel(t)') = Timers!less(max0(rel(t)), a)
      <4>1. PICK r \in Int : r = rel(t)
        BY <3>1
      <4>2. PICK s : s = rel(t)'
        OBVIOUS
      <4>3. s = r - a \/ (r >= 1 /\ r < a /\ s = 0)
        BY <2>2, <4>1, <4>2
      <4>4. max0(s) = Timers!less(max0(r), a)
        BY <1>1, <4>1, <4>3 DEF max0, Timers!less
      <4> QED BY <4>1, <4>2, <4>4
    <3> QED BY <1>3, <2>2, <3>2, <3>3
  <2> QED BY <2>1, <2>2
<1>6. remaining' = [t \in Timeouts |->
                      IF remaining[t] = -1 THEN -1 ELSE Timers!less(remaining[t], a)]
  BY <1>4, <1>5
<1>7. running' = running
  BY DEF running
<1> QED BY <1>2, <1>6, <1>7 DEF Timers!Advance, Timers!Idle

\* Every step of the wheel is a step of the countdown, or none.
LEMMA TimersStep ==
  ASSUME Steady, IInv, IInv', Late, [Next]_vars
  PROVE  [Timers!Next]_<<now, remaining, running>>
<1>1. ASSUME UNCHANGED <<ticks, to_time, to_flags>>
      PROVE  UNCHANGED <<now, remaining>>
  <2>1. \A t \in Timeouts : rel(t)' = rel(t) /\ (OnQueue(t)' <=> OnQueue(t))
    BY <1>1 DEF rel, OnQueue
  <2>2. remaining' = remaining
    BY <2>1 DEF remaining
  <2> QED BY <1>1, <2>2 DEF now
<1>2. ASSUME UNCHANGED sc PROVE UNCHANGED running
  BY <1>2 DEF running
<1>3. "idle" \notin Timeouts /\ "locked" \notin Timeouts /\ None \notin Timeouts
  BY WheelAssumption
<1>4. CASE UNCHANGED vars
  BY <1>1, <1>2, <1>4 DEF vars
<1>5. ASSUME NEW t \in Timeouts, UNCHANGED <<ticks, sc>>,
             \A u \in Timeouts : u # t => to_flags'[u] = to_flags[u] /\ to_time'[u] = to_time[u]
      PROVE  /\ UNCHANGED <<now, running>>
             /\ \A u \in Timeouts : u # t => remaining'[u] = remaining[u]
             /\ remaining'[t] = IF OnQueue(t)' THEN max0(rel(t)') ELSE -1
             /\ remaining' \in [Timeouts -> Int] /\ remaining \in [Timeouts -> Int]
  <2>1. UNCHANGED <<now, running>>
    BY <1>2, <1>5 DEF now
  <2>2. ASSUME NEW u \in Timeouts, u # t PROVE remaining'[u] = remaining[u]
    <3>1. rel(u)' = rel(u) /\ (OnQueue(u)' <=> OnQueue(u))
      BY <1>5, <2>2 DEF rel, OnQueue
    <3> QED BY <3>1 DEF remaining
  <2>3. remaining'[t] = IF OnQueue(t)' THEN max0(rel(t)') ELSE -1
    BY DEF remaining
  <2>4. remaining \in [Timeouts -> Int]
    BY Mapped, IntSet
  <2>5. remaining' = [u \in Timeouts |-> remaining'[u]]
    BY DEF remaining
  <2>6. remaining'[t] \in Int
    <3>1. (to_time[t] - ticks)' \in Int
      <4>1. ticks' \in Ints /\ to_time' \in [Timeouts -> Ints]
        BY IntSet DEF IInv, TypeOK
      <4> QED BY <4>1, IntSet
    <3>2. rel(t)' \in Int
      BY <3>1, IntIs, Spans DEF rel
    <3> QED BY <2>3, <3>2 DEF max0
  <2>7. remaining' \in [Timeouts -> Int]
    <3>1. \A u \in Timeouts : remaining'[u] \in Int
      BY <2>2, <2>4, <2>6
    <3> QED BY <2>5, <3>1
  <2> QED BY <2>1, <2>2, <2>3, <2>4, <2>7
<1>6. ASSUME NEW t \in Timeouts, timeout_set(t)
      PROVE  UNCHANGED <<now, remaining, running>>
  <2>1. /\ UNCHANGED <<ticks, sc, to_time>> /\ ~OnQueue(t) /\ ~OnQueue(t)'
        /\ \A u \in Timeouts : u # t => to_flags'[u] = to_flags[u]
    BY <1>6, Typed DEF timeout_set, OnQueue
  <2>2. \A u \in Timeouts : rel(u)' = rel(u) /\ (OnQueue(u)' <=> OnQueue(u))
    BY <2>1 DEF rel, OnQueue
  <2>3. remaining' = remaining
    BY <2>2 DEF remaining
  <2> QED BY <1>2, <2>1, <2>3 DEF now
<1>7. ASSUME NEW t \in Timeouts, NEW n \in Requests, timeout_add(t, n)
      PROVE  Timers!Add(t)
  <2>1. PICK d \in 0..(Half - 1) : d = clip(n) /\ int(int(ticks + d) - ticks) = d
    BY Delay, Typed
  <2>2. /\ to_time' = [to_time EXCEPT ![t] = int(ticks + d)]
        /\ to_flags' = [to_flags EXCEPT ![t] = (@ \ {"TRIGGERED"}) \cup {"ONQUEUE"}]
        /\ ticks' = ticks /\ sc' = sc
    BY <1>7, <2>1 DEF timeout_add
  <2>3. rel(t)' = d /\ OnQueue(t)'
    BY <2>1, <2>2, Typed DEF rel, OnQueue
  <2>4. max0(d) = d /\ d \in 0..INT_MAX
    BY <2>1, IntSet DEF max0, Half
  <2>5. \A u \in Timeouts : u # t => to_flags'[u] = to_flags[u] /\ to_time'[u] = to_time[u]
    BY <2>2, Typed
  <2>6. /\ UNCHANGED <<now, running>>
        /\ \A u \in Timeouts : u # t => remaining'[u] = remaining[u]
        /\ remaining'[t] = IF OnQueue(t)' THEN max0(rel(t)') ELSE -1
    BY <1>5, <2>2, <2>5
  <2>7. remaining'[t] \in 0..INT_MAX
    BY <2>3, <2>4, <2>6
  <2> QED BY <2>6, <2>7 DEF Timers!Add
<1>8. ASSUME NEW t \in Timeouts, timeout_del(t)
      PROVE  Timers!Del(t)
  <2>1. /\ \A u \in Timeouts : u # t => to_flags'[u] = to_flags[u] /\ to_time'[u] = to_time[u]
        /\ UNCHANGED <<ticks, sc>> /\ ~OnQueue(t)'
    BY <1>8, Typed DEF timeout_del, OnQueue
  <2>2. /\ UNCHANGED <<now, running>> /\ remaining'[t] = -1
        /\ \A u \in Timeouts : u # t => remaining'[u] = remaining[u]
        /\ remaining' \in [Timeouts -> Int] /\ remaining \in [Timeouts -> Int]
    BY <1>5, <2>1
  <2>3. remaining' = [remaining EXCEPT ![t] = -1]
    BY <2>2
  <2> QED BY <2>2, <2>3 DEF Timers!Del, Timers!Idle
<1>9. CASE timeout_hardclock_update
  <2>1. 1 \in 1..INT_MAX
    BY AdjustAssumption, IntSet
  <2>2. ticks' = int(ticks + 1) /\ UNCHANGED <<to_flags, sc>>
    BY <1>9 DEF timeout_hardclock_update
  <2>3. \A t \in Timeouts : OnQueue(t) => rel(t)' = rel(t) - 1
    BY <1>9, TickRel
  <2>4. Timers!Advance
    BY <2>1, <2>2, <2>3, Advances
  <2> QED BY <2>4 DEF Timers!Next
<1>10. ASSUME NEW adj \in Adjustments, timeout_adjust_ticks(adj)
       PROVE  Timers!Advance
  <2>1. adj \in 1..INT_MAX
    BY <1>10, AdjustAssumption, IntSet DEF timeout_adjust_ticks
  <2>2. ticks' = int(ticks + adj) /\ UNCHANGED <<to_flags, sc>>
    BY <1>10 DEF timeout_adjust_ticks
  <2>3. \A t \in Timeouts : OnQueue(t) => \/ rel(t)' = rel(t) - adj
                                          \/ rel(t) >= 1 /\ rel(t) < adj /\ rel(t)' = 0
    BY <1>10, AdjustRel
  <2> QED BY <2>1, <2>2, <2>3, Advances
<1>11. CASE softclock \/ softclock_done \/ softclock_file
  <2>1. UNCHANGED <<ticks, to_time, to_flags>>
    BY <1>11 DEF softclock, softclock_done, softclock_file
  <2>2. running' = running
    BY <1>3, <1>11 DEF softclock, softclock_done, softclock_file, running
  <2> QED BY <1>1, <2>1, <2>2
<1>12. CASE softclock_return
  <2>1. UNCHANGED <<ticks, to_time, to_flags>>
    BY <1>12 DEF softclock_return
  <2>2. running # None /\ running' = None
    BY <1>3, <1>12 DEF softclock_return, running
  <2>3. Timers!Return
    BY <1>1, <2>1, <2>2 DEF Timers!Return
  <2> QED BY <2>3 DEF Timers!Next
<1>13. CASE softclock_call
  <2>1. circq[TODO] # <<>>
    BY <1>13 DEF softclock_call
  <2>2. PICK t \in Timeouts : t = Head(circq[TODO]) /\ t \in ToSet(circq[TODO])
    BY <2>1, First
  <2>3. /\ due(t) /\ sc = "locked" /\ sc' = t /\ ticks' = ticks
        /\ to_flags' = [to_flags EXCEPT ![t] = (@ \ {"ONQUEUE"}) \cup {"TRIGGERED"}]
        /\ to_time' = [to_time EXCEPT ![t] = 0]
    BY <1>13, <2>2 DEF softclock_call
  <2>4. OnQueue(t) /\ ~OnQueue(t)'
    <3>1. OnQueue(t)
      BY <2>2, Typed DEF IInv, Queued, On
    <3> QED BY <2>3, <3>1, Typed DEF OnQueue
  <2>5. remaining[t] = 0
    <3>1. rel(t) \in Int /\ rel(t) <= 0
      BY <2>3, Ahead DEF due
    <3>2. max0(rel(t)) = 0
      BY <3>1 DEF max0
    <3> QED BY <2>4, <3>2 DEF remaining
  <2>6. \A u \in Timeouts : u # t => /\ OnQueue(u)' <=> OnQueue(u)
                                     /\ rel(u)' = rel(u)
    BY <2>3, Typed DEF OnQueue, rel
  <2>7. remaining' = [remaining EXCEPT ![t] = -1]
    <3>1. remaining' = [u \in Timeouts |-> IF u = t THEN -1 ELSE remaining[u]]
      <4>1. \A u \in Timeouts : (IF OnQueue(u)' THEN max0(rel(u)') ELSE -1)
                                   = IF u = t THEN -1 ELSE remaining[u]
        BY <2>4, <2>6 DEF remaining
      <4>2. remaining' = [u \in Timeouts |-> IF OnQueue(u)' THEN max0(rel(u)') ELSE -1]
        BY DEF remaining
      <4> QED BY <4>1, <4>2
    <3>2. remaining = [u \in Timeouts |-> remaining[u]]
      BY DEF remaining
    <3> QED BY <3>1, <3>2
  <2>8. now' = now /\ running = None /\ running' = t
    BY <1>3, <2>3 DEF now, running
  <2>9. Timers!Fire(t)
    BY <2>5, <2>7, <2>8 DEF Timers!Fire, Timers!Idle
  <2> QED BY <2>9 DEF Timers!Next
<1>14. ASSUME NEW t \in Timeouts, Caller(t)
       PROVE  [Timers!Next]_<<now, remaining, running>>
  <2>1. CASE timeout_set(t)
    BY <1>6, <2>1
  <2>2. CASE timeout_del(t)
    <3>1. Timers!Del(t)
      BY <1>8, <2>2
    <3> QED BY <3>1 DEF Timers!Next
  <2>3. ASSUME NEW n \in Requests, timeout_add(t, n) PROVE Timers!Next
    <3>1. Timers!Add(t)
      BY <1>7, <2>3
    <3> QED BY <3>1 DEF Timers!Next
  <2> QED BY <1>14, <2>1, <2>2, <2>3 DEF Caller
<1>15. ASSUME NEW adj \in Adjustments, timeout_adjust_ticks(adj) PROVE Timers!Next
  BY <1>10, <1>15 DEF Timers!Next
<1> QED BY <1>4, <1>9, <1>11, <1>12, <1>13, <1>14, <1>15 DEF Next, Softclock

\* As long as the clock does not jump too far, no timeout on the work list is
\* so late that its time looks like one to come.
THEOREM LateInvariance == Steady => (Spec => [](IInv /\ Late))
<1> SUFFICES ASSUME Steady PROVE Spec => [](IInv /\ Late)
  OBVIOUS
<1>1. Init => Late
  <2> SUFFICES ASSUME Init PROVE Late
    OBVIOUS
  <2>1. TODO \in 0..TODO
    BY Starts, Typed
  <2>2. circq[TODO] = <<>>
    BY <2>1 DEF Init
  <2> QED BY <2>2 DEF Late, ToSet
<1>2. IInv /\ IInv' /\ Late /\ [Next]_vars => Late'
  <2> SUFFICES ASSUME IInv, IInv', Late, [Next]_vars PROVE Late'
    OBVIOUS
  <2>1. CASE UNCHANGED vars
    BY <2>1 DEF vars, Late, rel, softclock_pending
  <2> QED BY <2>1, LateKept
<1> QED BY <1>1, <1>2, Invariance, PTL DEF Spec

\* The wheel implements the countdown that timeout.h describes, across the
\* wrapping of ticks and jumps of the clock: every timeout counts down with the
\* clock, its function is called once the count is used up and not before, and
\* never after timeout_del().
THEOREM Refinement == Steady => (Spec => ImplementsTimers)
<1> SUFFICES ASSUME Steady PROVE Spec => ImplementsTimers
  OBVIOUS
<1>1. Init => Timers!Init
  BY TimersStart
<1>2. IInv /\ IInv' /\ Late /\ [Next]_vars => [Timers!Next]_<<now, remaining, running>>
  BY TimersStep
<1>3. Spec => [](IInv /\ Late)
  BY LateInvariance
<1> QED BY <1>1, <1>2, <1>3, PTL DEF Spec, ImplementsTimers, Timers!Spec

\* What the comment above timeout_startup() says of the difference between a
\* timeout's time and ticks holds until the clock jumps too far.
THEOREM DueIsLasting == Steady => (Spec => DueStaysDue)
<1> SUFFICES ASSUME Steady PROVE Spec => DueStaysDue
  OBVIOUS
<1>1. IInv /\ Late /\ [Next]_vars =>
        [\A t \in Timeouts :
           OnQueue(t) /\ rel(t) <= 0 /\ OnQueue(t)' /\ to_time'[t] = to_time[t]
             => rel(t)' <= 0]_vars
  <2> SUFFICES ASSUME IInv, Late, [Next]_vars,
                      NEW t \in Timeouts, OnQueue(t), rel(t) <= 0, to_time'[t] = to_time[t]
               PROVE  rel(t)' <= 0
    OBVIOUS
  <2>1. rel(t) \in Int
    BY Ahead
  <2>2. CASE timeout_hardclock_update
    <3>1. rel(t)' = rel(t) - 1
      BY <2>2, TickRel
    <3> QED BY <2>1, <3>1
  <2>3. ASSUME NEW adj \in Adjustments, timeout_adjust_ticks(adj) PROVE rel(t)' <= 0
    <3>1. adj \in Nat
      BY AdjustAssumption, IntSet
    <3>2. rel(t)' = rel(t) - adj
      BY <2>1, <2>3, AdjustRel
    <3> QED BY <2>1, <3>1, <3>2
  <2>4. CASE UNCHANGED ticks
    BY <2>4 DEF rel
  <2> QED BY <2>2, <2>3, <2>4
       DEF Next, Caller, Softclock, vars, timeout_set, timeout_add, timeout_del, softclock,
           softclock_file, softclock_call, softclock_return, softclock_done
<1>2. Spec => [](IInv /\ Late)
  BY LateInvariance
<1> QED BY <1>1, <1>2, PTL DEF Spec, DueStaysDue
=============================================================================
