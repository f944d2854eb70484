----------------------------- MODULE ScreensProofs -----------------------------
(***************************************************************************)
(* Proofs about Screens, for any number of screens of any size.            *)
(***************************************************************************)
EXTENDS Screens, WellFoundedInduction, TLAPS

-----------------------------------------------------------------------------
(* The inductive invariant, of a state of the program.                     *)

Apart(geometry, D) == \A s, t \in D : s # t => Disjoint(geometry[s], geometry[t])

\* Between two signals Qt has unplugged a screen that the watcher still knows: C are the
\* screens that are plugged, D those whose geometry the watcher has.
Sane(u, C, D) ==
  /\ u \in UIs
  /\ u.connected = C /\ C \subseteq D
  /\ DOMAIN u.geometry = D
  /\ u.primary \in C
  /\ u.marked \subseteq D
  /\ \A s, t \in u.marked : s = t
  /\ Apart(u.geometry, D)
  /\ u.window => u.frame.width > 0

\* What is dragged is on the screen, and only a floating keyboard is; the keyboard and
\* the button are never on the screen together.
DragInv(u) ==
  /\ u.dragged.window = "keyboard" => u.visible /\ u.float
  /\ u.dragged.window = "button" => u.button = "shown"
  /\ u.visible => u.window /\ u.button # "shown"

ScreensInv ==
  /\ Sane(ui, ui.connected, ui.connected)
  /\ DragInv(ui)

-----------------------------------------------------------------------------
(* Numbers: the rounding of floats.                                        *)

\* A set of natural numbers has a least element.
LEMMA Least ==
  ASSUME NEW S, S \subseteq Nat, S # {}
  PROVE  \E x \in S : \A y \in S : x <= y
<1>1. \E x \in S : \A y \in S : ~ (<<y, x>> \in OpToRel(<, Nat))
  BY NatLessThanWellFounded, WFMin
<1>2. PICK x \in S : \A y \in S : ~ (<<y, x>> \in OpToRel(<, Nat))
  BY <1>1
<1>3. \A y \in S : ~ (y < x)
  BY <1>2 DEF OpToRel
<1> QED
  BY <1>3

\* The format of a float in multiples of Far, and its powers.
LEMMA Format ==
  /\ Far \in Nat \ {0} /\ Significands = 4 * Far /\ Significands \div 2 = 2 * Far
  /\ \A p \in Powers :
       /\ p \in Nat \ {0}
       /\ p # 1 => p \div 2 \in Powers /\ p = 2 * (p \div 2) /\ p \div 2 < p
<1>1. Far \in Nat \ {0} /\ Significands = 4 * Far /\ Significands \div 2 = 2 * Far
  BY FormatAssumption DEF Far
<1>2. ASSUME NEW p \in Powers
      PROVE  /\ p \in Nat \ {0}
             /\ p # 1 => p \div 2 \in Powers /\ p = 2 * (p \div 2) /\ p \div 2 < p
  BY FormatAssumption
<1> QED
  BY <1>1, <1>2

\* A product grows with its factors.
LEMMA Monotone ==
  ASSUME NEW a \in Nat, NEW b \in Nat, NEW c \in Nat, a <= b
  PROVE  a * c <= b * c /\ c * a <= c * b /\ a * c \in Nat
<1>1. b = a + (b - a) /\ b - a \in Nat
  OBVIOUS
<1>2. b * c = a * c + (b - a) * c
  BY <1>1
<1>3. (b - a) * c \in Nat
  BY <1>1
<1> QED
  BY <1>2, <1>3

\* A quotient whose multiplier has been found uses all the bits of a significand.
LEMMA MultiplierIs ==
  ASSUME NEW n \in Nat \ {0}, NEW d \in Nat \ {0},
         \E q \in Powers : q >= 2 * Far * d
  PROVE  LET p == Multiplier(n, d)
         IN /\ p \in Powers
            /\ n * p >= 2 * Far * d
            /\ p # 1 => n * p < 4 * Far * d
<1> DEFINE h == 2 * Far * d
           A == {p \in Powers : n * p >= h}
           Fits(p) == n * p >= h /\ (p = 1 \/ n * (p \div 2) < h)
<1>1. h \in Nat /\ (Significands \div 2) * d = h /\ 4 * Far * d = 2 * h
  BY Format
<1> HIDE DEF h
<1>2. A # {}
  <2>1. PICK q \in Powers : q >= h
    BY DEF h
  <2>2. n * q >= q
    <3>1. q \in Nat
      BY Format
    <3> QED
      BY <3>1, Monotone, 1 * q = q
  <2> QED
    BY <1>1, <2>1, <2>2, Format
<1>3. A \subseteq Nat
  BY Format
<1>4. PICK p \in A : \A y \in A : p <= y
  BY <1>2, <1>3, Least
<1>5. p \in Powers /\ Fits(p)
  <2>1. CASE p # 1
    <3>1. p \div 2 \in Powers /\ p \div 2 < p /\ p \div 2 \in Nat
      BY <2>1, <1>4, Format
    <3>2. ~ (n * (p \div 2) >= h)
      BY <3>1, <1>4, Format
    <3> QED
      BY <1>1, <1>4, <3>1, <3>2
  <2> QED
    BY <1>4, <2>1
<1>6. Multiplier(n, d) = CHOOSE x \in Powers : Fits(x)
  BY <1>1 DEF Multiplier
<1>7. Multiplier(n, d) \in Powers /\ Fits(Multiplier(n, d))
  BY <1>5, <1>6
<1> DEFINE m == Multiplier(n, d)
<1> HIDE DEF m
<1>8. m \in Powers /\ Fits(m)
  BY <1>7 DEF m
<1>9. m # 1 => n * m < 2 * h
  <2> SUFFICES ASSUME m # 1 PROVE n * m < 2 * h
    OBVIOUS
  <2>1. m = 2 * (m \div 2) /\ m \div 2 \in Nat
    BY <1>8, Format
  <2>2. n * m = 2 * (n * (m \div 2))
    BY <2>1
  <2>3. n * (m \div 2) \in Nat
    BY <2>1
  <2> QED
    BY <1>1, <1>8, <2>2, <2>3
<1> QED
  BY <1>1, <1>8, <1>9 DEF m, h

\* So does a product that fits at all.
LEMMA DivisorIs ==
  ASSUME NEW n \in Nat, NEW q \in Powers, n < 4 * Far * q
  PROVE  LET e == Divisor(n)
         IN /\ e \in Powers
            /\ e # 1 => 2 * Far * e <= n
<1> DEFINE A == {e \in Powers : n \div e < 4 * Far}
           Fits(e) == n \div e < 4 * Far /\ (e = 1 \/ n \div (e \div 2) >= 4 * Far)
<1>1. A # {}
  <2>1. n \div q < 4 * Far
    <3> q \in Nat \ {0}
      BY Format
    <3>1. n \div q \in Nat /\ n >= q * (n \div q)
      OBVIOUS
    <3>2. ASSUME n \div q >= 4 * Far PROVE FALSE
      <4>1. (4 * Far) * q <= (n \div q) * q
        BY <3>1, <3>2, Monotone, Format
      <4> QED
        BY <3>1, <4>1, Format
    <3> QED
      BY <3>1, <3>2, Format
  <2> QED
    BY <2>1
<1>2. A \subseteq Nat
  BY Format
<1>3. PICK e \in A : \A y \in A : e <= y
  BY <1>1, <1>2, Least
<1>4. e \in Powers /\ Fits(e)
  <2>1. CASE e # 1
    <3>1. e \div 2 \in Powers /\ e \div 2 < e /\ e \div 2 \in Nat \ {0}
      BY <2>1, <1>3, Format
    <3>2. ~ (n \div (e \div 2) < 4 * Far)
      BY <3>1, <1>3, Format
    <3>3. n \div (e \div 2) \in Nat
      BY <3>1
    <3> QED
      BY <1>3, <3>1, <3>2, <3>3, Format
  <2> QED
    BY <1>3, <2>1
<1>5. Divisor(n) = CHOOSE x \in Powers : Fits(x)
  BY Format DEF Divisor
<1>6. Divisor(n) \in Powers /\ Fits(Divisor(n))
  BY <1>4, <1>5
<1> DEFINE m == Divisor(n)
<1> HIDE DEF m
<1>7. m \in Powers /\ Fits(m)
  BY <1>6 DEF m
<1>8. ASSUME m # 1 PROVE 2 * Far * m <= n
  <2>1. m = 2 * (m \div 2) /\ m \div 2 \in Nat \ {0}
    BY <1>7, <1>8, Format
  <2> DEFINE k == m \div 2
  <2>2. n \div k \in Nat /\ n >= k * (n \div k) /\ n \div k >= 4 * Far
    BY <1>7, <1>8, <2>1
  <2> HIDE DEF k
  <2>3. m = 2 * k /\ k \in Nat
    BY <2>1 DEF k
  <2>4. (4 * Far) * k <= (n \div k) * k
    BY <2>2, <2>3, Monotone, Format
  <2>5. (4 * Far) * k = 2 * Far * m
    BY <2>3, Format
  <2> QED
    BY <2>2, <2>3, <2>4, <2>5, Format
<1> QED
  BY <1>7, <1>8 DEF m

\* Rounding takes or adds half a unit at most.
LEMMA NearestIs ==
  ASSUME NEW n \in Nat, NEW d \in Nat \ {0}
  PROVE  /\ Nearest(n, d) \in Nat
         /\ 2 * (Nearest(n, d) * d) <= 2 * n + d
         /\ 2 * n <= 2 * (Nearest(n, d) * d) + d
<1> DEFINE k == n \div d
           r == n % d
<1>1. k \in Nat /\ r \in Nat /\ r < d /\ n = d * k + r
  OBVIOUS
<1>2. Nearest(n, d) = IF 2 * r > d \/ (2 * r = d /\ k % 2 = 1) THEN k + 1 ELSE k
  BY DEF Nearest
<1> HIDE DEF k, r
<1>3. (k + 1) * d = d * k + d /\ k * d = d * k /\ d * k \in Nat
  BY <1>1
<1>4. CASE 2 * r > d \/ (2 * r = d /\ k % 2 = 1)
  BY <1>1, <1>2, <1>3, <1>4
<1>5. CASE ~ (2 * r > d \/ (2 * r = d /\ k % 2 = 1))
  BY <1>1, <1>2, <1>3, <1>5
<1> QED
  BY <1>4, <1>5

\* The quotient of two int is the float with this significand and this multiplier.
LEMMA QuotientIs ==
  ASSUME NEW n \in Nat \ {0}, n <= 4 * Far, NEW d \in Nat \ {0},
         \E q \in Powers : q >= 2 * Far * d
  PROVE  \E p \in Powers, a \in Nat :
           /\ Quotient(n, d) = [part |-> a, of |-> p]
           /\ Quotient(-n, d) = [part |-> -a, of |-> p]
           /\ n * p >= 2 * Far * d
           /\ a <= 4 * Far
           /\ 2 * (a * d) <= 2 * (n * p) + d /\ 2 * (n * p) <= 2 * (a * d) + d
<1> DEFINE p == Multiplier(n, d)
           a == Nearest(n * p, d)
<1>1. p \in Powers /\ n * p >= 2 * Far * d /\ (p # 1 => n * p < 4 * Far * d)
  BY MultiplierIs
<1>2. Quotient(n, d) = [part |-> a, of |-> p] /\ Quotient(-n, d) = [part |-> -a, of |-> p]
  BY DEF Quotient, Magnitude, WithSign
<1> HIDE DEF p
<1>3. p \in Nat \ {0} /\ n * p \in Nat
  BY <1>1, Format
<1>4. a \in Nat /\ 2 * (a * d) <= 2 * (n * p) + d /\ 2 * (n * p) <= 2 * (a * d) + d
  BY <1>3, NearestIs
<1> HIDE DEF a
<1>5. n * p <= (4 * Far) * d
  <2>1. CASE p = 1
    <3>1. (4 * Far) * 1 <= (4 * Far) * d
      BY Monotone, Format
    <3> QED
      BY <2>1, <3>1, Format
  <2>2. CASE p # 1
    BY <1>1, <1>3, <2>2, Format
  <2> QED
    BY <2>1, <2>2
<1>6. a <= 4 * Far
  <2>1. ASSUME a >= 4 * Far + 1 PROVE FALSE
    <3>1. (4 * Far + 1) * d <= a * d
      BY <1>4, <2>1, Monotone, Format
    <3>2. (4 * Far + 1) * d = (4 * Far) * d + d
      BY Format
    <3>3. (4 * Far) * d \in Nat /\ a * d \in Nat
      BY <1>4, Format
    <3> QED
      BY <1>3, <1>4, <1>5, <3>1, <3>2, <3>3
  <2> QED
    BY <1>4, <2>1, Format
<1> QED
  BY <1>1, <1>2, <1>4, <1>6

\* So it is a float, also if the dividend is negative or zero.
LEMMA QuotientType ==
  ASSUME NEW n \in -4 * Far .. 4 * Far, NEW d \in Nat \ {0},
         \E q \in Powers : q >= 2 * Far * d
  PROVE  Quotient(n, d) \in Floats
<1>1. CASE n = 0
  BY <1>1, FormatAssumption DEF Quotient, Floats
<1>2. CASE n # 0
  <2> DEFINE m == IF n < 0 THEN -n ELSE n
  <2>1. m \in Nat \ {0} /\ m <= 4 * Far /\ (n = m \/ n = -m)
    BY <1>2, Format
  <2> HIDE DEF m
  <2>2. PICK p \in Powers, a \in Nat :
          /\ Quotient(m, d) = [part |-> a, of |-> p]
          /\ Quotient(-m, d) = [part |-> -a, of |-> p]
          /\ a <= 4 * Far
    BY <2>1, QuotientIs
  <2>3. a \in -Significands .. Significands /\ -a \in -Significands .. Significands
    BY <2>2, Format
  <2> QED
    BY <2>1, <2>2, <2>3 DEF Floats
<1> QED
  BY <1>1, <1>2

\* The product of an int and a float, if there is room for it, is an int.
LEMMA ProductType ==
  ASSUME NEW n \in Nat, NEW q \in Powers, n < q, NEW f \in Floats
  PROVE  Product(n, f) \in Int
<1> DEFINE m == n * Magnitude(f.part)
           e == Divisor(m)
           b == Nearest(m, e) * e
<1>1. f.part \in -4 * Far .. 4 * Far /\ f.of \in Nat \ {0} /\ q \in Nat
  BY Format DEF Floats
<1>2. Magnitude(f.part) \in Nat /\ Magnitude(f.part) <= 4 * Far
  BY <1>1, Format DEF Magnitude
<1>3. m \in Nat /\ m < 4 * Far * q
  <2>1. n * Magnitude(f.part) <= n * (4 * Far)
    BY <1>2, Monotone, Format
  <2>2. (n + 1) * (4 * Far) <= q * (4 * Far)
    BY <1>1, Monotone, Format
  <2>3. (n + 1) * (4 * Far) = n * (4 * Far) + 4 * Far /\ q * (4 * Far) = 4 * Far * q
    BY <1>1, Format
  <2>4. n * Magnitude(f.part) \in Nat /\ n * (4 * Far) \in Nat
    BY <1>2, Format
  <2> QED
    BY <1>1, <2>1, <2>2, <2>3, <2>4, Format
<1> HIDE DEF m
<1>4. e \in Nat \ {0}
  BY <1>3, DivisorIs, Format
<1> HIDE DEF e
<1>5. b \in Int
  BY <1>3, <1>4, NearestIs
<1> HIDE DEF b
<1>6. Product(n, f) = Truncated(WithSign(f.part, b), f.of)
  BY DEF Product, m, e, b
<1> QED
  BY <1>1, <1>5, <1>6 DEF Truncated, WithSign

\* What is read of a position that was stored.
TowardsZero(x) == IF x > 0 THEN x - 1 ELSE IF x < 0 THEN x + 1 ELSE x
ReadBack(x) == {x, TowardsZero(x)}

\* The two roundings together take or add less than a pixel.
LEMMA Roundings ==
  ASSUME NEW x \in 1 .. Far, NEW m \in 1 .. Far, NEW p \in Powers, NEW a \in Nat,
         x * p >= 2 * Far * m,
         2 * (a * m) <= 2 * (x * p) + m, 2 * (x * p) <= 2 * (a * m) + m
  PROVE  LET b == Nearest(m * a, Divisor(m * a)) * Divisor(m * a)
         IN b \in Nat /\ (x - 1) * p < b /\ b < (x + 1) * p
<1> DEFINE c == m * a
           e == Divisor(c)
           b == Nearest(c, e) * e
           y == x * p
<1>1. p \in Nat \ {0} /\ Far \in Nat \ {0} /\ x \in Nat /\ m \in Nat
  BY Format
<1>2. c \in Nat /\ y \in Nat /\ 2 * c <= 2 * y + m /\ 2 * y <= 2 * c + m
  <2>1. a * m = m * a /\ m * a \in Nat /\ x * p \in Nat
    BY <1>1
  <2> QED
    BY <2>1
<1>3. 2 * m <= p
  <2>1. y <= Far * p
    BY <1>1, Monotone
  <2>2. ASSUME 2 * m >= p + 1 PROVE FALSE
    <3>1. Far * (p + 1) <= Far * (2 * m)
      BY <1>1, <2>2, Monotone
    <3>2. Far * (p + 1) = Far * p + Far /\ Far * (2 * m) = 2 * Far * m
      BY <1>1
    <3>3. Far * p \in Nat
      BY <1>1
    <3> QED
      BY <1>1, <1>2, <2>1, <3>1, <3>2, <3>3
  <2> QED
    BY <1>1, <2>2
<1>4. y <= Far * p /\ Far * p \in Nat /\ p <= Far * p
  <2>1. x * p <= Far * p /\ 1 * p <= Far * p
    BY <1>1, Monotone
  <2> QED
    BY <1>1, <2>1
<1>5. (x - 1) * p = y - p /\ (x + 1) * p = y + p
  BY <1>1
<1>6. c < 4 * Far * p
  <2>1. 4 * Far * p = 4 * (Far * p)
    BY <1>1
  <2> HIDE DEF c, y
  <2> QED
    BY <1>1, <1>2, <1>3, <1>4, <2>1
<1> HIDE DEF c, y
<1>7. e \in Powers /\ (e # 1 => 2 * Far * e <= c)
  BY <1>1, <1>2, <1>6, DivisorIs
<1> HIDE DEF e
<1>8. e \in Nat \ {0}
  BY <1>7, Format
<1>9. b \in Nat /\ 2 * b <= 2 * c + e /\ 2 * c <= 2 * b + e
  <2>1. /\ Nearest(c, e) \in Nat
        /\ 2 * (Nearest(c, e) * e) <= 2 * c + e
        /\ 2 * c <= 2 * (Nearest(c, e) * e) + e
    BY <1>2, <1>8, NearestIs
  <2>2. Nearest(c, e) * e \in Nat
    BY <1>8, <2>1
  <2> QED
    BY <2>1, <2>2
<1> HIDE DEF b
<1>10. 4 * e <= 3 * p \/ e = 1
  <2> SUFFICES ASSUME e # 1, 4 * e >= 3 * p + 1 PROVE FALSE
    BY <1>1, <1>8
  <2>1. Far * (3 * p + 1) <= Far * (4 * e)
    BY <1>1, <1>8, Monotone
  <2>2. Far * (3 * p + 1) = 3 * (Far * p) + Far /\ Far * (4 * e) = 2 * (2 * Far * e)
    BY <1>1, <1>8
  <2>3. 2 * Far * e <= c /\ 2 * Far * e \in Nat
    BY <1>1, <1>7, <1>8
  <2> QED
    BY <1>1, <1>2, <1>3, <1>4, <2>1, <2>2, <2>3
<1>11. e + m < 2 * p
  BY <1>1, <1>3, <1>8, <1>10
<1>12. y - p < b /\ b < y + p
  BY <1>1, <1>2, <1>8, <1>9, <1>11
<1> QED
  BY <1>5, <1>9, <1>12 DEF b, e, c

\* A position within reach that is stored as a ratio is read as the same position or as
\* the pixel before it.
LEMMA RoundTrip ==
  ASSUME NEW x \in -Far .. Far, NEW m \in 1 .. Far, \E q \in Powers : q >= 2 * Far * m
  PROVE  Product(m, Quotient(x, m)) \in ReadBack(x)
<1>1. CASE x = 0
  <2>1. Quotient(x, m) = [part |-> 0, of |-> 1]
    BY <1>1 DEF Quotient
  <2>2. Divisor(0) \in Nat \ {0}
    <3>1. 1 \in Powers /\ 0 < 4 * Far * 1
      BY Format, FormatAssumption
    <3> QED
      BY <3>1, DivisorIs, Format
  <2>3. Nearest(0, Divisor(0)) * Divisor(0) = 0
    BY <2>2 DEF Nearest
  <2>4. m * Magnitude(0) = 0 /\ m \in Nat
    BY Format DEF Magnitude
  <2>5. Product(m, [part |-> 0, of |-> 1]) = Truncated(0, 1)
    BY <2>3, <2>4 DEF Product, WithSign
  <2> QED
    BY <1>1, <2>1, <2>5 DEF Truncated, ReadBack
<1>2. CASE x # 0
  <2> DEFINE n == IF x < 0 THEN -x ELSE x
  <2>1. n \in 1 .. Far /\ (x = n \/ x = -n) /\ n \in Nat \ {0} /\ n <= 4 * Far
        /\ m \in Nat \ {0}
    BY <1>2, Format
  <2> HIDE DEF n
  <2>2. PICK p \in Powers, a \in Nat :
          /\ Quotient(n, m) = [part |-> a, of |-> p]
          /\ Quotient(-n, m) = [part |-> -a, of |-> p]
          /\ n * p >= 2 * Far * m
          /\ 2 * (a * m) <= 2 * (n * p) + m /\ 2 * (n * p) <= 2 * (a * m) + m
    BY <2>1, QuotientIs
  <2> DEFINE b == Nearest(m * a, Divisor(m * a)) * Divisor(m * a)
             k == b \div p
  <2>3. b \in Nat /\ (n - 1) * p < b /\ b < (n + 1) * p
    BY <2>1, <2>2, Roundings
  <2>4. Magnitude(a) = a /\ Magnitude(-a) = a
    BY DEF Magnitude
  <2>5. /\ Product(m, [part |-> a, of |-> p]) = Truncated(WithSign(a, b), p)
        /\ Product(m, [part |-> -a, of |-> p]) = Truncated(WithSign(-a, b), p)
    BY <2>4 DEF Product
  <2> HIDE DEF b
  <2>6. p \in Nat \ {0}
    BY Format
  <2>7. k \in Nat /\ p * k <= b /\ b < p * k + p
    BY <2>3, <2>6
  <2> HIDE DEF k
  <2>8. k \in {n - 1, n}
    <3>1. ASSUME k >= n + 1 PROVE FALSE
      <4>1. (n + 1) * p <= k * p
        BY <2>1, <2>6, <2>7, <3>1, Monotone
      <4> QED
        BY <2>1, <2>3, <2>6, <2>7, <4>1
    <3>2. ASSUME k + 1 <= n - 1 PROVE FALSE
      <4>1. (k + 1) * p <= (n - 1) * p
        BY <2>1, <2>6, <2>7, <3>2, Monotone
      <4>2. (k + 1) * p = p * k + p
        BY <2>6, <2>7
      <4> QED
        BY <2>1, <2>3, <2>6, <2>7, <4>1, <4>2
    <3> QED
      BY <2>1, <2>7, <3>1, <3>2
  <2>9. a # 0
    <3>1. n * p \in Nat /\ 2 * Far * m \in Nat /\ m <= 2 * Far * m
      BY <2>1, <2>6, Monotone, Format, 1 * m = m
    <3>2. a = 0 => a * m = 0
      BY <2>1
    <3> QED
      BY <2>1, <2>2, <3>1, <3>2
  <2>10. Truncated(WithSign(a, b), p) = k
    BY <2>3 DEF Truncated, WithSign, k
  <2>11. Truncated(WithSign(-a, b), p) = -k
    <3>1. WithSign(-a, b) = -b
      BY <2>9 DEF WithSign
    <3>2. CASE b = 0
      <4>1. 0 \div p = 0
        BY <2>6
      <4> QED
        BY <3>1, <3>2, <4>1 DEF Truncated, k
    <3>3. CASE b # 0
      <4>1. -b < 0 /\ -(-b) = b
        BY <2>3, <3>3
      <4> QED
        BY <2>3, <2>6, <3>1, <4>1 DEF Truncated, k
    <3> QED
      BY <3>2, <3>3
  <2>12. CASE x = n
    BY <2>1, <2>2, <2>5, <2>8, <2>10, <2>12 DEF TowardsZero, ReadBack
  <2>13. CASE x = -n
    BY <2>1, <2>2, <2>5, <2>7, <2>8, <2>11, <2>13 DEF TowardsZero, ReadBack
  <2> QED
    BY <2>1, <2>12, <2>13
<1> QED
  BY <1>1, <1>2

\* Truncating gives an integer.
LEMMA TruncatedType ==
  ASSUME NEW n \in Int, NEW d \in Nat \ {0}
  PROVE  Truncated(n, d) \in Int
  BY DEF Truncated

-----------------------------------------------------------------------------
(* Screens.                                                                *)

\* What is chosen from a set that is not empty is in the set.
LEMMA ChosenIsMember ==
  ASSUME NEW S, S # {}
  PROVE  (CHOOSE s \in S : TRUE) \in S
  OBVIOUS

\* What a sane state says of its screens.
LEMMA SaneScreens ==
  ASSUME NEW u, NEW C, NEW D, Sane(u, C, D)
  PROVE  /\ u.connected = C /\ C \subseteq D /\ C # {}
         /\ u.geometry \in [D -> Geometries]
         /\ u.marked \subseteq D /\ u.primary \in C
         /\ D \subseteq Screens
  BY DEF Sane, UIs

\* A position is on at most one screen.
LEMMA AtMostOneScreen ==
  ASSUME NEW u, NEW C, NEW D, Sane(u, C, D), NEW x \in Int
  PROVE  /\ ScreenAt(u, x) \subseteq C
         /\ \A s, t \in ScreenAt(u, x) : s = t
<1>1. ScreenAt(u, x) \subseteq C
  BY DEF ScreenAt, Sane
<1>2. ASSUME NEW s \in ScreenAt(u, x), NEW t \in ScreenAt(u, x), s # t
      PROVE  FALSE
  <2>1. s \in D /\ t \in D
    BY <1>1, SaneScreens
  <2>2. u.geometry[s] \in Geometries /\ u.geometry[t] \in Geometries
    BY <2>1, SaneScreens
  <2>3. Disjoint(u.geometry[s], u.geometry[t])
    BY <1>2, <2>1 DEF Sane, Apart
  <2> QED
    BY <1>2, <2>2, <2>3, GeometriesAssumption DEF ScreenAt, Spans, Disjoint, Right
<1> QED
  BY <1>1, <1>2

\* The screen a position is taken to be on is one the watcher knows.
LEMMA OptimalIsKnown ==
  ASSUME NEW u, NEW C, NEW D, Sane(u, C, D), NEW x \in Int
  PROVE  /\ OptimalScreen(u, x) \in D
         /\ Area(u, x) \in Geometries
         /\ ScreenAt(u, x) # {} => ScreenAt(u, x) = {OptimalScreen(u, x)}
<1> DEFINE candidates == IF ScreenAt(u, x) # {} THEN ScreenAt(u, x)
                         ELSE IF u.marked # {} THEN u.marked ELSE {u.primary}
<1>1. candidates # {} /\ candidates \subseteq D
  BY SaneScreens, AtMostOneScreen
<1>2. OptimalScreen(u, x) \in candidates
  <2> HIDE DEF candidates
  <2>1. (CHOOSE s \in candidates : TRUE) \in candidates
    BY <1>1, ChosenIsMember
  <2> QED
    BY <2>1 DEF candidates, OptimalScreen
<1>3. OptimalScreen(u, x) \in D
  BY <1>1, <1>2
<1>4. Area(u, x) \in Geometries
  BY <1>3, SaneScreens DEF Area
<1>5. ScreenAt(u, x) # {} => ScreenAt(u, x) = {OptimalScreen(u, x)}
  BY <1>2, AtMostOneScreen
<1> QED
  BY <1>3, <1>4, <1>5

-----------------------------------------------------------------------------
(* Sizes and positions.                                                    *)

\* The edges of a screen are natural numbers, and it has a width.
LEMMA AreaType ==
  ASSUME NEW area \in Geometries
  PROVE  area.left \in Nat /\ area.width \in Nat \ {0} /\ Right(area) \in Nat
  BY GeometriesAssumption DEF Right

\* No screen ends beyond Far, and there are powers for what is divided by its width.
LEMMA Room ==
  ASSUME NEW area \in Geometries, NEW m \in 1 .. area.left + area.width
  PROVE  /\ m <= Far /\ Right(area) < Far
         /\ \E q \in Powers : q >= 2 * Far * m /\ m < q
<1>1. area.left \in Nat /\ area.width \in Nat \ {0} /\ area.left + area.width <= Far
  BY AreaType, DesktopAssumption
<1>2. PICK q \in Powers : q >= (2 * Far) * (area.left + area.width)
  BY DesktopAssumption, Format
<1>3. (2 * Far) * m <= (2 * Far) * (area.left + area.width) /\ (2 * Far) * m \in Nat
  BY <1>1, Monotone, Format
<1>4. 2 * m <= (2 * Far) * m
  BY <1>1, Monotone, Format
<1>5. m <= Far /\ Right(area) < Far
  BY <1>1, Format DEF Right
<1>6. q >= 2 * Far * m /\ m < q
  <2> DEFINE a == (2 * Far) * (area.left + area.width)
             b == (2 * Far) * m
  <2>1. a \in Nat /\ b \in Nat /\ q \in Nat /\ m \in Nat \ {0}
    BY <1>1, <1>3, Format
  <2>2. q >= a /\ b <= a /\ 2 * m <= b
    BY <1>2, <1>3, <1>4
  <2> HIDE DEF a, b
  <2>3. q >= b /\ m < q
    BY <2>1, <2>2
  <2> QED
    BY <2>3 DEF b
<1> QED
  BY <1>5, <1>6

\* A window has a width and is narrower than its screen; its default margin fits too.
LEMMA WidthFits ==
  ASSUME NEW u, u.scale \in Scales, NEW w \in Windows, NEW area \in Geometries
  PROVE  /\ WidthOn[w, area, u.scale] \in 1 .. area.width - 1
         /\ DefaultRightMargin(w, area) \in 0 .. area.width
  BY WidthsAssumption

\* Sizes, margins and positions are numbers, and there is a margin.
LEMMA Numbers ==
  ASSUME NEW u, NEW C, NEW D, Sane(u, C, D), NEW w \in Windows
  PROVE  /\ ViewWidth(u, w) \in Nat \ {0} /\ ViewWidth(u, w) <= Far
         /\ Margin(u, w) \in Nat \ {0} /\ Margin(u, w) <= Far
         /\ \E q \in Powers : q >= 2 * Far * Margin(u, w)
         /\ RatioPosition(u, w) \in Int
<1> DEFINE area == Area(u, u.at)
           W == WidthOn[w, area, u.scale]
<1>1. u.at \in Int /\ u.scale \in Scales /\ u.ratio[w] \in Floats
  BY DEF Sane, UIs
<1>2. area \in Geometries
  BY <1>1, OptimalIsKnown
<1>3. W \in 1 .. area.width - 1
  BY <1>1, <1>2, WidthFits
<1>4. area.left \in Nat /\ area.width \in Nat \ {0}
  BY <1>2, AreaType
<1>5. ViewWidth(u, w) = W /\ Margin(u, w) = area.left + area.width - W
  BY DEF ViewWidth, Margin
<1> HIDE DEF W, area
<1>6. W \in 1 .. area.left + area.width
      /\ Margin(u, w) \in 1 .. area.left + area.width
  BY <1>3, <1>4, <1>5
<1>7. W <= Far /\ Margin(u, w) <= Far
  BY <1>2, <1>6, Room
<1>8. PICK q \in Powers : q >= 2 * Far * Margin(u, w) /\ Margin(u, w) < q
  BY <1>2, <1>6, Room
<1>9. RatioPosition(u, w) \in Int
  BY <1>1, <1>4, <1>6, <1>8, ProductType DEF RatioPosition
<1> QED
  BY <1>4, <1>5, <1>6, <1>7, <1>8, <1>9

\* A window that fits is put inside.
LEMMA MoveInsideFits ==
  ASSUME NEW x \in Int, NEW width \in Nat, NEW area \in Geometries
  PROVE  /\ MoveInside(x, width, area) \in Int
         /\ width <= area.width =>
              /\ area.left <= MoveInside(x, width, area)
              /\ MoveInside(x, width, area) + width - 1 <= Right(area)
  BY AreaType DEF MoveInside, Right

\* And none is put beyond Far.
LEMMA MoveInsideNear ==
  ASSUME NEW x \in Int, NEW width \in 0 .. Far, NEW area \in Geometries
  PROVE  MoveInside(x, width, area) \in -Far .. Far
<1>1. area.left \in Nat /\ area.width \in Nat \ {0} /\ Far \in Nat
      /\ area.left + area.width <= Far
  BY AreaType, DesktopAssumption, Format
<1> HIDE DEF Far
<1> QED
  BY <1>1 DEF MoveInside, Right

\* Every place the geometry managers compute for a window is an integer, and those they
\* store are not beyond Far.
LEMMA Positions ==
  ASSUME NEW u, NEW C, NEW D, Sane(u, C, D), NEW w \in Windows
  PROVE  /\ \A x \in Int : Normalized(u, w, x) \in -Far .. Far
         /\ CurrentPosition(u, w) \in Int
         /\ ViewPosition(u, w) \in Int
         /\ DefaultPosition(u, w) \in -Far .. Far
<1>1. \A x \in Int : Normalized(u, w, x) \in -Far .. Far
  <2>1. ViewWidth(u, w) \in 0 .. Far
    BY Numbers
  <2> QED
    BY <2>1, OptimalIsKnown, MoveInsideNear DEF Normalized
<1>2. CurrentPosition(u, w) \in Int
  BY <1>1, Numbers DEF CurrentPosition
<1>3. ViewPosition(u, w) \in Int
  BY <1>1, <1>2 DEF ViewPosition
<1>4. DefaultPosition(u, w) \in -Far .. Far
  <2> DEFINE area == Area(u, Nowhere)
             R == DefaultRightMargin(w, area)
  <2>1. area \in Geometries /\ u.scale \in Scales
    BY OptimalIsKnown DEF Nowhere, Sane, UIs
  <2>2. DefaultPosition(u, w) = area.left + area.width - (ViewWidth(u, w) + R)
    BY DEF DefaultPosition
  <2>3. R \in 0 .. area.width
    BY <2>1, WidthFits
  <2> HIDE DEF area, R
  <2>4. area.left \in Nat /\ area.width \in Nat /\ area.left + area.width <= Far
    BY <2>1, AreaType, DesktopAssumption
  <2>5. ViewWidth(u, w) \in Nat /\ ViewWidth(u, w) <= Far /\ Far \in Nat
    BY Numbers, Format
  <2> HIDE DEF Far
  <2> QED
    BY <2>2, <2>3, <2>4, <2>5
<1> QED
  BY <1>1, <1>2, <1>3, <1>4

-----------------------------------------------------------------------------
(* What the handlers do to a sane state.                                   *)

\* Nothing of the following fields is about the screens or the ratios.
LEMMA SaneFields ==
  ASSUME NEW u, NEW C, NEW D, Sane(u, C, D)
  PROVE  /\ \A x \in Int : Sane([u EXCEPT !.at = x], C, D)
         /\ \A b \in BOOLEAN : Sane([u EXCEPT !.changed = b], C, D)
         /\ \A b \in BOOLEAN : Sane([u EXCEPT !.visible = b], C, D)
         /\ \A b \in BOOLEAN : Sane([u EXCEPT !.float = b], C, D)
         /\ \A b \in BOOLEAN, f \in Frames : (b => f.width > 0)
              => Sane([u EXCEPT !.window = b, !.frame = f], C, D)
         /\ \A b \in BOOLEAN : Sane([u EXCEPT !.timer = b], C, D)
         /\ \A f \in Frames : f.width > 0 => Sane([u EXCEPT !.frame = f], C, D)
         /\ \A f \in Frames : Sane([u EXCEPT !.buttonFrame = f], C, D)
         /\ \A b \in {"none", "hidden", "shown"} : Sane([u EXCEPT !.button = b], C, D)
         /\ \A scale \in Scales : Sane([u EXCEPT !.scale = scale], C, D)
         /\ \A w \in Windows \cup {"none"}, n \in 0 .. Far :
              Sane([u EXCEPT !.dragged = [window |-> w, width |-> n]], C, D)
<1> USE DEF Sane, UIs
<1>1. \A x \in Int : Sane([u EXCEPT !.at = x], C, D)
  OBVIOUS
<1>2. \A b \in BOOLEAN : Sane([u EXCEPT !.changed = b], C, D)
  OBVIOUS
<1>3. \A b \in BOOLEAN : Sane([u EXCEPT !.visible = b], C, D)
  OBVIOUS
<1>4. \A b \in BOOLEAN : Sane([u EXCEPT !.float = b], C, D)
  OBVIOUS
<1>5. \A b \in BOOLEAN, f \in Frames : (b => f.width > 0)
        => Sane([u EXCEPT !.window = b, !.frame = f], C, D)
  OBVIOUS
<1>6. \A b \in BOOLEAN : Sane([u EXCEPT !.timer = b], C, D)
  OBVIOUS
<1>7. \A f \in Frames : f.width > 0 => Sane([u EXCEPT !.frame = f], C, D)
  OBVIOUS
<1>8. \A f \in Frames : Sane([u EXCEPT !.buttonFrame = f], C, D)
  OBVIOUS
<1>9. \A b \in {"none", "hidden", "shown"} : Sane([u EXCEPT !.button = b], C, D)
  OBVIOUS
<1>10. \A scale \in Scales : Sane([u EXCEPT !.scale = scale], C, D)
  OBVIOUS
<1>11. \A w \in Windows \cup {"none"}, n \in 0 .. Far :
         Sane([u EXCEPT !.dragged = [window |-> w, width |-> n]], C, D)
  OBVIOUS
<1> QED
  BY <1>1, <1>2, <1>3, <1>4, <1>5, <1>6, <1>7, <1>8, <1>9, <1>10, <1>11

\* A ratio is set to a position within reach, divided by a margin that is there.
LEMMA SetRatioSane ==
  ASSUME NEW u, NEW C, NEW D, Sane(u, C, D), NEW w \in Windows, NEW x \in -Far .. Far
  PROVE  Sane(SetRatio(u, w, x), C, D)
<1> DEFINE r == Quotient(x, Margin(u, w))
           ratio == [u.ratio EXCEPT ![w] = r]
<1>1. r \in Floats
  <2>1. x \in -4 * Far .. 4 * Far
    BY Format
  <2> QED
    BY <2>1, Numbers, QuotientType
<1>2. SetRatio(u, w, x) = [u EXCEPT !.ratio[w] = r]
  BY DEF SetRatio
<1> HIDE DEF r
<1>3. ratio \in [Windows -> Floats]
  BY <1>1 DEF Sane, UIs
<1>4. SetRatio(u, w, x) = [u EXCEPT !.ratio = ratio]
  BY <1>2 DEF Sane, UIs
<1> HIDE DEF ratio
<1>5. Sane([u EXCEPT !.ratio = ratio], C, D)
  BY <1>3 DEF Sane, UIs
<1> QED
  BY <1>4, <1>5

\* The mark goes to the screen of a position, or stays.
LEMMA MarkScreenSane ==
  ASSUME NEW u, NEW C, NEW D, Sane(u, C, D), NEW x \in Int
  PROVE  Sane(MarkScreen(u, x), C, D)
<1>1. ScreenAt(u, x) \subseteq Screens
  BY AtMostOneScreen, SaneScreens
<1>2. ScreenAt(u, x) \subseteq D /\ \A s, t \in ScreenAt(u, x) : s = t
  BY AtMostOneScreen, SaneScreens
<1>3. Sane([u EXCEPT !.marked = ScreenAt(u, x), !.changed = TRUE], C, D)
  BY <1>1, <1>2 DEF Sane, UIs
<1> QED
  BY <1>3 DEF MarkScreen

\* The default place is a ratio like any other.
LEMMA UpdateRatioSane ==
  ASSUME NEW u, NEW C, NEW D, Sane(u, C, D), NEW w \in Windows
  PROVE  Sane(UpdateViewMarginRatio(u, w), C, D)
  BY Positions, SetRatioSane DEF UpdateViewMarginRatio

\* Telling the managers of the windows of a new mark keeps a sane state sane.
LEMMA NotifySane ==
  ASSUME NEW u, NEW C, NEW D, Sane(u, C, D)
  PROVE  Sane(NotifyScreenMarkChanged(u), C, D)
<1>1. Sane([u EXCEPT !.changed = FALSE], C, D)
  BY SaneFields
<1>2. \A v : Sane(v, C, D) => Sane(KeyboardMarkedScreenChanged(v), C, D)
  BY UpdateRatioSane DEF KeyboardMarkedScreenChanged, Windows
<1>3. \A v : Sane(v, C, D) => Sane(ButtonMarkedScreenChanged(v), C, D)
  BY UpdateRatioSane DEF ButtonMarkedScreenChanged, Windows
<1> QED
  BY <1>1, <1>2, <1>3 DEF NotifyScreenMarkChanged

\* The geometry the view gives its window is a frame with a width.
LEMMA KeyboardGeometryType ==
  ASSUME NEW u, NEW C, NEW D, Sane(u, C, D)
  PROVE  KeyboardGeometry(u) \in Frames /\ KeyboardGeometry(u).width > 0
<1>1. u.at \in Int
  BY DEF Sane, UIs
<1>2. Area(u, u.at).left \in Nat /\ Area(u, u.at).width \in Nat \ {0}
  BY <1>1, OptimalIsKnown, AreaType
<1>3. ViewPosition(u, "keyboard") \in Int /\ ViewWidth(u, "keyboard") \in Nat \ {0}
  BY Positions, Numbers DEF Windows
<1> QED
  BY <1>2, <1>3 DEF KeyboardGeometry, Frames

\* Placing the keyboard again keeps a sane state sane.
LEMMA UpdateKeyboardSane ==
  ASSUME NEW u, NEW C, NEW D, Sane(u, C, D)
  PROVE  Sane(UpdateKeyboard(u), C, D)
<1> DEFINE frame == KeyboardGeometry(u)
<1>1. frame \in Frames /\ frame.width > 0
  BY KeyboardGeometryType
<1>2. frame.left \in Int
  BY <1>1 DEF Frames
<1> HIDE DEF frame
<1>3. Sane([u EXCEPT !.frame = frame], C, D)
  BY <1>1, SaneFields
<1>4. Sane(MarkScreen([u EXCEPT !.frame = frame], frame.left), C, D)
  BY <1>2, <1>3, MarkScreenSane
<1>5. Sane(NotifyScreenMarkChanged(MarkScreen([u EXCEPT !.frame = frame], frame.left)),
           C, D)
  BY <1>4, NotifySane
<1> QED
  BY <1>5 DEF UpdateKeyboard, frame

\* Moving a window puts its frame somewhere and the mark with it.
LEMMA ViewMovedSane ==
  ASSUME NEW u, NEW C, NEW D, Sane(u, C, D), NEW w \in Windows, NEW x \in Int
  PROVE  Sane(ViewMoved(u, w, x), C, D)
<1>1. u.frame \in Frames /\ u.buttonFrame \in Frames
  BY DEF Sane, UIs
<1>2. /\ [u.frame EXCEPT !.left = x] \in Frames
      /\ [u.buttonFrame EXCEPT !.left = x] \in Frames
  BY <1>1 DEF Frames
<1>3. /\ u.window => Sane([u EXCEPT !.frame = [u.frame EXCEPT !.left = x]], C, D)
      /\ Sane([u EXCEPT !.buttonFrame = [u.buttonFrame EXCEPT !.left = x]], C, D)
  <2>1. u.window => [u.frame EXCEPT !.left = x].width > 0
    BY <1>1 DEF Sane, Frames
  <2> QED
    BY <1>2, <2>1, SaneFields
<1>4. /\ [u EXCEPT !.frame.left = x] = [u EXCEPT !.frame = [u.frame EXCEPT !.left = x]]
      /\ [u EXCEPT !.buttonFrame.left = x]
           = [u EXCEPT !.buttonFrame = [u.buttonFrame EXCEPT !.left = x]]
  BY DEF Sane, UIs
<1>5. /\ u.window => Sane([u EXCEPT !.frame.left = x], C, D)
      /\ Sane([u EXCEPT !.buttonFrame.left = x], C, D)
  BY <1>3, <1>4
<1> QED
  BY <1>5, MarkScreenSane DEF ViewMoved

\* Resizing a window keeps a sane state sane.
LEMMA ViewResizedSane ==
  ASSUME NEW u, NEW C, NEW D, Sane(u, C, D), NEW w \in Windows
  PROVE  Sane(ViewResized(u, w), C, D)
<1> DEFINE n == ViewWidth(u, w)
<1>1. u.frame \in Frames /\ u.buttonFrame \in Frames /\ n \in Nat \ {0}
  BY Numbers DEF Sane, UIs
<1> HIDE DEF n
<1>2. /\ [u.frame EXCEPT !.width = n] \in Frames
      /\ [u.frame EXCEPT !.width = n].width > 0
      /\ [u.buttonFrame EXCEPT !.width = n] \in Frames
  BY <1>1 DEF Frames
<1>3. /\ Sane([u EXCEPT !.frame = [u.frame EXCEPT !.width = n]], C, D)
      /\ Sane([u EXCEPT !.buttonFrame = [u.buttonFrame EXCEPT !.width = n]], C, D)
  BY <1>2, SaneFields
<1>4. /\ [u EXCEPT !.frame.width = n] = [u EXCEPT !.frame = [u.frame EXCEPT !.width = n]]
      /\ [u EXCEPT !.buttonFrame.width = n]
           = [u EXCEPT !.buttonFrame = [u.buttonFrame EXCEPT !.width = n]]
  BY DEF Sane, UIs
<1>5. /\ Sane([u EXCEPT !.frame.width = n], C, D)
      /\ Sane([u EXCEPT !.buttonFrame.width = n], C, D)
  BY <1>3, <1>4
<1> QED
  BY <1>5, NotifySane DEF ViewResized, n

\* updateGeometry of either manager keeps a sane state sane.
LEMMA UpdateGeometrySane ==
  ASSUME NEW u, NEW C, NEW D, Sane(u, C, D), NEW w \in Windows
  PROVE  Sane(UpdateGeometry(u, w), C, D)
  BY Positions, ViewMovedSane, ViewResizedSane DEF UpdateGeometry

\* moveView keeps a sane state sane, wherever within reach the window is moved to.
LEMMA MoveViewSane ==
  ASSUME NEW u, NEW C, NEW D, Sane(u, C, D), NEW w \in Windows, NEW x \in -Far .. Far
  PROVE  Sane(MoveView(u, w, x), C, D)
  BY SetRatioSane, ViewMovedSane DEF MoveView

\* What follows a signal of the screens keeps a sane state sane.
LEMMA ScreensChangedSane ==
  ASSUME NEW u, NEW C, NEW D, Sane(u, C, D)
  PROVE  Sane(ScreensChanged(u), C, D)
<1> DEFINE v == UpdateKeyboard(u)
<1>1. Sane(v, C, D)
  BY UpdateKeyboardSane
<1> HIDE DEF v
<1>2. (v.timer \/ v.button # "none") \in BOOLEAN
  BY <1>1 DEF Sane, UIs
<1>3. Sane([v EXCEPT !.timer = v.timer \/ v.button # "none"], C, D)
  BY <1>1, <1>2, SaneFields
<1> QED
  BY <1>3 DEF ScreensChanged, v

-----------------------------------------------------------------------------
(* What the handlers leave alone.                                          *)

Kept(u, v) ==
  /\ v.connected = u.connected /\ v.geometry = u.geometry /\ v.primary = u.primary
  /\ v.at = u.at /\ v.scale = u.scale
  /\ v.visible = u.visible /\ v.float = u.float /\ v.window = u.window
  /\ v.button = u.button /\ v.dragged = u.dragged

\* A step that keeps the windows and the drag keeps what is true of a drag.
LEMMA KeptDrag ==
  ASSUME NEW u, NEW v, Kept(u, v), DragInv(u)
  PROVE  DragInv(v)
  BY DEF Kept, DragInv

\* Storing a ratio changes neither the windows, nor the drag, nor the mark.
LEMMA SetRatioKeeps ==
  ASSUME NEW u, u \in UIs, NEW w, NEW x
  PROVE  Kept(u, SetRatio(u, w, x)) /\ SetRatio(u, w, x).marked = u.marked
  BY DEF SetRatio, Kept, UIs

\* Marking a screen changes no window, no place and no ratio.
LEMMA MarkScreenKeeps ==
  ASSUME NEW u, u \in UIs, NEW x
  PROVE  /\ Kept(u, MarkScreen(u, x))
         /\ MarkScreen(u, x).frame = u.frame
         /\ MarkScreen(u, x).buttonFrame = u.buttonFrame
         /\ MarkScreen(u, x).ratio = u.ratio
         /\ MarkScreen(u, x).marked
              = IF ScreenAt(u, x) \subseteq u.marked THEN u.marked ELSE ScreenAt(u, x)
  BY DEF MarkScreen, Kept, UIs

\* Telling the managers of a new mark moves no window and leaves the mark.
LEMMA NotifyKeeps ==
  ASSUME NEW u, u \in UIs
  PROVE  /\ Kept(u, NotifyScreenMarkChanged(u))
         /\ NotifyScreenMarkChanged(u).frame = u.frame
         /\ NotifyScreenMarkChanged(u).buttonFrame = u.buttonFrame
         /\ NotifyScreenMarkChanged(u).marked = u.marked
  BY DEF NotifyScreenMarkChanged, KeyboardMarkedScreenChanged, ButtonMarkedScreenChanged,
         UpdateViewMarginRatio, SetRatio, Kept, UIs

\* Placing the keyboard again shows, hides and drags nothing.
LEMMA UpdateKeyboardKeeps ==
  ASSUME NEW u, NEW C, NEW D, Sane(u, C, D)
  PROVE  Kept(u, UpdateKeyboard(u))
<1> DEFINE f == KeyboardGeometry(u)
           v == [u EXCEPT !.frame = f]
<1>1. f \in Frames /\ f.width > 0 /\ u \in UIs
  BY KeyboardGeometryType DEF Sane
<1>2. f.left \in Int
  BY <1>1 DEF Frames
<1> HIDE DEF f
<1>3. Kept(u, v)
  BY <1>1 DEF Kept, UIs
<1>4. Sane(v, C, D)
  BY <1>1, SaneFields
<1> HIDE DEF v
<1>5. Kept(v, MarkScreen(v, f.left)) /\ MarkScreen(v, f.left) \in UIs
  BY <1>2, <1>4, MarkScreenKeeps, MarkScreenSane DEF Sane
<1>6. Kept(MarkScreen(v, f.left), NotifyScreenMarkChanged(MarkScreen(v, f.left)))
  BY <1>5, NotifyKeeps
<1>7. Kept(u, NotifyScreenMarkChanged(MarkScreen(v, f.left)))
  BY <1>3, <1>5, <1>6 DEF Kept
<1> QED
  BY <1>7 DEF UpdateKeyboard, Kept, f, v

\* Moving a window shows, hides and drags nothing.
LEMMA ViewMovedKeeps ==
  ASSUME NEW u, u \in UIs, NEW w, NEW x
  PROVE  Kept(u, ViewMoved(u, w, x))
<1> DEFINE k == [u EXCEPT !.frame.left = x]
           b == [u EXCEPT !.buttonFrame.left = x]
<1>1. Kept(u, k) /\ Kept(u, b)
  BY DEF Kept, UIs
<1>2. Kept(k, MarkScreen(k, x)) /\ Kept(b, MarkScreen(b, x))
  BY DEF MarkScreen, Kept, UIs
<1>3. Kept(u, MarkScreen(k, x)) /\ Kept(u, MarkScreen(b, x)) /\ Kept(u, u)
  BY <1>1, <1>2 DEF Kept
<1> QED
  BY <1>3 DEF ViewMoved

\* Resizing a window shows, hides and drags nothing.
LEMMA ViewResizedKeeps ==
  ASSUME NEW u, NEW C, NEW D, Sane(u, C, D), NEW w \in Windows
  PROVE  Kept(u, ViewResized(u, w))
<1> DEFINE n == ViewWidth(u, w)
           k == [u EXCEPT !.frame.width = n]
           b == [u EXCEPT !.buttonFrame.width = n]
<1>1. n \in Nat /\ u \in UIs
  BY Numbers DEF Sane
<1> HIDE DEF n
<1>2. Kept(u, k) /\ Kept(u, b) /\ k \in UIs /\ b \in UIs
  BY <1>1 DEF Kept, UIs, Frames
<1> HIDE DEF k, b
<1>3. Kept(k, NotifyScreenMarkChanged(k)) /\ Kept(b, NotifyScreenMarkChanged(b))
  BY <1>2, NotifyKeeps
<1>4. /\ Kept(u, NotifyScreenMarkChanged(k)) /\ Kept(u, NotifyScreenMarkChanged(b))
      /\ Kept(u, u)
  BY <1>2, <1>3 DEF Kept
<1> QED
  BY <1>4 DEF ViewResized, k, b, n

\* updateGeometry of either manager shows, hides and drags nothing.
LEMMA UpdateGeometryKeeps ==
  ASSUME NEW u, NEW C, NEW D, Sane(u, C, D), NEW w \in Windows
  PROVE  Kept(u, UpdateGeometry(u, w))
<1> DEFINE v == ViewMoved(u, w, ViewPosition(u, w))
<1>1. Kept(u, v)
  BY ViewMovedKeeps DEF Sane
<1>2. Sane(v, C, D)
  BY Positions, ViewMovedSane
<1> HIDE DEF v
<1>3. Kept(v, ViewResized(v, w))
  BY <1>2, ViewResizedKeeps
<1>4. Kept(u, ViewResized(v, w))
  BY <1>1, <1>3 DEF Kept
<1> QED
  BY <1>4 DEF UpdateGeometry, v

\* moveView itself shows and hides nothing, and leaves the drag as it is.
LEMMA MoveViewKeeps ==
  ASSUME NEW u, NEW C, NEW D, Sane(u, C, D), NEW w \in Windows, NEW x \in -Far .. Far
  PROVE  Kept(u, MoveView(u, w, x))
<1> DEFINE v == SetRatio(u, w, x)
<1>1. Kept(u, v) /\ v \in UIs
  BY SetRatioKeeps, SetRatioSane DEF Sane
<1> HIDE DEF v
<1>2. Kept(v, ViewMoved(v, w, x))
  BY <1>1, ViewMovedKeeps
<1>3. Kept(u, ViewMoved(v, w, x))
  BY <1>1, <1>2 DEF Kept
<1> QED
  BY <1>3 DEF MoveView, v

\* What follows a signal of the screens shows, hides and drags nothing.
LEMMA ScreensChangedKeeps ==
  ASSUME NEW u, NEW C, NEW D, Sane(u, C, D)
  PROVE  Kept(u, ScreensChanged(u))
<1> DEFINE v == UpdateKeyboard(u)
<1>1. Kept(u, v) /\ v \in UIs
  BY UpdateKeyboardKeeps, UpdateKeyboardSane DEF Sane
<1> HIDE DEF v
<1>2. Kept(u, [v EXCEPT !.timer = v.timer \/ v.button # "none"])
  BY <1>1 DEF Kept, UIs
<1> QED
  BY <1>2 DEF ScreensChanged, v

-----------------------------------------------------------------------------
(* The steps.                                                              *)

\* A start: no screen is marked, and the ratios are those saved, or the default.
LEMMA InitScreensInv ==
  ASSUME Init
  PROVE  ScreensInv
<1>1. PICK connected \in SUBSET Screens \ {{}}, at \in Saved \cup {DefaultCoordinate},
           scale \in Scales, float \in BOOLEAN :
        \E geometry \in [connected -> Geometries], primary \in connected :
          /\ Apart(geometry, connected)
          /\ \E u \in Loaded(Started(connected, geometry, primary, at, scale, float),
                            "keyboard") :
               \E v \in Loaded(u, "button") :
                 ui = [v EXCEPT !.window = Preload,
                                !.frame = IF Preload THEN KeyboardGeometry(v) ELSE NoFrame]
  BY DEF Init, Apart
<1>2. PICK geometry \in [connected -> Geometries], primary \in connected :
        /\ Apart(geometry, connected)
        /\ \E u \in Loaded(Started(connected, geometry, primary, at, scale, float),
                          "keyboard") :
             \E v \in Loaded(u, "button") :
               ui = [v EXCEPT !.window = Preload,
                              !.frame = IF Preload THEN KeyboardGeometry(v) ELSE NoFrame]
  BY <1>1
<1> DEFINE start == Started(connected, geometry, primary, at, scale, float)
<1>3. PICK u \in Loaded(start, "keyboard") : \E v \in Loaded(u, "button") :
        ui = [v EXCEPT !.window = Preload,
                       !.frame = IF Preload THEN KeyboardGeometry(v) ELSE NoFrame]
  BY <1>2
<1>4. PICK v \in Loaded(u, "button") :
        ui = [v EXCEPT !.window = Preload,
                       !.frame = IF Preload THEN KeyboardGeometry(v) ELSE NoFrame]
  BY <1>3
<1> DEFINE Idle(z) == ~z.visible /\ z.dragged = NoDrag
<1>5. Sane(start, connected, connected) /\ Idle(start)
  <2>1. at \in Int
    BY PositionsAssumption DEF DefaultCoordinate
  <2>2. [part |-> 0, of |-> 1] \in Floats /\ 0 \in 0 .. Far
    BY FormatAssumption, Format DEF Floats
  <2>3. start \in UIs
    BY <2>1, <2>2, FlagsAssumption DEF Started, UIs, NoFrame, NoDrag, Frames
  <2> QED
    BY <1>2, <2>3 DEF Sane, Started
<1>6. ASSUME NEW w \in Windows, NEW old, Sane(old, connected, connected), Idle(old),
             NEW new \in Loaded(old, w)
      PROVE  Sane(new, connected, connected) /\ Idle(new)
  <2>1. PICK x \in Saved \cup {RatioPosition(UpdateViewMarginRatio(old, w), w)} :
          new = SetRatio(old, w, Normalized(old, w, x))
    BY <1>6 DEF Loaded
  <2>2. x \in Int
    BY <1>6, UpdateRatioSane, Numbers, PositionsAssumption
  <2>3. Normalized(old, w, x) \in -Far .. Far
    BY <1>6, <2>2, Positions
  <2> QED
    BY <1>6, <2>1, <2>3, SetRatioSane, SetRatioKeeps DEF Sane, Kept
<1> HIDE DEF start
<1>7. Sane(u, connected, connected) /\ Idle(u)
  BY <1>3, <1>5, <1>6 DEF Windows
<1>8. Sane(v, connected, connected) /\ Idle(v)
  BY <1>4, <1>6, <1>7 DEF Windows
<1> DEFINE frame == IF Preload THEN KeyboardGeometry(v) ELSE NoFrame
<1>9. frame \in Frames /\ Preload \in BOOLEAN /\ (Preload => frame.width > 0)
  BY <1>8, KeyboardGeometryType, FlagsAssumption DEF NoFrame, Frames
<1> HIDE DEF frame
<1>10. ui = [v EXCEPT !.window = Preload, !.frame = frame]
  BY <1>4 DEF frame
<1>11. Sane(ui, connected, connected)
  BY <1>8, <1>9, <1>10, SaneFields
<1>12. ui.connected = connected
  BY <1>11 DEF Sane
<1>13. DragInv(ui)
  BY <1>8, <1>10 DEF DragInv, NoDrag, Sane, UIs
<1> QED
  BY <1>11, <1>12, <1>13 DEF ScreensInv

\* What a handler leaves that keeps the screens and the drag.
LEMMA HandlerScreensInv ==
  ASSUME NEW u, NEW C, Sane(u, C, C), DragInv(u), NEW v, Sane(v, C, C), Kept(u, v),
         ui' = v
  PROVE  ScreensInv'
<1>1. DragInv(v) /\ v.connected = C
  BY KeptDrag DEF Sane
<1> QED
  BY <1>1 DEF ScreensInv

\* A change of the screens ends with a signal that has the keyboard follow ...
Told ==
  \E u, C : /\ Sane(u, C, C) /\ DragInv(u) /\ u.visible = ui.visible
            /\ ui' = ScreensChanged(u)

\* ... or it leaves the keyboard alone, the mark, and of the screens C that there are now
\* those of S.
Untold(u, C, S) ==
  /\ Sane(ui', C, C) /\ DragInv(ui')
  /\ ui'.frame = u.frame /\ ui'.marked = u.marked
  /\ \A t \in S : ui'.geometry[t] = u.geometry[t]

\* A step after which the managers are told of the screens keeps the invariant.
LEMMA ToldInv ==
  ASSUME Told
  PROVE  ScreensInv'
  BY ScreensChangedSane, ScreensChangedKeeps, HandlerScreensInv DEF Told

\* So does one after which they are not, where it leaves a sane state.
LEMMA UntoldInv ==
  ASSUME NEW u, NEW C, NEW S, Untold(u, C, S)
  PROVE  ScreensInv'
  BY DEF Untold, ScreensInv, Sane

\* A screen that is plugged does not overlap the others.
LEMMA ScreenAddedTells ==
  ASSUME ScreensInv, NEW s \in Screens, NEW g \in Geometries, ScreenAdded(s, g)
  PROVE  Told
<1> DEFINE C == ui.connected \cup {s}
           geometry == [t \in C |-> IF t = s THEN g ELSE ui.geometry[t]]
           u == [ui EXCEPT !.connected = C, !.geometry = geometry]
<1>1. /\ ui \in UIs /\ ui.connected \subseteq Screens
      /\ ui.geometry \in [ui.connected -> Geometries]
      /\ s \notin ui.connected
      /\ \A t \in ui.connected : Disjoint(g, ui.geometry[t])
  BY SaneScreens DEF ScreensInv, Sane, ScreenAdded
<1>2. C \subseteq Screens /\ geometry \in [C -> Geometries]
  BY <1>1
<1>3. Apart(geometry, C)
  BY <1>1 DEF ScreensInv, Sane, Apart, Disjoint
<1>4. ui' = ScreensChanged(u)
  BY <1>1 DEF ScreenAdded, UIs
<1> HIDE DEF geometry, C
<1>5. u \in UIs /\ u.connected = C /\ u.geometry = geometry /\ u.marked = ui.marked
      /\ u.primary = ui.primary /\ u.ratio = ui.ratio
  BY <1>1, <1>2 DEF UIs
<1>6. ui.connected \subseteq C
  BY DEF C
<1>7. Sane(u, C, C)
  BY <1>2, <1>3, <1>5, <1>6 DEF ScreensInv, Sane
<1>8. DragInv(u) /\ u.visible = ui.visible
  BY <1>1 DEF ScreensInv, DragInv, UIs
<1> HIDE DEF u
<1> QED
  BY <1>4, <1>7, <1>8 DEF Told

\* The managers are told of a new primary screen.
LEMMA PrimaryScreenChangedTells ==
  ASSUME ScreensInv, NEW s \in Screens, PrimaryScreenChanged(s)
  PROVE  Told
<1> DEFINE u == [ui EXCEPT !.primary = s]
<1>1. Sane(u, ui.connected, ui.connected) /\ DragInv(u) /\ u.visible = ui.visible
  BY DEF PrimaryScreenChanged, ScreensInv, Sane, DragInv, UIs
<1>2. ui' = ScreensChanged(u)
  BY DEF PrimaryScreenChanged
<1> HIDE DEF u
<1> QED
  BY <1>1, <1>2 DEF Told

\* A screen that goes takes its mark with it, and what remains is sane again.
LEMMA ScreenRemovalTells ==
  ASSUME NEW u, NEW C, NEW s, Sane(u, C, C \cup {s}), s \notin C, DragInv(u),
         u.visible = ui.visible, ui' = ScreenRemoval(u, s)
  PROVE  Told \/ (u.marked \subseteq C /\ Untold(u, C, C))
<1> DEFINE geometry == [t \in C |-> u.geometry[t]]
           v == [u EXCEPT !.marked = u.marked \ {s}, !.geometry = geometry]
<1>1. u \in UIs /\ u.connected = C /\ C \subseteq Screens
      /\ u.geometry \in [C \cup {s} -> Geometries]
  BY SaneScreens DEF Sane
<1>2. geometry \in [C -> Geometries] /\ Apart(geometry, C)
  BY <1>1 DEF Sane, Apart
<1>3. u.marked \ {s} \subseteq C /\ u.marked \ {s} \in SUBSET Screens
  BY <1>1 DEF Sane
<1>4. ui' = IF v.marked = {} THEN ScreensChanged(v) ELSE v
  BY <1>1 DEF ScreenRemoval
<1> HIDE DEF geometry
<1>5. /\ v \in UIs /\ v.connected = C /\ v.geometry = geometry
      /\ v.marked = u.marked \ {s} /\ v.primary = u.primary /\ v.ratio = u.ratio
  BY <1>1, <1>2, <1>3 DEF UIs
<1>6. Sane(v, C, C)
  BY <1>1, <1>2, <1>3, <1>5 DEF Sane
<1>7. DragInv(v) /\ v.visible = u.visible /\ v.frame = u.frame
  BY <1>1 DEF DragInv, UIs
<1>8. CASE v.marked = {}
  <2> HIDE DEF v
  <2> QED
    BY <1>4, <1>6, <1>7, <1>8 DEF Told
<1>9. CASE v.marked # {}
  <2> HIDE DEF v
  <2>1. u.marked = v.marked /\ u.marked \subseteq C
    BY <1>5, <1>9 DEF Sane
  <2>2. \A t \in C : v.geometry[t] = u.geometry[t]
    BY <1>5 DEF geometry
  <2> QED
    BY <1>4, <1>6, <1>7, <1>9, <2>1, <2>2 DEF Untold
<1> QED
  BY <1>8, <1>9

\* Of a screen that was the primary one the signal comes before it is gone.
LEMMA ScreenRemovedTells ==
  ASSUME ScreensInv, NEW s \in Screens, NEW t \in Screens, ScreenRemoved(s, t)
  PROVE  \/ Told
         \/ LET C == ui.connected \ {s} IN ui.marked \subseteq C /\ Untold(ui, C, C)
         \/ \E v, C : /\ Sane(v, C, C \cup {s}) /\ v.visible = ui.visible
                      /\ ScreensChanged(v).marked \subseteq C
                      /\ Untold(ScreensChanged(v), C, C)
<1> DEFINE D == ui.connected
           C == D \ {s}
           u == [ui EXCEPT !.connected = C]
           v == [u EXCEPT !.primary = t]
<1>1. s \in D /\ t \in C /\ ui \in UIs /\ D = C \cup {s} /\ s \notin C
      /\ ui.primary \in D
  BY DEF ScreenRemoved, ScreensInv, Sane
<1>2. /\ DragInv(u) /\ u.visible = ui.visible
      /\ u.frame = ui.frame /\ u.marked = ui.marked /\ u.geometry = ui.geometry
      /\ DragInv(v) /\ v.visible = ui.visible
  BY <1>1 DEF ScreensInv, DragInv, UIs
<1>3. CASE s # ui.primary /\ ui' = ScreenRemoval(u, s)
  <2>1. Sane(u, C, D)
    BY <1>1, <1>3 DEF ScreensInv, Sane, UIs
  <2> HIDE DEF u, C, D
  <2>2. Told \/ (u.marked \subseteq C /\ Untold(u, C, C))
    BY <1>1, <1>2, <1>3, <2>1, ScreenRemovalTells
  <2> QED
    BY <1>2, <2>2 DEF Untold, C, D
<1>4. CASE ui' = ScreenRemoval(ScreensChanged(v), s)
  <2>1. Sane(v, C, D)
    BY <1>1 DEF ScreensInv, Sane, UIs
  <2> HIDE DEF v, C, D
  <2> DEFINE x == ScreensChanged(v)
  <2>2. Sane(x, C, D) /\ DragInv(x) /\ x.visible = v.visible
    BY <1>2, <2>1, ScreensChangedSane, ScreensChangedKeeps, KeptDrag DEF Kept
  <2> HIDE DEF x
  <2>3. Told \/ (x.marked \subseteq C /\ Untold(x, C, C))
    BY <1>1, <1>2, <1>4, <2>2, ScreenRemovalTells DEF x
  <2> QED
    BY <1>1, <1>2, <2>1, <2>3 DEF x
<1> QED
  BY <1>3, <1>4 DEF ScreenRemoved

\* A screen that is unplugged keeps the invariant, told or not.
LEMMA ScreenRemovedInv ==
  ASSUME ScreensInv, NEW s \in Screens, NEW t \in Screens, ScreenRemoved(s, t)
  PROVE  ScreensInv'
  BY ScreenRemovedTells, ToldInv, UntoldInv

\* The managers are told of a new geometry of a screen they follow, and one of
\* another screen leaves a sane state.
LEMMA ScreenGeometryChangedTells ==
  ASSUME ScreensInv, NEW s \in Screens, NEW g \in Geometries, ScreenGeometryChanged(s, g)
  PROVE  Told \/ Untold(ui, ui.connected, ui.marked)
<1> DEFINE C == ui.connected
           geometry == [ui.geometry EXCEPT ![s] = g]
           u == [ui EXCEPT !.geometry = geometry]
<1>1. /\ ui \in UIs /\ ui.geometry \in [C -> Geometries] /\ s \in C /\ C \subseteq Screens
      /\ \A t \in C \ {s} : Disjoint(g, ui.geometry[t])
  BY SaneScreens DEF ScreensInv, ScreenGeometryChanged, Sane
<1>2. geometry \in [C -> Geometries] /\ Apart(geometry, C)
  BY <1>1 DEF ScreensInv, Sane, Apart, Disjoint
<1>3. ui' = IF s \in u.marked THEN ScreensChanged(u) ELSE u
  BY <1>1 DEF ScreenGeometryChanged, UIs
<1> HIDE DEF geometry
<1>4. /\ u \in UIs /\ u.connected = C /\ u.geometry = geometry
      /\ u.marked = ui.marked /\ u.primary = ui.primary /\ u.ratio = ui.ratio
  BY <1>1, <1>2 DEF UIs
<1>5. Sane(u, C, C)
  BY <1>2, <1>4 DEF ScreensInv, Sane
<1>6. DragInv(u) /\ u.visible = ui.visible /\ u.frame = ui.frame
  BY <1>1 DEF ScreensInv, DragInv, UIs
<1>7. CASE s \in u.marked
  <2> HIDE DEF u, C
  <2> QED
    BY <1>3, <1>5, <1>6, <1>7 DEF Told
<1>8. CASE s \notin u.marked
  <2>1. \A t \in ui.marked : geometry[t] = ui.geometry[t]
    BY <1>1, <1>4, <1>8 DEF geometry
  <2> HIDE DEF u
  <2> QED
    BY <1>3, <1>4, <1>5, <1>6, <1>8, <2>1 DEF Untold
<1> QED
  BY <1>7, <1>8

\* The timer of the float button keeps the invariant.
LEMMA UpdateGeometryTimeoutInv ==
  ASSUME ScreensInv, UpdateGeometryTimeout
  PROVE  ScreensInv'
<1> DEFINE u == [ui EXCEPT !.timer = FALSE]
<1>1. Sane(u, ui.connected, ui.connected)
  BY SaneFields DEF ScreensInv
<1>2. DragInv(u)
  BY DEF ScreensInv, DragInv, Sane, UIs
<1>3. ui' = UpdateGeometry(u, "button") /\ "button" \in Windows
  BY DEF UpdateGeometryTimeout, Windows
<1> HIDE DEF u
<1> QED
  BY <1>1, <1>2, <1>3, UpdateGeometrySane, UpdateGeometryKeeps, HandlerScreensInv

\* A new scale factor keeps the invariant.
LEMMA ScaleFactorChangedInv ==
  ASSUME ScreensInv, NEW scale \in Scales, ScaleFactorChanged(scale)
  PROVE  ScreensInv'
<1> DEFINE u == [ui EXCEPT !.scale = scale]
<1>1. Sane(u, ui.connected, ui.connected)
  BY SaneFields DEF ScreensInv
<1>2. DragInv(u)
  BY DEF ScreensInv, DragInv, Sane, UIs
<1>3. ui' = UpdateKeyboard(u)
  BY DEF ScaleFactorChanged
<1> HIDE DEF u
<1> QED
  BY <1>1, <1>2, <1>3, UpdateKeyboardSane, UpdateKeyboardKeeps, HandlerScreensInv

\* A button that is hidden drops what was dragged.
LEMMA HideButtonSane ==
  ASSUME NEW u, NEW C, Sane(u, C, C),
         u.dragged.window = "keyboard" => u.visible /\ u.float,
         u.dragged.window = "button" => u.button = "shown",
         u.visible => u.window
  PROVE  Sane(HideButton(u), C, C) /\ DragInv(HideButton(u))
<1> DEFINE d == IF u.dragged.window = "button" THEN NoDrag ELSE u.dragged
           v == [u EXCEPT !.button = "hidden"]
<1>1. u \in UIs
  BY DEF Sane
<1>2. d = [window |-> d.window, width |-> d.width]
      /\ d.window \in Windows \cup {"none"} /\ d.width \in 0 .. Far
  BY <1>1, Format DEF UIs, NoDrag
<1>3. Sane(v, C, C)
  BY SaneFields
<1>4. Sane([v EXCEPT !.dragged = [window |-> d.window, width |-> d.width]], C, C)
  <2> HIDE DEF v, d
  <2> QED
    BY <1>2, <1>3, SaneFields
<1>5. Sane([v EXCEPT !.dragged = d], C, C)
  <2> HIDE DEF v, d
  <2> QED
    BY <1>2, <1>4
<1>6. HideButton(u) = IF u.button = "none" THEN u ELSE [v EXCEPT !.dragged = d]
  BY <1>1 DEF HideButton, UIs
<1>7. DragInv([v EXCEPT !.dragged = d])
  BY <1>1 DEF DragInv, UIs, NoDrag
<1>8. u.button = "none" => DragInv(u)
  BY DEF DragInv
<1> QED
  BY <1>5, <1>6, <1>7, <1>8

\* A button is shown where its geometry manager has it.
LEMMA ShowButtonSane ==
  ASSUME NEW u, NEW C, Sane(u, C, C), DragInv(u), ~u.visible
  PROVE  Sane(ShowButton(u), C, C) /\ DragInv(ShowButton(u))
<1> DEFINE v == UpdateGeometry(u, "button")
<1>1. Sane(v, C, C) /\ Kept(u, v)
  BY UpdateGeometrySane, UpdateGeometryKeeps DEF Windows
<1>2. DragInv(v) /\ v \in UIs /\ ~v.visible
  BY <1>1, KeptDrag DEF Sane, Kept
<1> HIDE DEF v
<1>3. Sane([v EXCEPT !.button = "shown"], C, C)
  BY <1>1, SaneFields
<1>4. DragInv([v EXCEPT !.button = "shown"])
  BY <1>2 DEF DragInv, UIs
<1> QED
  BY <1>3, <1>4 DEF ShowButton, v

\* initView leaves a sane state with a window.
LEMMA InitViewSane ==
  ASSUME NEW u, NEW C, Sane(u, C, C), DragInv(u)
  PROVE  Sane(InitView(u), C, C) /\ DragInv(InitView(u)) /\ InitView(u).window
<1> DEFINE f == KeyboardGeometry(u)
           v == [u EXCEPT !.window = TRUE, !.frame = f]
<1>1. f \in Frames /\ f.width > 0 /\ u \in UIs
  BY KeyboardGeometryType DEF Sane
<1>2. f.left \in Int
  BY <1>1 DEF Frames
<1> HIDE DEF f
<1>4. Sane(v, C, C)
  BY <1>1, SaneFields
<1>5. DragInv(v) /\ v.window
  BY <1>1 DEF DragInv, UIs
<1>6. InitView(u) = IF u.window THEN u ELSE MarkScreen(v, f.left)
  BY DEF InitView, f
<1> HIDE DEF v
<1>7. Sane(MarkScreen(v, f.left), C, C) /\ Kept(v, MarkScreen(v, f.left))
  BY <1>2, <1>4, MarkScreenSane, MarkScreenKeeps DEF Sane
<1>8. DragInv(MarkScreen(v, f.left)) /\ MarkScreen(v, f.left).window
  BY <1>5, <1>7, KeptDrag DEF Kept
<1> QED
  BY <1>6, <1>7, <1>8

\* Showing the keyboard keeps the invariant.
LEMMA ShowVirtualKeyboardInv ==
  ASSUME ScreensInv, ShowVirtualKeyboard
  PROVE  ScreensInv'
<1> DEFINE C == ui.connected
           u == InitView(ui)
           f == KeyboardGeometry(u)
           v == Placed(u)
           x == [v EXCEPT !.visible = TRUE]
<1>1. Sane(u, C, C) /\ DragInv(u) /\ u.window
  BY InitViewSane DEF ScreensInv
<1> HIDE DEF u
<1>2. f \in Frames /\ f.width > 0
  BY <1>1, KeyboardGeometryType
<1>3. Sane(v, C, C)
  BY <1>1, <1>2, SaneFields DEF Placed
<1>4. DragInv(v) /\ v.window /\ v \in UIs
  BY <1>1, <1>3 DEF Placed, DragInv, Sane, UIs
<1> HIDE DEF v
<1>5. Sane(x, C, C)
  BY <1>3, SaneFields
<1>6. /\ x.dragged.window = "keyboard" => x.visible /\ x.float
      /\ x.dragged.window = "button" => x.button = "shown"
      /\ x.visible => x.window
  BY <1>4 DEF DragInv, UIs
<1>7. ui' = HideButton(x)
  BY DEF ShowVirtualKeyboard, v, u
<1> HIDE DEF x, C
<1>8. Sane(ui', C, C) /\ DragInv(ui')
  BY <1>5, <1>6, <1>7, HideButtonSane
<1> QED
  BY <1>8 DEF ScreensInv, Sane

\* Hiding it does, and ends a drag of it.
LEMMA HideVirtualKeyboardInv ==
  ASSUME ScreensInv, HideVirtualKeyboard
  PROVE  ScreensInv'
<1> DEFINE C == ui.connected
           d == IF ui.dragged.window = "keyboard" THEN NoDrag ELSE ui.dragged
           f == IF Preload THEN ui.frame ELSE NoFrame
           u == [ui EXCEPT !.visible = FALSE, !.window = Preload, !.frame = f, !.dragged = d]
<1>1. ui \in UIs /\ Sane(ui, C, C) /\ DragInv(ui)
  BY DEF ScreensInv, Sane
<1>2. /\ d \in [window : Windows \cup {"none"}, width : 0 .. Far]
      /\ f \in Frames /\ Preload \in BOOLEAN /\ (Preload => f.width > 0)
  BY <1>1, FlagsAssumption, Format DEF HideVirtualKeyboard, Sane, DragInv, UIs, NoDrag,
                                       NoFrame, Frames
<1>3. DragInv(u) /\ ~u.visible
  BY <1>1 DEF DragInv, UIs, NoDrag
<1>4. ui' = ShowButton(u)
  BY <1>1 DEF HideVirtualKeyboard, UIs
<1> HIDE DEF d, f, C
<1>5. Sane(u, C, C)
  BY <1>1, <1>2 DEF Sane, UIs
<1> HIDE DEF u
<1>6. Sane(ui', C, C) /\ DragInv(ui')
  BY <1>3, <1>4, <1>5, ShowButtonSane
<1> QED
  BY <1>6 DEF ScreensInv, Sane

\* No drag survives the change of the mode.
LEMMA FlipPlacementModeInv ==
  ASSUME ScreensInv, FlipPlacementMode
  PROVE  ScreensInv'
<1> DEFINE C == ui.connected
           t == [ui EXCEPT !.float = ~ui.float]
           u == [ui EXCEPT !.float = ~ui.float, !.dragged = NoDrag]
           f == KeyboardGeometry(u)
<1>1. ui \in UIs
  BY DEF ScreensInv, Sane
<1>2. Sane(u, C, C)
  <2>1. Sane(t, C, C)
    BY <1>1, SaneFields DEF ScreensInv, UIs
  <2>2. u = [t EXCEPT !.dragged = [window |-> "none", width |-> 0]]
    BY DEF NoDrag
  <2> HIDE DEF t, u
  <2>3. "none" \in Windows \cup {"none"} /\ 0 \in 0 .. Far
    BY Format
  <2> QED
    BY <2>1, <2>2, <2>3, SaneFields
<1>3. DragInv(u)
  BY <1>1 DEF ScreensInv, DragInv, NoDrag, UIs
<1>4. ui' = IF u.float THEN [u EXCEPT !.frame = f] ELSE UpdateKeyboard(u)
  BY DEF FlipPlacementMode
<1> HIDE DEF u
<1>5. f \in Frames /\ f.width > 0
  BY <1>2, KeyboardGeometryType
<1> HIDE DEF f, C
<1>6. Sane([u EXCEPT !.frame = f], C, C)
  BY <1>2, <1>5, SaneFields
<1>7. Kept(u, [u EXCEPT !.frame = f])
  BY <1>2 DEF Kept, Sane, UIs
<1> QED
  BY <1>2, <1>3, <1>4, <1>6, <1>7, UpdateKeyboardSane, UpdateKeyboardKeeps, HandlerScreensInv

\* Creating the float button keeps the invariant.
LEMMA EnableFloatButtonInv ==
  ASSUME ScreensInv, EnableFloatButton
  PROVE  ScreensInv'
<1> DEFINE C == ui.connected
           u == [ui EXCEPT !.button = "hidden"]
<1>1. Sane(u, C, C) /\ "button" \in Windows
  BY SaneFields DEF ScreensInv, Windows
<1>2. DragInv(u) /\ ~u.visible
  BY DEF ScreensInv, DragInv, Sane, UIs, EnableFloatButton
<1>3. ui' = ShowButton(UpdateGeometry(u, "button"))
  BY DEF EnableFloatButton
<1> HIDE DEF u, C
<1>4. /\ Sane(UpdateGeometry(u, "button"), C, C) /\ DragInv(UpdateGeometry(u, "button"))
      /\ ~UpdateGeometry(u, "button").visible
  BY <1>1, <1>2, UpdateGeometrySane, UpdateGeometryKeeps, KeptDrag DEF Kept
<1>5. Sane(ui', C, C) /\ DragInv(ui')
  BY <1>3, <1>4, ShowButtonSane
<1> QED
  BY <1>5 DEF ScreensInv, Sane

\* Destroying it does, and ends a drag of it.
LEMMA DestroyFloatButtonInv ==
  ASSUME ScreensInv, DestroyFloatButton
  PROVE  ScreensInv'
<1> DEFINE C == ui.connected
           u == HideButton(ui)
           v == [u EXCEPT !.button = "none"]
<1>1. Sane(u, C, C) /\ DragInv(u) /\ u.dragged.window # "button"
  <2>1. Sane(u, C, C) /\ DragInv(u)
    BY HideButtonSane DEF ScreensInv, DragInv
  <2>2. u.dragged.window # "button"
    BY DEF HideButton, DestroyFloatButton, ScreensInv, Sane, UIs, NoDrag
  <2> QED
    BY <2>1, <2>2
<1>2. ui' = [v EXCEPT !.buttonFrame = NoFrame]
  BY DEF DestroyFloatButton
<1> HIDE DEF u
<1>3. Sane(v, C, C)
  BY <1>1, SaneFields
<1>4. NoFrame \in Frames
  BY DEF NoFrame, Frames
<1>5. DragInv([v EXCEPT !.buttonFrame = NoFrame])
  BY <1>1 DEF DragInv, Sane, UIs
<1> HIDE DEF v, C
<1>6. Sane(ui', C, C) /\ DragInv(ui')
  BY <1>2, <1>3, <1>4, <1>5, SaneFields
<1> QED
  BY <1>6 DEF ScreensInv, Sane

\* The press that begins a drag keeps the invariant.
LEMMA PressedInv ==
  ASSUME ScreensInv, NEW w \in Windows, Pressed(w)
  PROVE  ScreensInv'
<1> DEFINE n == ViewWidth(ui, w)
           v == [ui EXCEPT !.dragged = [window |-> w, width |-> n]]
<1>1. n \in 0 .. Far
  BY Numbers DEF ScreensInv
<1>2. ui' = v
  BY DEF Pressed
<1>3. ui \in UIs /\ (\/ w = "keyboard" /\ ui.visible /\ ui.float
                     \/ w = "button" /\ ui.button = "shown")
  BY DEF Pressed, ScreensInv, Sane
<1> HIDE DEF n
<1>4. Sane(v, ui.connected, ui.connected)
  BY <1>1, SaneFields DEF ScreensInv
<1>5. DragInv(v)
  BY <1>3 DEF ScreensInv, DragInv, UIs
<1>6. v.connected = ui.connected
  BY <1>3 DEF UIs
<1> QED
  BY <1>2, <1>4, <1>5, <1>6 DEF ScreensInv

\* A drag moves its window, wherever the pointer goes, and keeps the invariant.
LEMMA MoveByInv ==
  ASSUME ScreensInv, NEW w \in Windows, NEW x \in Reach, MoveBy(w, x)
  PROVE  ScreensInv'
<1> DEFINE u == [ui EXCEPT !.at = CurrentPosition(ui, w)]
<1>1. CurrentPosition(ui, w) \in Int /\ x \in -Far .. Far
  BY Positions, PositionsAssumption DEF ScreensInv
<1>2. ui' = MoveView(u, w, x)
  BY DEF MoveBy
<1>3. Sane(u, ui.connected, ui.connected)
  BY <1>1, SaneFields DEF ScreensInv
<1>4. DragInv(u)
  BY DEF ScreensInv, DragInv, Sane, UIs
<1> HIDE DEF u
<1> QED
  BY <1>1, <1>2, <1>3, <1>4, MoveViewSane, MoveViewKeeps, HandlerScreensInv

-----------------------------------------------------------------------------
(* The end of a drag.                                                      *)

FrameOf(u, w) == IF w = "keyboard" THEN u.frame ELSE u.buttonFrame
IsThere(u, w) ==
  /\ w = "keyboard" => u.window
  /\ w = "button" => u.button # "none"

\* The place a window is put at is not beyond Far, wherever it is dropped.
LEMMA DragTargetType ==
  ASSUME NEW u, NEW C, NEW D, Sane(u, C, D), NEW x \in Int, NEW width \in 0 .. Far
  PROVE  DragTarget(u, x, width) \in -Far .. Far
<1> DEFINE center == Center(x, width)
           area == Area(u, center)
<1>1. center \in Int
  <2>1. width \in Int
    BY Format
  <2> QED
    BY <2>1, TruncatedType DEF Center
<1>2. /\ DragTarget(u, x, width) \in
           {MoveInside(x, width, area), area.left, Right(area) - width + 1}
  BY DEF DragTarget
<1> HIDE DEF center
<1>3. area \in Geometries
  BY <1>1, OptimalIsKnown
<1> HIDE DEF area
<1>4. MoveInside(x, width, area) \in -Far .. Far
  BY <1>3, MoveInsideNear
<1>5. area.left \in Nat /\ area.width \in Nat \ {0} /\ Far \in Nat
      /\ area.left + area.width <= Far
  BY <1>3, AreaType, DesktopAssumption, Format
<1>6. area.left \in -Far .. Far /\ Right(area) - width + 1 \in -Far .. Far
  <2> HIDE DEF Far
  <2> QED
    BY <1>5 DEF Right
<1> QED
  BY <1>2, <1>4, <1>6

\* What a drag leaves of the state before the window is moved.
LEMMA DropSane ==
  ASSUME ScreensInv, NEW w \in Windows, ui.dragged.window = w
  PROVE  LET u == [ui EXCEPT !.at = Frame(w).left, !.dragged = NoDrag]
             x == DragTarget(u, Frame(w).left, ui.dragged.width)
             v == [u EXCEPT !.at = x]
         IN /\ Sane(u, ui.connected, ui.connected)
            /\ x \in -Far .. Far
            /\ Sane(v, ui.connected, ui.connected)
            /\ DragInv(v) /\ IsThere(v, w) /\ v.at = x
            /\ v.connected = ui.connected /\ v.geometry = ui.geometry
            /\ v.changed = ui.changed /\ v.marked = ui.marked
            /\ v.visible = ui.visible /\ v.button = ui.button
<1> DEFINE C == ui.connected
           t == [ui EXCEPT !.at = Frame(w).left]
           u == [ui EXCEPT !.at = Frame(w).left, !.dragged = NoDrag]
           x == DragTarget(u, Frame(w).left, ui.dragged.width)
           v == [u EXCEPT !.at = x]
<1>1. ui \in UIs /\ Frame(w).left \in Int /\ ui.dragged.width \in 0 .. Far
  BY DEF ScreensInv, Sane, UIs, Frame, Frames
<1>2. Sane(t, C, C)
  BY <1>1, SaneFields DEF ScreensInv
<1>3. u = [t EXCEPT !.dragged = [window |-> "none", width |-> 0]]
  BY <1>1 DEF NoDrag, UIs
<1>4. Sane(u, C, C)
  <2> HIDE DEF t, u, C
  <2>1. "none" \in Windows \cup {"none"} /\ 0 \in 0 .. Far
    BY Format
  <2>2. Sane([t EXCEPT !.dragged = [window |-> "none", width |-> 0]], C, C)
    BY <1>2, <2>1, SaneFields
  <2> QED
    BY <1>3, <2>2
<1> HIDE DEF t
<1>5. /\ u \in UIs /\ u.dragged = NoDrag /\ IsThere(u, w)
      /\ u.visible = ui.visible /\ u.window = ui.window /\ u.button = ui.button
      /\ u.changed = ui.changed /\ u.marked = ui.marked
      /\ u.connected = ui.connected /\ u.geometry = ui.geometry
  BY <1>1, <1>4 DEF Sane, ScreensInv, DragInv, UIs, IsThere
<1> HIDE DEF u
<1>6. x \in -Far .. Far
  BY <1>1, <1>4, DragTargetType
<1> HIDE DEF x, C
<1>7. Sane(v, C, C)
  <2>1. x \in Int
    BY <1>6, Format
  <2> QED
    BY <1>4, <2>1, SaneFields
<1>8. DragInv(v)
  BY <1>5 DEF DragInv, NoDrag, UIs, ScreensInv
<1>9. /\ IsThere(v, w) /\ v.at = x
      /\ v.connected = ui.connected /\ v.geometry = ui.geometry
      /\ v.changed = ui.changed /\ v.marked = ui.marked
      /\ v.visible = ui.visible /\ v.button = ui.button
  BY <1>5 DEF IsThere, UIs
<1> QED
  BY <1>4, <1>6, <1>7, <1>8, <1>9 DEF C, u, x

\* The release, which brings the window back on a screen, keeps the invariant.
LEMMA EndDragInv ==
  ASSUME ScreensInv, NEW w \in Windows, EndDrag(w)
  PROVE  ScreensInv'
<1> DEFINE u == [ui EXCEPT !.at = Frame(w).left, !.dragged = NoDrag]
           x == DragTarget(u, Frame(w).left, ui.dragged.width)
           v == [u EXCEPT !.at = x]
<1>1. ui' = UpdateGeometry(MoveView(v, w, x), w) /\ ui.dragged.window = w
  BY DEF EndDrag
<1>2. x \in -Far .. Far /\ Sane(v, ui.connected, ui.connected) /\ DragInv(v)
  BY <1>1, DropSane
<1> HIDE DEF v, x
<1> DEFINE m == MoveView(v, w, x)
<1>3. Sane(m, ui.connected, ui.connected) /\ DragInv(m)
  BY <1>2, MoveViewSane, MoveViewKeeps, KeptDrag
<1>4. ui' = UpdateGeometry(m, w)
  BY <1>1
<1> HIDE DEF m
<1> QED
  BY <1>3, <1>4, UpdateGeometrySane, UpdateGeometryKeeps, HandlerScreensInv

\* The invariant is inductive: one case for each action.
LEMMA NextScreensInv ==
  ASSUME ScreensInv, [Next]_vars
  PROVE  ScreensInv'
<1>1. CASE ScreenChange
  BY <1>1, ScreenAddedTells, PrimaryScreenChangedTells, ScreenRemovedInv,
     ScreenGeometryChangedTells, ToldInv, UntoldInv DEF ScreenChange
<1>2. CASE \E scale \in Scales : ScaleFactorChanged(scale)
  BY <1>2, ScaleFactorChangedInv
<1>3. CASE \E w \in Windows : Pressed(w)
  BY <1>3, PressedInv
<1>4. CASE \E w \in Windows, x \in Reach : MoveBy(w, x)
  BY <1>4, MoveByInv
<1>5. CASE \E w \in Windows : EndDrag(w)
  BY <1>5, EndDragInv
<1>6. CASE UNCHANGED vars
  BY <1>6 DEF ScreensInv, vars
<1> QED
  BY <1>1, <1>2, <1>3, <1>4, <1>5, <1>6, UpdateGeometryTimeoutInv,
     ShowVirtualKeyboardInv, HideVirtualKeyboardInv, FlipPlacementModeInv,
     EnableFloatButtonInv, DestroyFloatButtonInv DEF Next

-----------------------------------------------------------------------------
(* Theorems.                                                               *)

\* The screens the watcher knows are apart, at most one of them is marked, every ratio
\* is a float, and only what is on the screen is dragged.
THEOREM ScreensInvInvariant == Spec => []ScreensInv
<1>1. Init => ScreensInv
  BY InitScreensInv
<1>2. ScreensInv /\ [Next]_vars => ScreensInv'
  BY NextScreensInv
<1> QED
  BY <1>1, <1>2, PTL DEF Spec

\* Types; no screen that is gone is marked, and never two screens
\* (ScreenWatcher::markScreen and onScreenRemoved).
THEOREM ScreensTypeCorrect == Spec => []TypeOK
<1>1. ScreensInv => TypeOK
  BY DEF ScreensInv, Sane, TypeOK
<1> QED
  BY <1>1, ScreensInvInvariant, PTL

-----------------------------------------------------------------------------
(* Where a drag ends.                                                      *)

\* A handler that keeps the screens, and marks none but the one a position is taken to
\* be on, leaves the position on that screen.
LEMMA SameArea ==
  ASSUME NEW u, NEW C, Sane(u, C, C), NEW v, Sane(v, C, C), NEW x \in Int,
         v.geometry = u.geometry, v.primary = u.primary,
         \/ v.marked = u.marked
         \/ v.marked = {OptimalScreen(u, x)}
  PROVE  /\ ScreenAt(v, x) = ScreenAt(u, x)
         /\ OptimalScreen(v, x) = OptimalScreen(u, x)
         /\ Area(v, x) = Area(u, x)
<1>1. u.connected = C /\ v.connected = C
  BY DEF Sane
<1>2. ScreenAt(v, x) = ScreenAt(u, x)
  BY <1>1 DEF ScreenAt
<1> SUFFICES OptimalScreen(v, x) = OptimalScreen(u, x)
  BY <1>2 DEF Area
<1>3. CASE v.marked = u.marked
  BY <1>2, <1>3 DEF OptimalScreen
<1>4. CASE v.marked = {OptimalScreen(u, x)}
  <2>1. CASE ScreenAt(u, x) # {}
    BY <1>2, <2>1 DEF OptimalScreen
  <2>2. CASE ScreenAt(u, x) = {}
    <3> DEFINE s == OptimalScreen(u, x)
    <3> HIDE DEF s
    <3>1. OptimalScreen(v, x) = CHOOSE t \in {s} : TRUE
      BY <1>2, <1>4, <2>2 DEF OptimalScreen, s
    <3>2. (CHOOSE t \in {s} : TRUE) \in {s}
      BY ChosenIsMember
    <3>3. OptimalScreen(v, x) = s
      BY <3>1, <3>2
    <3> QED
      BY <3>3 DEF s
  <2> QED
    BY <2>1, <2>2
<1> QED
  BY <1>3, <1>4

\* Whether a position is at an edge depends on it and on the screens.
LEMMA KeptEdge ==
  ASSUME NEW u, NEW v, Kept(u, v)
  PROVE  AtEdge(v) <=> AtEdge(u)
  BY DEF Kept, AtEdge, ScreenAt

\* Away from the edge the position that is read is on the screen of the one stored.
LEMMA AwayFromEdge ==
  ASSUME NEW u, u.at \in Int, ~AtEdge(u), NEW q \in ReadBack(u.at)
  PROVE  /\ q \in Int
         /\ OptimalScreen(u, q) = OptimalScreen(u, u.at) /\ Area(u, q) = Area(u, u.at)
<1>1. ScreenAt(u, q) = ScreenAt(u, u.at)
  <2>1. CASE u.at > 0
    <3>1. u.at + (IF u.at > 0 THEN -1 ELSE 1) = TowardsZero(u.at) /\ u.at # 0
      BY <2>1 DEF TowardsZero
    <3> QED
      BY <3>1 DEF AtEdge, ReadBack
  <2>2. CASE u.at < 0
    <3>1. u.at + (IF u.at > 0 THEN -1 ELSE 1) = TowardsZero(u.at) /\ u.at # 0
      BY <2>2 DEF TowardsZero
    <3> QED
      BY <3>1 DEF AtEdge, ReadBack
  <2>3. CASE u.at = 0
    <3>1. q = u.at
      BY <2>3 DEF TowardsZero, ReadBack
    <3> QED
      BY <3>1
  <2> QED
    BY <2>1, <2>2, <2>3
<1>2. OptimalScreen(u, q) = OptimalScreen(u, u.at)
  BY <1>1 DEF OptimalScreen
<1>3. q \in Int
  BY DEF TowardsZero, ReadBack
<1> QED
  BY <1>2, <1>3 DEF Area

\* A window whose ratio was set for the place it was dropped at, away from the edge, is put
\* inside the screen of that place, at it or at the pixel before it.
LEMMA PlaceOfDrop ==
  ASSUME NEW u, NEW C, Sane(u, C, C), NEW w \in Windows, NEW x \in -Far .. Far, u.at = x,
         u.ratio[w] = Quotient(x, Margin(u, w)), ~AtEdge(u)
  PROVE  LET s == OptimalScreen(u, x)
             area == Area(u, x)
             p == ViewPosition(u, w)
         IN /\ s \in C /\ area = u.geometry[s]
            /\ p \in Int
            /\ area.left <= p /\ p + WidthOn[w, area, u.scale] - 1 <= Right(area)
            /\ ScreenAt(u, p) = {s}
            /\ \E q \in ReadBack(x) :
                 p = MoveInside(q, WidthOn[w, area, u.scale], area)
<1> DEFINE s == OptimalScreen(u, x)
           area == Area(u, x)
           W == WidthOn[w, area, u.scale]
           q == RatioPosition(u, w)
           in == MoveInside(q, W, area)
           p == ViewPosition(u, w)
<1>1. s \in C /\ area \in Geometries /\ area = u.geometry[s] /\ C = u.connected
  BY OptimalIsKnown DEF Area, Sane
<1>2. W \in 1 .. area.width - 1
  BY <1>1, WidthFits DEF Sane, UIs
<1>3. ViewWidth(u, w) = W
  BY DEF ViewWidth
<1>4. q \in ReadBack(x)
  <2>1. q = Product(Margin(u, w), Quotient(x, Margin(u, w)))
    BY DEF RatioPosition
  <2>2. Margin(u, w) \in 1 .. Far /\ \E r \in Powers : r >= 2 * Far * Margin(u, w)
    BY Numbers
  <2> QED
    BY <2>1, <2>2, RoundTrip
<1> HIDE DEF q
<1>5. q \in Int /\ Normalized(u, w, q) = in
  <2>1. q \in Int /\ Area(u, q) = area
    BY <1>4, AwayFromEdge
  <2> QED
    BY <1>3, <2>1 DEF Normalized
<1>6. area.left \in Nat /\ area.width \in Nat \ {0}
  BY <1>1, AreaType
<1> HIDE DEF s, area, W
<1>7. /\ in \in Int /\ area.left <= in /\ in + W - 1 <= Right(area)
      /\ Spans(area, in) /\ MoveInside(in, W, area) = in
  BY <1>2, <1>5, <1>6 DEF MoveInside, Right, Spans
<1>8. s \in ScreenAt(u, in)
  BY <1>1, <1>7 DEF ScreenAt
<1> HIDE DEF in
<1>9. ScreenAt(u, in) = {s} /\ OptimalScreen(u, in) = s
  BY <1>7, <1>8, AtMostOneScreen, OptimalIsKnown
<1>10. Normalized(u, w, in) = in
  BY <1>1, <1>3, <1>7, <1>9 DEF Normalized, Area
<1>11. p = in
  BY <1>5, <1>10 DEF ViewPosition, CurrentPosition, q
<1> QED
  BY <1>1, <1>4, <1>7, <1>9, <1>11 DEF s, area, W, in, p

\* A window that is there moves, and the mark with it.
LEMMA ViewMovedFrame ==
  ASSUME NEW u, u \in UIs, NEW w \in Windows, NEW x \in Int, IsThere(u, w)
  PROVE  /\ FrameOf(ViewMoved(u, w, x), w).left = x
         /\ ViewMoved(u, w, x).ratio = u.ratio
         /\ \/ /\ ScreenAt(u, x) \subseteq u.marked
               /\ ViewMoved(u, w, x).marked = u.marked
            \/ ViewMoved(u, w, x).marked = ScreenAt(u, x) /\ ScreenAt(u, x) # {}
<1> DEFINE k == [u EXCEPT !.frame.left = x]
           b == [u EXCEPT !.buttonFrame.left = x]
<1>1. /\ k.frame.left = x /\ k.ratio = u.ratio /\ k.marked = u.marked
      /\ b.buttonFrame.left = x /\ b.ratio = u.ratio /\ b.marked = u.marked
  BY DEF UIs, Frames
<1>2. ScreenAt(k, x) = ScreenAt(u, x) /\ ScreenAt(b, x) = ScreenAt(u, x)
  BY DEF ScreenAt, UIs
<1>3. k \in UIs /\ b \in UIs
  BY DEF UIs, Frames
<1>4. ViewMoved(u, w, x) = IF w = "keyboard" THEN MarkScreen(k, x) ELSE MarkScreen(b, x)
  BY DEF ViewMoved, IsThere, Windows
<1> HIDE DEF k, b
<1> QED
  BY <1>1, <1>2, <1>3, <1>4, MarkScreenKeeps DEF FrameOf, Windows

\* A window that is there takes its size, and the mark stays.
LEMMA ViewResizedFrame ==
  ASSUME NEW u, NEW C, Sane(u, C, C), NEW w \in Windows, IsThere(u, w)
  PROVE  /\ FrameOf(ViewResized(u, w), w)
              = [left |-> FrameOf(u, w).left, width |-> ViewWidth(u, w)]
         /\ ViewResized(u, w).marked = u.marked
<1> DEFINE n == ViewWidth(u, w)
           k == [u EXCEPT !.frame.width = n]
           b == [u EXCEPT !.buttonFrame.width = n]
<1>1. n \in Nat /\ u \in UIs
  BY Numbers DEF Sane
<1>2. ViewResized(u, w) = IF w = "keyboard" THEN NotifyScreenMarkChanged(k)
                          ELSE NotifyScreenMarkChanged(b)
  BY DEF ViewResized, IsThere, Windows
<1> HIDE DEF n
<1>3. /\ k \in UIs /\ k.marked = u.marked
      /\ k.frame = [left |-> u.frame.left, width |-> n]
      /\ b \in UIs /\ b.marked = u.marked
      /\ b.buttonFrame = [left |-> u.buttonFrame.left, width |-> n]
  BY <1>1 DEF UIs, Frames
<1> HIDE DEF k, b
<1> QED
  BY <1>2, <1>3, NotifyKeeps DEF FrameOf, Windows, n

\* The last step of a drag: the window is put on the screen it was dropped on, all of it,
\* takes the size it has there, and marks that screen.
LEMMA UpdateGeometryDrops ==
  ASSUME NEW u, NEW C, Sane(u, C, C), NEW w \in Windows, NEW x \in -Far .. Far, u.at = x,
         u.ratio[w] = Quotient(x, Margin(u, w)), IsThere(u, w), ~AtEdge(u)
  PROVE  LET s == OptimalScreen(u, x)
             area == Area(u, x)
             W == WidthOn[w, area, u.scale]
             v == UpdateGeometry(u, w)
         IN /\ \E q \in ReadBack(x) :
                 FrameOf(v, w) = [left |-> MoveInside(q, W, area), width |-> W]
            /\ v.marked = {s}
<1> DEFINE s == OptimalScreen(u, x)
           area == Area(u, x)
           W == WidthOn[w, area, u.scale]
           p == ViewPosition(u, w)
           m == ViewMoved(u, w, p)
           v == UpdateGeometry(u, w)
<1>1. p \in Int /\ ScreenAt(u, p) = {s} /\ u \in UIs
  <2>1. u \in UIs
    BY DEF Sane
  <2> QED
    BY <2>1, PlaceOfDrop
<1>2. v = ViewResized(m, w)
  BY DEF UpdateGeometry
<1> HIDE DEF s, p
<1>3. Sane(m, C, C) /\ Kept(u, m) /\ FrameOf(m, w).left = p
  BY <1>1, ViewMovedSane, ViewMovedKeeps, ViewMovedFrame
<1>4. m.marked = {s}
  <2> HIDE DEF m
  <2>1. \/ ScreenAt(u, p) \subseteq u.marked /\ m.marked = u.marked
        \/ m.marked = ScreenAt(u, p)
    BY <1>1, ViewMovedFrame DEF m
  <2> QED
    BY <1>1, <2>1 DEF Sane
<1> HIDE DEF m
<1>5. Area(m, x) = area
  BY <1>3, <1>4, SameArea DEF s, Kept
<1>6. m.at = x /\ m.scale = u.scale /\ IsThere(m, w)
  BY <1>3 DEF Kept, IsThere
<1>7. ViewWidth(m, w) = W
  BY <1>5, <1>6 DEF ViewWidth
<1>8. FrameOf(v, w) = [left |-> p, width |-> W] /\ v.marked = {s}
  BY <1>2, <1>3, <1>4, <1>6, <1>7, ViewResizedFrame
<1>9. \E q \in ReadBack(x) : p = MoveInside(q, W, area)
  BY PlaceOfDrop DEF p
<1> QED
  BY <1>8, <1>9 DEF s, v

\* Before it, the ratio is set for the place and the window moved there.
LEMMA MoveViewDrops ==
  ASSUME NEW u, NEW C, Sane(u, C, C), NEW w \in Windows, NEW x \in -Far .. Far, u.at = x,
         IsThere(u, w)
  PROVE  LET v == MoveView(u, w, x)
         IN /\ Sane(v, C, C) /\ v.at = x /\ IsThere(v, w)
            /\ v.ratio[w] = Quotient(x, Margin(v, w))
            /\ v.geometry = u.geometry /\ v.scale = u.scale
            /\ Area(v, x) = Area(u, x) /\ OptimalScreen(v, x) = OptimalScreen(u, x)
<1> DEFINE r == SetRatio(u, w, x)
           v == MoveView(u, w, x)
<1>1. u \in UIs
  BY DEF Sane
<1>2. /\ Sane(r, C, C) /\ Kept(u, r) /\ r.marked = u.marked
      /\ r.ratio[w] = Quotient(x, Margin(u, w))
  <2> DEFINE f == Quotient(x, Margin(u, w))
  <2> HIDE DEF f
  <2>1. r = [u EXCEPT !.ratio[w] = f]
    BY DEF SetRatio, f
  <2>2. r.ratio[w] = f
    BY <1>1, <2>1 DEF UIs
  <2> QED
    BY <1>1, <2>2, SetRatioSane, SetRatioKeeps DEF f
<1>3. v = ViewMoved(r, w, x) /\ r \in UIs /\ IsThere(r, w)
  BY <1>2 DEF MoveView, Sane, Kept, IsThere
<1> HIDE DEF r
<1>4. /\ Sane(v, C, C) /\ Kept(r, v) /\ v.ratio = r.ratio
      /\ \/ v.marked = r.marked
         \/ v.marked = ScreenAt(r, x) /\ ScreenAt(r, x) # {}
  BY <1>2, <1>3, ViewMovedSane, ViewMovedKeeps, ViewMovedFrame
<1> HIDE DEF v
<1>5. Kept(u, v)
  BY <1>2, <1>4 DEF Kept
<1>6. ScreenAt(r, x) = ScreenAt(u, x)
  BY <1>2 DEF ScreenAt, Kept
<1>7. v.marked = u.marked \/ v.marked = {OptimalScreen(u, x)}
  BY <1>2, <1>4, <1>6, OptimalIsKnown
<1>8. Area(v, x) = Area(u, x) /\ OptimalScreen(v, x) = OptimalScreen(u, x)
  BY <1>4, <1>5, <1>7, SameArea DEF Kept
<1>9. v.at = x /\ v.scale = u.scale /\ IsThere(v, w) /\ v.geometry = u.geometry
  BY <1>5 DEF Kept, IsThere
<1>10. Margin(v, w) = Margin(u, w)
  BY <1>8, <1>9 DEF Margin
<1> QED
  BY <1>2, <1>4, <1>8, <1>9, <1>10 DEF v

\* The whole of it, from a reachable state.
LEMMA EndDragDrops ==
  ASSUME ScreensInv, NEW w \in Windows, EndDrag(w), ~AtEdge(ui')
  PROVE  LET u == [ui EXCEPT !.at = Frame(w).left, !.dragged = NoDrag]
             x == DragTarget(u, Frame(w).left, ui.dragged.width)
         IN \E s \in ui.connected, W \in Nat \ {0} :
              /\ ui'.connected = ui.connected /\ ui'.geometry = ui.geometry
              /\ W < ui.geometry[s].width
              /\ x \in Int
              /\ ScreenAt(ui, x) # {} => s \in ScreenAt(ui, x)
              /\ \E q \in ReadBack(x) :
                   Frame(w)' = [left |-> MoveInside(q, W, ui.geometry[s]), width |-> W]
              /\ ui'.marked = {s}
<1> DEFINE C == ui.connected
           u == [ui EXCEPT !.at = Frame(w).left, !.dragged = NoDrag]
           x == DragTarget(u, Frame(w).left, ui.dragged.width)
           v == [u EXCEPT !.at = x]
           m == MoveView(v, w, x)
           s == OptimalScreen(v, x)
           area == Area(v, x)
           W == WidthOn[w, area, v.scale]
<1>1. ui' = UpdateGeometry(m, w) /\ ui.dragged.window = w
  BY DEF EndDrag
<1>2. /\ x \in -Far .. Far /\ Sane(v, C, C) /\ v.at = x /\ IsThere(v, w)
      /\ v.connected = ui.connected /\ v.geometry = ui.geometry
  BY <1>1, DropSane
<1> HIDE DEF v, x
<1>3. /\ Sane(m, C, C) /\ m.at = x /\ IsThere(m, w)
      /\ m.ratio[w] = Quotient(x, Margin(m, w))
      /\ m.geometry = ui.geometry /\ m.scale = v.scale
      /\ Area(m, x) = area /\ OptimalScreen(m, x) = s
  BY <1>2, MoveViewDrops
<1> HIDE DEF m
<1>4. WidthOn[w, area, m.scale] = W /\ ~AtEdge(m)
  <2>1. Kept(m, ui')
    BY <1>1, <1>3, UpdateGeometryKeeps
  <2> QED
    BY <1>3, <2>1, KeptEdge
<1>5. /\ \E q \in ReadBack(x) :
           FrameOf(ui', w) = [left |-> MoveInside(q, W, area), width |-> W]
      /\ ui'.marked = {s}
  <2> HIDE DEF s, area, W
  <2> QED
    BY <1>1, <1>2, <1>3, <1>4, UpdateGeometryDrops
<1>6. s \in C /\ area \in Geometries /\ area = ui.geometry[s]
  BY <1>2, OptimalIsKnown DEF Area
<1>7. W \in Nat \ {0} /\ W < area.width
  <2>1. W \in 1 .. area.width - 1
    BY <1>2, <1>6, WidthFits DEF Sane, UIs
  <2>2. area.width \in Nat
    BY <1>6, AreaType
  <2> HIDE DEF W, area
  <2> QED
    BY <2>1, <2>2
<1>8. ScreenAt(ui, x) # {} => s \in ScreenAt(ui, x)
  <2>1. ScreenAt(v, x) = ScreenAt(ui, x)
    BY <1>2 DEF ScreenAt
  <2> QED
    BY <1>2, <2>1, OptimalIsKnown
<1>9. Frame(w)' = FrameOf(ui', w)
  BY DEF Frame, FrameOf
<1>10. ui'.connected = ui.connected /\ ui'.geometry = ui.geometry
  BY <1>1, <1>3, UpdateGeometryKeeps DEF Kept, Sane
<1> HIDE DEF s, area, W
<1> QED
  BY <1>2, <1>5, <1>6, <1>7, <1>8, <1>9, <1>10 DEF x

\* FloatGeometryManager::endDrag: from any place on any screen to any other, a window
\* that is released ends on one screen, all of it, and that screen is the marked one,
\* unless it is put against the left edge: the rounding of the ratio costs it no more than
\* the pixel before it.
THEOREM EveryDragSettles == Spec => DragSettles
<1>1. ASSUME ScreensInv, NEW w \in Windows, EndDrag(w), ~AtEdge(ui')
      PROVE  Inside(Frame(w))' /\ ui'.marked = On(Frame(w))'
  <2> DEFINE x == DragTarget([ui EXCEPT !.at = Frame(w).left, !.dragged = NoDrag],
                             Frame(w).left, ui.dragged.width)
  <2>1. PICK s \in ui.connected, W \in Nat \ {0} :
          /\ ui'.connected = ui.connected /\ ui'.geometry = ui.geometry
          /\ W < ui.geometry[s].width
          /\ x \in Int
          /\ \E q \in ReadBack(x) :
               Frame(w)' = [left |-> MoveInside(q, W, ui.geometry[s]), width |-> W]
          /\ ui'.marked = {s}
    BY <1>1, EndDragDrops
  <2> DEFINE area == ui.geometry[s]
  <2>2. PICK q \in ReadBack(x) :
          Frame(w)' = [left |-> MoveInside(q, W, area), width |-> W]
    BY <2>1
  <2>3. q \in Int
    BY <2>1, <2>2 DEF TowardsZero, ReadBack
  <2> DEFINE p == MoveInside(q, W, area)
  <2>4. area \in Geometries
    BY <1>1, SaneScreens DEF ScreensInv
  <2>5. area.left \in Nat /\ area.width \in Nat \ {0}
    BY <2>4, AreaType
  <2>6. p \in Int /\ area.left <= p /\ p + W - 1 <= Right(area)
    BY <2>3, <2>1, <2>4, <2>5, MoveInsideFits
  <2> HIDE DEF p, x
  <2>7. Spans(area, p)
    BY <2>1, <2>5, <2>6 DEF Spans, Right
  <2>8. Frame(w)' = [left |-> p, width |-> W]
    BY <2>2 DEF p
  <2>9. Inside(Frame(w))'
    BY <2>1, <2>6, <2>8 DEF Inside, Right
  <2>10. ScreenAt(ui, p) = {s}
    BY <1>1, <2>6, <2>7, AtMostOneScreen DEF ScreenAt, ScreensInv
  <2>11. On(Frame(w))' = ScreenAt(ui, p)
    BY <2>1, <2>8 DEF On, ScreenAt
  <2> QED
    BY <2>1, <2>9, <2>10, <2>11
<1>2. ScreensInv /\ [Next]_vars
        => [\A w \in Windows : EndDrag(w) /\ ~AtEdge(ui') =>
              Inside(Frame(w))' /\ ui'.marked = On(Frame(w))']_vars
  BY <1>1
<1> QED
  BY <1>2, ScreensInvInvariant, PTL DEF Spec, DragSettles

\* The center of a window is on the window.
LEMMA CenterOn ==
  ASSUME NEW x \in Nat, NEW width \in Nat \ {0}
  PROVE  Center(x, width) \in x .. x + width - 1
  BY DEF Center, Truncated

\* A window that is dropped inside a screen, away from the left edge and with the size it
\* keeps, stays there, or a pixel left of it: all that the way through screen, center and
\* margin ratio costs.
THEOREM DropsInsideStay == Spec => DropStays
<1>1. ASSUME ScreensInv, NEW w \in Windows, EndDrag(w), Inside(Frame(w)),
             ui.dragged.width = Frame(w).width, Frame(w).width' = Frame(w).width,
             ~AtEdge(ui')
      PROVE  Frame(w).left' \in {Frame(w).left - 1, Frame(w).left}
  <2> DEFINE l == Frame(w).left
             n == Frame(w).width
             u == [ui EXCEPT !.at = l, !.dragged = NoDrag]
             x == DragTarget(u, l, ui.dragged.width)
  <2>1. PICK s \in ui.connected, W \in Nat \ {0} :
          /\ W < ui.geometry[s].width
          /\ x \in Int
          /\ ScreenAt(ui, x) # {} => s \in ScreenAt(ui, x)
          /\ \E q \in ReadBack(x) :
               Frame(w)' = [left |-> MoveInside(q, W, ui.geometry[s]), width |-> W]
    BY <1>1, EndDragDrops
  <2>2. PICK q \in ReadBack(x) :
          Frame(w)' = [left |-> MoveInside(q, W, ui.geometry[s]), width |-> W]
    BY <2>1
  <2>3. W = n
    BY <1>1, <2>2
  <2>4. PICK t \in ui.connected : /\ ui.geometry[t].left <= l
                                  /\ l + n - 1 <= Right(ui.geometry[t])
    BY <1>1 DEF Inside, Right
  <2>5. ui \in UIs /\ Frame(w) \in Frames
    BY <1>1 DEF ScreensInv, Sane, UIs, Frame
  <2>6. Frame(w) = [left |-> l, width |-> n] /\ l \in Int /\ n \in Nat
    BY <2>5 DEF Frames
  <2>7. ui.dragged.window = w
    BY <1>1 DEF EndDrag
  <2>8. Sane(u, ui.connected, ui.connected) /\ u.geometry = ui.geometry
    BY <1>1, <2>5, <2>7, DropSane DEF UIs
  <2> DEFINE area == ui.geometry[t]
  <2>9. area \in Geometries
    BY <1>1, SaneScreens DEF ScreensInv
  <2>10. area.left \in Nat /\ area.width \in Nat \ {0}
    BY <2>9, AreaType
  <2> DEFINE center == Center(l, n)
  <2>11. x = IF n <= Area(u, center).width THEN MoveInside(l, n, Area(u, center))
             ELSE IF Distance(center, Area(u, center).left)
                       < Distance(center, Right(Area(u, center)))
             THEN Area(u, center).left ELSE Right(Area(u, center)) - n + 1
    BY <1>1 DEF DragTarget
  <2> HIDE DEF l, n, u, x
  <2>12. center \in l .. l + n - 1
    <3>1. l \in Nat /\ n \in Nat \ {0}
      BY <2>1, <2>3, <2>4, <2>6, <2>10
    <3> QED
      BY <3>1, CenterOn
  <2> HIDE DEF center
  <2>13. center \in Int /\ Spans(area, center)
    BY <2>4, <2>6, <2>10, <2>12 DEF Spans, Right
  <2>14. t \in ScreenAt(u, center) /\ u.connected = ui.connected
    BY <2>8, <2>13 DEF ScreenAt, Sane
  <2>15. OptimalScreen(u, center) = t
    BY <2>8, <2>13, <2>14, OptimalIsKnown
  <2>16. Area(u, center) = area
    BY <2>8, <2>15 DEF Area
  <2>17. n <= area.width
    BY <2>4, <2>6, <2>10 DEF Right
  <2>18. x = l
    BY <2>4, <2>6, <2>10, <2>11, <2>16, <2>17 DEF MoveInside, Right
  <2>19. t \in ScreenAt(ui, x)
    BY <2>1, <2>3, <2>4, <2>6, <2>10, <2>18 DEF ScreenAt, Spans, Right
  <2>20. s = t
    BY <1>1, <2>1, <2>19, AtMostOneScreen DEF ScreensInv
  <2>21. q \in {l - 1, l}
    BY <2>2, <2>4, <2>6, <2>10, <2>18 DEF TowardsZero, ReadBack
  <2>22. MoveInside(q, n, area) \in {l - 1, l}
    BY <2>4, <2>6, <2>10, <2>21 DEF MoveInside, Right
  <2>23. Frame(w).left' = MoveInside(q, n, area)
    BY <2>2, <2>3, <2>20
  <2> QED
    BY <2>22, <2>23 DEF l
<1>2. ScreensInv /\ [Next]_vars
        => [\A w \in Windows :
              EndDrag(w) /\ Inside(Frame(w)) /\ ui.dragged.width = Frame(w).width
                         /\ Frame(w).width' = Frame(w).width /\ ~AtEdge(ui')
                => Frame(w).left' \in {Frame(w).left - 1, Frame(w).left}]_vars
  BY <1>1
<1> QED
  BY <1>2, ScreensInvInvariant, PTL DEF Spec, DropStays
-----------------------------------------------------------------------------
(* Where the keyboard is when the screens change.                          *)

ReachableFrom(u, C) == \E s \in C : ~Disjoint(u.frame, u.geometry[s])

\* A window that starts on a screen is on it.
LEMMA StartsOn ==
  ASSUME NEW frame \in Frames, frame.width > 0, NEW area \in Geometries,
         Spans(area, frame.left)
  PROVE  ~Disjoint(frame, area)
  BY AreaType DEF Frames, Spans, Disjoint, Right

\* The place of the keyboard has a part of a screen that the watcher takes a position to
\* be on.
LEMMA KeyboardOverlaps ==
  ASSUME NEW u, NEW C, NEW D, Sane(u, C, D)
  PROVE  \E x \in Int : ~Disjoint(KeyboardGeometry(u), Area(u, x))
<1>1. u.at \in Int
  BY DEF Sane, UIs
<1>2. CASE ~u.float
  <2> DEFINE area == Area(u, u.at)
  <2>1. area \in Geometries
    BY <1>1, OptimalIsKnown
  <2>2. KeyboardGeometry(u) = [left |-> area.left, width |-> area.width]
    BY <1>2 DEF KeyboardGeometry
  <2> HIDE DEF area
  <2>3. ~Disjoint([left |-> area.left, width |-> area.width], area)
    BY <2>1, AreaType DEF Disjoint, Right
  <2> QED
    BY <1>1, <2>2, <2>3 DEF area
<1>3. CASE u.float
  <2> DEFINE x == CurrentPosition(u, "keyboard")
             area == Area(u, x)
             W == ViewWidth(u, "keyboard")
             p == MoveInside(x, W, area)
  <2>1. x \in Int /\ W \in Nat \ {0}
    BY Positions, Numbers DEF Windows
  <2>2. KeyboardGeometry(u) = [left |-> p, width |-> W]
    BY <1>3 DEF KeyboardGeometry, ViewPosition, Normalized
  <2> HIDE DEF x
  <2>3. area \in Geometries
    BY <2>1, OptimalIsKnown
  <2> HIDE DEF area, W
  <2>4. ~Disjoint([left |-> p, width |-> W], area)
    BY <2>1, <2>3, AreaType DEF MoveInside, Disjoint, Right
  <2> QED
    BY <2>1, <2>2, <2>4 DEF area
<1> QED
  BY <1>2, <1>3

\* And that screen is plugged, unless it is the marked one and was just unplugged.
LEMMA OptimalIsPlugged ==
  ASSUME NEW u, NEW C, NEW D, Sane(u, C, D), u.marked \subseteq C, NEW x \in Int
  PROVE  OptimalScreen(u, x) \in C
<1> DEFINE candidates == IF ScreenAt(u, x) # {} THEN ScreenAt(u, x)
                         ELSE IF u.marked # {} THEN u.marked ELSE {u.primary}
<1>1. candidates # {} /\ candidates \subseteq C
  BY SaneScreens, AtMostOneScreen
<1> HIDE DEF candidates
<1>2. (CHOOSE s \in candidates : TRUE) \in candidates
  BY <1>1, ChosenIsMember
<1> QED
  BY <1>1, <1>2 DEF candidates, OptimalScreen

\* The signal brings a visible keyboard to a screen that is plugged, except for one that
\* follows a marked screen out of the desktop: then a second signal comes.
LEMMA ScreensChangedReaches ==
  ASSUME NEW u, NEW C, NEW D, Sane(u, C, D), u.visible,
         ScreensChanged(u).marked \subseteq C
  PROVE  /\ ReachableFrom(ScreensChanged(u), C)
         /\ ScreensChanged(u).geometry = u.geometry
<1> DEFINE f == KeyboardGeometry(u)
           a == [u EXCEPT !.frame = f]
           b == MarkScreen(a, f.left)
           v == NotifyScreenMarkChanged(b)
           z == [v EXCEPT !.timer = v.timer \/ v.button # "none"]
<1>1. f \in Frames /\ f.width > 0
  BY KeyboardGeometryType
<1>2. f.left \in Int
  BY <1>1 DEF Frames
<1>3. PICK x \in Int : ~Disjoint(f, Area(u, x))
  BY KeyboardOverlaps
<1>4. ScreensChanged(u) = z
  BY DEF ScreensChanged, UpdateKeyboard
<1> HIDE DEF f
<1>5. Sane(a, C, D) /\ a.frame = f /\ a.marked = u.marked /\ a.geometry = u.geometry
      /\ ScreenAt(a, f.left) = ScreenAt(u, f.left)
  <2>1. Sane(a, C, D)
    BY <1>1, SaneFields
  <2> QED
    BY <2>1 DEF Sane, UIs, ScreenAt
<1> HIDE DEF a
<1>6. /\ Sane(b, C, D) /\ b.frame = f /\ b.geometry = u.geometry
      /\ b.marked = IF ScreenAt(u, f.left) \subseteq u.marked THEN u.marked
                    ELSE ScreenAt(u, f.left)
  BY <1>2, <1>5, MarkScreenSane, MarkScreenKeeps DEF Sane, Kept
<1> HIDE DEF b
<1>7. /\ v \in UIs /\ v.frame = f /\ v.geometry = u.geometry /\ v.marked = b.marked
  BY <1>6, NotifySane, NotifyKeeps DEF Sane, Kept
<1> HIDE DEF v
<1>8. z.frame = f /\ z.geometry = u.geometry /\ z.marked = b.marked
  BY <1>7 DEF UIs
<1> HIDE DEF z
<1>9. \E s \in C : ~Disjoint(f, u.geometry[s])
  <2>1. CASE u.marked \subseteq C
    <3>1. OptimalScreen(u, x) \in C
      BY <2>1, OptimalIsPlugged
    <3> QED
      BY <1>3, <3>1 DEF Area
  <2>2. CASE ~(u.marked \subseteq C)
    <3>1. PICK s \in ScreenAt(u, f.left) : TRUE
      BY <1>4, <1>6, <1>8, <2>2
    <3>2. s \in C /\ Spans(u.geometry[s], f.left)
      BY <1>2, <3>1, AtMostOneScreen DEF ScreenAt
    <3>3. u.geometry[s] \in Geometries
      BY <3>2, SaneScreens
    <3> QED
      BY <1>1, <3>2, <3>3, StartsOn
  <2> QED
    BY <2>1, <2>2
<1> QED
  BY <1>4, <1>8, <1>9 DEF ReachableFrom

\* After the managers are told of the screens, a visible keyboard can be reached.
LEMMA ToldReaches ==
  ASSUME Told, ui.visible
  PROVE  Reachable(ui.frame)'
<1>1. PICK u, C : /\ Sane(u, C, C) /\ u.visible = ui.visible /\ ui' = ScreensChanged(u)
  BY DEF Told
<1>2. Sane(ui', C, C)
  BY <1>1, ScreensChangedSane
<1>3. ui'.marked \subseteq C /\ ui'.connected = C
  BY <1>2 DEF Sane
<1>4. ReachableFrom(ui', C)
  BY <1>1, <1>3, ScreensChangedReaches
<1> QED
  BY <1>3, <1>4 DEF ReachableFrom, Reachable

\* Without a signal the keyboard is still on the marked screen it starts on.
LEMMA UntoldReaches ==
  ASSUME ScreensInv, ui.visible, ui.marked # {}, ui.marked = On(ui.frame), NEW C,
         NEW S, ui.marked \subseteq S, Untold(ui, C, S)
  PROVE  Reachable(ui.frame)'
<1>1. PICK t \in ui.marked : TRUE
  OBVIOUS
<1>2. /\ t \in ui.connected /\ Spans(ui.geometry[t], ui.frame.left)
  BY <1>1 DEF On
<1>3. ui.geometry[t] \in Geometries
  BY <1>2, SaneScreens DEF ScreensInv
<1>4. ui.frame \in Frames /\ ui.frame.width > 0
  BY DEF ScreensInv, Sane, DragInv, UIs
<1>5. ~Disjoint(ui.frame, ui.geometry[t])
  BY <1>2, <1>3, <1>4, StartsOn
<1>6. /\ t \in ui'.connected /\ ui'.geometry[t] = ui.geometry[t] /\ ui'.frame = ui.frame
  BY <1>1 DEF Untold, Sane
<1> QED
  BY <1>5, <1>6 DEF Reachable

\* screenwatcher.h:72: a visible keyboard that starts on the marked screen is never left
\* beyond the edge of the desktop by a screen that comes, goes, moves or gets another
\* size, nor by a new primary screen.
THEOREM TheMarkedIsFollowed == Spec => MarkedFollows
<1>1. ASSUME ScreensInv, ScreenChange, ui.visible, ui.marked # {}, ui.marked = On(ui.frame)
      PROVE  Reachable(ui.frame)'
  <2>1. CASE \E s \in Screens, g \in Geometries : ScreenAdded(s, g)
    BY <1>1, <2>1, ScreenAddedTells, ToldReaches
  <2>2. CASE \E s \in Screens : PrimaryScreenChanged(s)
    BY <1>1, <2>2, PrimaryScreenChangedTells, ToldReaches
  <2>3. ASSUME NEW s \in Screens, NEW t \in Screens, ScreenRemoved(s, t)
        PROVE  Reachable(ui.frame)'
    <3>1. CASE Told
      BY <1>1, <3>1, ToldReaches
    <3> DEFINE K == ui.connected \ {s}
    <3>2. CASE ui.marked \subseteq K /\ Untold(ui, K, K)
      BY <1>1, <3>2, UntoldReaches
    <3>3. ASSUME NEW v, NEW C, Sane(v, C, C \cup {s}), v.visible = ui.visible,
                 ScreensChanged(v).marked \subseteq C, Untold(ScreensChanged(v), C, C)
          PROVE  Reachable(ui.frame)'
      <4> DEFINE x == ScreensChanged(v)
      <4>1. ReachableFrom(x, C)
        BY <1>1, <3>3, ScreensChangedReaches
      <4> HIDE DEF x
      <4>2. /\ ui'.connected = C /\ ui'.frame = x.frame
            /\ \A r \in C : ui'.geometry[r] = x.geometry[r]
        BY <3>3 DEF Untold, Sane, x
      <4> QED
        BY <4>1, <4>2 DEF ReachableFrom, Reachable
    <3> QED
      BY <1>1, <2>3, <3>1, <3>2, <3>3, ScreenRemovedTells
  <2>4. CASE \E s \in Screens, g \in Geometries : ScreenGeometryChanged(s, g)
    BY <1>1, <2>4, ScreenGeometryChangedTells, ToldReaches, UntoldReaches
  <2> QED
    BY <1>1, <2>1, <2>2, <2>3, <2>4 DEF ScreenChange
<1>2. ScreensInv /\ [Next]_vars
        => [ScreenChange /\ ui.visible /\ ui.dragged = NoDrag
                         /\ ui.marked # {} /\ ui.marked = On(ui.frame)
              => Reachable(ui.frame)']_vars
  BY <1>1
<1> QED
  BY <1>2, ScreensInvInvariant, PTL DEF Spec, MarkedFollows

-----------------------------------------------------------------------------
(* Who learns of a drag.                                                   *)

\* On every screen there is room for a window and its default margin, and a pixel more.
DefaultsFit ==
  \A w \in Windows, area \in Geometries, scale \in Scales :
    WidthOn[w, area, scale] + DefaultRightMargin(w, area) < area.width

SamePlaces(u, v) ==
  /\ v.connected = u.connected /\ v.geometry = u.geometry /\ v.primary = u.primary
  /\ v.marked = u.marked /\ v.at = u.at /\ v.scale = u.scale

\* Sizes and places depend on the screens, the mark, the drag and the scale alone.
LEMMA SamePlacesAgree ==
  ASSUME NEW u, NEW v, SamePlaces(u, v), NEW w
  PROVE  /\ \A x : OptimalScreen(v, x) = OptimalScreen(u, x)
         /\ Margin(v, w) = Margin(u, w)
         /\ DefaultPosition(v, w) = DefaultPosition(u, w)
<1>1. \A x : ScreenAt(v, x) = ScreenAt(u, x)
  BY DEF SamePlaces, ScreenAt
<1>2. \A x : OptimalScreen(v, x) = OptimalScreen(u, x)
  BY <1>1 DEF SamePlaces, OptimalScreen
<1>3. \A x : Area(v, x) = Area(u, x)
  BY <1>2 DEF SamePlaces, Area
<1>4. \A area : WidthOn[w, area, v.scale] = WidthOn[w, area, u.scale]
  BY DEF SamePlaces
<1>5. Margin(v, w) = Margin(u, w)
  BY <1>3, <1>4 DEF Margin, SamePlaces
<1>6. ViewWidth(v, w) = ViewWidth(u, w)
  BY <1>3, <1>4 DEF ViewWidth, SamePlaces
<1>7. DefaultPosition(v, w) = DefaultPosition(u, w)
  BY <1>3, <1>6 DEF DefaultPosition
<1> QED
  BY <1>2, <1>5, <1>7

\* A window at its default place is on the marked screen.
LEMMA DefaultIsMarked ==
  ASSUME DefaultsFit, NEW u, NEW C, Sane(u, C, C), NEW w \in Windows,
         NEW s, u.marked = {s}, OptimalScreen(u, u.at) = s,
         u.ratio[w] = Quotient(DefaultPosition(u, w), Margin(u, w))
  PROVE  OptimalScreen(u, ViewPosition(u, w)) = s
<1> DEFINE area == u.geometry[s]
           W == WidthOn[w, area, u.scale]
           R == DefaultRightMargin(w, area)
           d == area.left + area.width - (W + R)
<1>1. s \in C /\ area \in Geometries /\ u.connected = C
  BY SaneScreens DEF Sane
<1>2. area.left \in Nat /\ area.width \in Nat \ {0}
  BY <1>1, AreaType
<1>3. u.at \in Int /\ u.scale \in Scales
  BY DEF Sane, UIs
<1>4. W \in 1 .. area.width - 1
  BY <1>1, <1>3, WidthFits
<1>5. R \in 0 .. area.width
  BY <1>1, <1>3, WidthFits
<1>6. W + R < area.width
  BY <1>1, <1>3 DEF DefaultsFit
<1>7. ViewWidth(u, w) = W /\ Area(u, u.at) = area
  BY DEF ViewWidth, Area
<1>8. Area(u, Nowhere) = area
  <2>1. ScreenAt(u, Nowhere) = {}
    <3>1. \A t \in C : u.geometry[t].left \in Nat
      BY SaneScreens, AreaType
    <3> QED
      BY <1>1, <3>1 DEF ScreenAt, Spans, Nowhere
  <2>2. (CHOOSE t \in {s} : TRUE) = s
    <3>1. (CHOOSE t \in {s} : TRUE) \in {s}
      BY ChosenIsMember
    <3> QED
      BY <3>1
  <2>3. OptimalScreen(u, Nowhere) = s
    BY <2>1, <2>2 DEF OptimalScreen
  <2> QED
    BY <2>3 DEF Area
<1>9. DefaultPosition(u, w) = d
  BY <1>7, <1>8 DEF DefaultPosition
<1> DEFINE q == RatioPosition(u, w)
<1>10. q \in {d, TowardsZero(d)}
  <2>1. q = Product(Margin(u, w), Quotient(d, Margin(u, w)))
    BY <1>9 DEF RatioPosition
  <2>2. Margin(u, w) \in 1 .. Far /\ \E r \in Powers : r >= 2 * Far * Margin(u, w)
    BY Numbers
  <2>3. d \in -Far .. Far
    BY <1>9, Positions
  <2> HIDE DEF d, q
  <2> QED
    BY <2>1, <2>2, <2>3, RoundTrip DEF ReadBack
<1> HIDE DEF area, W, R, q
<1>11. q \in Int /\ Spans(area, q) /\ MoveInside(q, W, area) = q
  BY <1>2, <1>4, <1>5, <1>6, <1>10 DEF Spans, MoveInside, Right, TowardsZero
<1>12. s \in ScreenAt(u, q)
  BY <1>1, <1>11 DEF ScreenAt, area
<1>13. OptimalScreen(u, q) = s
  BY <1>11, <1>12, AtMostOneScreen, OptimalIsKnown
<1>14. Normalized(u, w, q) = q
  BY <1>7, <1>11, <1>13 DEF Normalized, Area, area
<1>15. ViewPosition(u, w) = q
  BY <1>14 DEF ViewPosition, CurrentPosition, q
<1> QED
  BY <1>13, <1>15

\* Only the window that is not on the screen is told, and it is put at its default place.
LEMMA NotifyTells ==
  ASSUME NEW u, NEW C, Sane(u, C, C)
  PROVE  LET v == NotifyScreenMarkChanged(u)
         IN /\ SamePlaces(u, v)
            /\ u.visible => v.ratio["keyboard"] = u.ratio["keyboard"]
            /\ u.button # "hidden" => v.ratio["button"] = u.ratio["button"]
            /\ u.changed /\ ~u.visible =>
                 v.ratio["keyboard"] = Quotient(DefaultPosition(v, "keyboard"), Margin(v, "keyboard"))
            /\ u.changed /\ u.button = "hidden" =>
                 v.ratio["button"] = Quotient(DefaultPosition(v, "button"), Margin(v, "button"))
<1> DEFINE a == [u EXCEPT !.changed = FALSE]
           k == KeyboardMarkedScreenChanged(a)
           b == ButtonMarkedScreenChanged(k)
           v == NotifyScreenMarkChanged(u)
<1>1. v = IF u.changed THEN b ELSE u
  BY DEF NotifyScreenMarkChanged
<1>2. /\ Sane(a, C, C) /\ SamePlaces(u, a) /\ a.ratio = u.ratio
      /\ a.visible = u.visible /\ a.button = u.button
  <2>1. Sane(a, C, C)
    BY SaneFields
  <2> QED
    BY <2>1 DEF Sane, UIs, SamePlaces
<1>3. ASSUME NEW z, Sane(z, C, C), NEW w \in Windows
      PROVE  LET y == UpdateViewMarginRatio(z, w)
             IN /\ Sane(y, C, C) /\ SamePlaces(z, y)
                /\ y.visible = z.visible /\ y.button = z.button
                /\ \A o \in Windows \ {w} : y.ratio[o] = z.ratio[o]
                /\ y.ratio[w] = Quotient(DefaultPosition(z, w), Margin(z, w))
  <2> DEFINE f == Quotient(DefaultPosition(z, w), Margin(z, w))
  <2>1. Sane(UpdateViewMarginRatio(z, w), C, C)
    BY <1>3, UpdateRatioSane
  <2>2. UpdateViewMarginRatio(z, w) = [z EXCEPT !.ratio[w] = f]
    BY DEF UpdateViewMarginRatio, SetRatio
  <2>3. z \in UIs
    BY <1>3 DEF Sane
  <2> HIDE DEF f
  <2>4. LET y == [z EXCEPT !.ratio[w] = f]
        IN /\ SamePlaces(z, y)
           /\ y.visible = z.visible /\ y.button = z.button
           /\ \A o \in Windows \ {w} : y.ratio[o] = z.ratio[o]
           /\ y.ratio[w] = f
    BY <2>3 DEF UIs, SamePlaces
  <2> QED
    BY <2>1, <2>2, <2>4 DEF f
<1>4. SamePlaces(u, u)
  BY DEF SamePlaces
<1> HIDE DEF a
<1>5. /\ Sane(k, C, C) /\ SamePlaces(a, k)
      /\ k.visible = u.visible /\ k.button = u.button
      /\ k.ratio["button"] = u.ratio["button"]
      /\ u.visible => k.ratio["keyboard"] = u.ratio["keyboard"]
      /\ ~u.visible => k.ratio["keyboard"] = Quotient(DefaultPosition(a, "keyboard"), Margin(a, "keyboard"))
  <2>1. CASE u.visible
    BY <1>2, <2>1 DEF KeyboardMarkedScreenChanged, SamePlaces
  <2>2. CASE ~u.visible
    <3>1. k = UpdateViewMarginRatio(a, "keyboard")
      BY <1>2, <2>2 DEF KeyboardMarkedScreenChanged
    <3> HIDE DEF k
    <3>2. "keyboard" \in Windows /\ "button" \in Windows \ {"keyboard"}
      BY DEF Windows
    <3>3. /\ Sane(k, C, C) /\ SamePlaces(a, k)
          /\ k.visible = a.visible /\ k.button = a.button
          /\ k.ratio["button"] = a.ratio["button"]
          /\ k.ratio["keyboard"] = Quotient(DefaultPosition(a, "keyboard"), Margin(a, "keyboard"))
      BY <1>2, <1>3, <3>1, <3>2
    <3> QED
      BY <1>2, <2>2, <3>3
  <2> QED
    BY <2>1, <2>2
<1> HIDE DEF k
<1>6. /\ SamePlaces(k, b)
      /\ b.ratio["keyboard"] = k.ratio["keyboard"]
      /\ u.button # "hidden" => b.ratio["button"] = u.ratio["button"]
      /\ u.button = "hidden" => b.ratio["button"] = Quotient(DefaultPosition(k, "button"), Margin(k, "button"))
  <2>1. CASE u.button # "hidden"
    BY <1>5, <2>1 DEF ButtonMarkedScreenChanged, SamePlaces
  <2>2. CASE u.button = "hidden"
    <3>1. b = UpdateViewMarginRatio(k, "button")
      BY <1>5, <2>2 DEF ButtonMarkedScreenChanged
    <3> HIDE DEF b
    <3>2. "button" \in Windows /\ "keyboard" \in Windows \ {"button"}
      BY DEF Windows
    <3>3. /\ SamePlaces(k, b)
          /\ b.ratio["keyboard"] = k.ratio["keyboard"]
          /\ b.ratio["button"] = Quotient(DefaultPosition(k, "button"), Margin(k, "button"))
      BY <1>3, <1>5, <3>1, <3>2
    <3> QED
      BY <2>2, <3>3
  <2> QED
    BY <2>1, <2>2
<1> HIDE DEF b
<1>7. SamePlaces(a, b) /\ SamePlaces(u, b)
  BY <1>2, <1>5, <1>6 DEF SamePlaces
<1>8. \A w : /\ DefaultPosition(a, w) = DefaultPosition(b, w) /\ Margin(a, w) = Margin(b, w)
             /\ DefaultPosition(k, w) = DefaultPosition(b, w) /\ Margin(k, w) = Margin(b, w)
  BY <1>6, <1>7, SamePlacesAgree
<1>9. CASE u.changed
  BY <1>1, <1>5, <1>6, <1>7, <1>8, <1>9
<1>10. CASE ~u.changed
  BY <1>1, <1>4, <1>10
<1> HIDE DEF v
<1> QED
  BY <1>9, <1>10 DEF v

\* A mark that moves is remembered until the other window is told.
Remembered(u, v) == v.changed \/ (v.marked = u.marked /\ v.changed = u.changed)

\* viewMoved leaves what Remembered names as it is.
LEMMA ViewMovedRemembers ==
  ASSUME NEW u, u \in UIs, NEW w \in Windows, NEW x
  PROVE  Remembered(u, ViewMoved(u, w, x))
<1>1. ASSUME NEW z \in UIs
      PROVE  Remembered(z, MarkScreen(z, x))
  BY DEF MarkScreen, Remembered, UIs
<1> DEFINE k == [u EXCEPT !.frame.left = x]
           b == [u EXCEPT !.buttonFrame.left = x]
<1>2. ViewMoved(u, w, x) \in {u, MarkScreen(k, x), MarkScreen(b, x)}
  BY DEF ViewMoved
<1>3. /\ k.marked = u.marked /\ k.changed = u.changed /\ DOMAIN k = DOMAIN u
      /\ b.marked = u.marked /\ b.changed = u.changed /\ DOMAIN b = DOMAIN u
  BY DEF UIs
<1> QED
  BY <1>2, <1>3 DEF MarkScreen, Remembered, UIs

\* The end of a drag: what the watcher notifies, and of what.
LEMMA EndDragNotifies ==
  ASSUME ScreensInv, NEW w \in Windows, EndDrag(w), ~AtEdge(ui')
  PROVE  \E u, s :
           /\ ui' = NotifyScreenMarkChanged(u)
           /\ Sane(u, ui.connected, ui.connected)
           /\ u.marked = {s} /\ OptimalScreen(u, u.at) = s
           /\ u.visible = ui.visible /\ u.button = ui.button
           /\ u.at \in -Far .. Far
           /\ u.ratio[w] = Quotient(u.at, Margin(u, w))
           /\ Remembered(ui, u)
<1> DEFINE C == ui.connected
           o == [ui EXCEPT !.at = Frame(w).left, !.dragged = NoDrag]
           x == DragTarget(o, Frame(w).left, ui.dragged.width)
           v == [o EXCEPT !.at = x]
           r == SetRatio(v, w, x)
           m == MoveView(v, w, x)
           s == OptimalScreen(m, x)
           p == ViewPosition(m, w)
           n == ViewMoved(m, w, p)
<1>1. ui' = ViewResized(n, w) /\ ui.dragged.window = w /\ m = ViewMoved(r, w, x)
  BY DEF EndDrag, UpdateGeometry, MoveView
<1>2. /\ x \in -Far .. Far /\ Sane(v, C, C) /\ v.at = x /\ IsThere(v, w)
      /\ v.changed = ui.changed /\ v.marked = ui.marked
      /\ v.visible = ui.visible /\ v.button = ui.button
  BY <1>1, DropSane
<1> HIDE DEF v, x, C
<1>3. Sane(r, C, C) /\ r.marked = v.marked /\ r.changed = v.changed
  <2>1. Sane(r, C, C)
    BY <1>2, SetRatioSane
  <2>2. v \in UIs
    BY <1>2 DEF Sane
  <2> DEFINE f == Quotient(x, Margin(v, w))
  <2> HIDE DEF f
  <2>3. r = [v EXCEPT !.ratio[w] = f]
    BY DEF SetRatio, f
  <2>4. r.marked = v.marked /\ r.changed = v.changed
    BY <2>2, <2>3 DEF UIs
  <2> QED
    BY <2>1, <2>4
<1> HIDE DEF r
<1>4. Remembered(r, m)
  BY <1>1, <1>3, ViewMovedRemembers DEF Sane
<1>5. /\ Sane(m, C, C) /\ m.at = x /\ IsThere(m, w) /\ Kept(v, m)
      /\ m.ratio[w] = Quotient(x, Margin(m, w))
  BY <1>2, MoveViewDrops, MoveViewKeeps
<1>6. p \in Int /\ ScreenAt(m, p) = {s} /\ m \in UIs
  <2>1. ui' = UpdateGeometry(m, w)
    BY DEF EndDrag, v, x
  <2> HIDE DEF m
  <2>2. Kept(m, ui')
    BY <1>5, <2>1, UpdateGeometryKeeps
  <2>3. ~AtEdge(m)
    BY <2>2, KeptEdge
  <2> QED
    <3>1. m \in UIs
      BY <1>5 DEF Sane
    <3>2. p \in Int /\ ScreenAt(m, p) = {s}
      BY <1>2, <1>5, <2>3, PlaceOfDrop
    <3> QED
      BY <3>1, <3>2
<1> HIDE DEF m
<1> HIDE DEF p
<1>7. /\ Sane(n, C, C) /\ Kept(m, n) /\ n.ratio = m.ratio /\ Remembered(m, n)
      /\ \/ ScreenAt(m, p) \subseteq m.marked /\ n.marked = m.marked
         \/ n.marked = ScreenAt(m, p)
  BY <1>5, <1>6, ViewMovedSane, ViewMovedKeeps, ViewMovedFrame, ViewMovedRemembers
<1> HIDE DEF n
<1>8. n.marked = {s}
  BY <1>6, <1>7 DEF Sane
<1>9. n.at = x /\ IsThere(n, w)
  BY <1>5, <1>7 DEF Kept, IsThere
<1> DEFINE W == ViewWidth(n, w)
           u == IF w = "keyboard" THEN [n EXCEPT !.frame.width = W]
                                  ELSE [n EXCEPT !.buttonFrame.width = W]
<1>10. W \in Nat \ {0}
  BY <1>7, Numbers
<1>11. ui' = NotifyScreenMarkChanged(u)
  BY <1>1, <1>9 DEF ViewResized, IsThere, Windows
<1> HIDE DEF W
<1>12. Sane(u, C, C)
  <2>1. /\ n.frame \in Frames /\ n.buttonFrame \in Frames /\ n \in UIs
    BY <1>7 DEF Sane, UIs
  <2>2. /\ [n.frame EXCEPT !.width = W] \in Frames
        /\ [n.frame EXCEPT !.width = W].width > 0
        /\ [n.buttonFrame EXCEPT !.width = W] \in Frames
    BY <1>10, <2>1 DEF Frames
  <2>3. /\ Sane([n EXCEPT !.frame = [n.frame EXCEPT !.width = W]], C, C)
        /\ Sane([n EXCEPT !.buttonFrame = [n.buttonFrame EXCEPT !.width = W]], C, C)
    BY <1>7, <2>2, SaneFields
  <2>4. u = IF w = "keyboard" THEN [n EXCEPT !.frame = [n.frame EXCEPT !.width = W]]
            ELSE [n EXCEPT !.buttonFrame = [n.buttonFrame EXCEPT !.width = W]]
    BY <2>1 DEF UIs
  <2> QED
    BY <2>3, <2>4
<1>13. /\ SamePlaces(n, u) /\ u.visible = n.visible /\ u.button = n.button
       /\ u.ratio = n.ratio /\ u.changed = n.changed
  BY <1>7 DEF SamePlaces, Sane, UIs
<1> HIDE DEF u
<1>14. OptimalScreen(n, x) = s
  BY <1>2, <1>5, <1>7, <1>8, SameArea DEF Kept
<1>15. OptimalScreen(u, u.at) = s /\ u.marked = {s} /\ u.at = x
  BY <1>8, <1>9, <1>13, <1>14, SamePlacesAgree DEF SamePlaces
<1>16. Margin(u, w) = Margin(m, w)
  <2>1. Margin(u, w) = Margin(n, w)
    BY <1>13, SamePlacesAgree
  <2>2. Area(n, x) = Area(m, x)
    BY <1>7, <1>14 DEF Area, Kept
  <2>3. Margin(n, w) = Margin(m, w)
    BY <1>5, <1>7, <1>9, <2>2 DEF Margin, Kept
  <2> QED
    BY <2>1, <2>3
<1>17. u.ratio[w] = Quotient(u.at, Margin(u, w)) /\ u.at \in -Far .. Far
  BY <1>2, <1>5, <1>7, <1>13, <1>15, <1>16
<1>18. u.visible = ui.visible /\ u.button = ui.button
  BY <1>2, <1>5, <1>7, <1>13 DEF Kept
<1>19. Remembered(ui, u)
  BY <1>2, <1>3, <1>4, <1>7, <1>13 DEF Remembered, SamePlaces
<1> HIDE DEF s
<1> QED
  BY <1>11, <1>12, <1>15, <1>17, <1>18, <1>19 DEF C

\* screenwatcher.h:81, where the default places are on the screens (a scale of up to 83
\* per cent, with the margin the code has): a drag that leaves a window on another screen
\* than the marked one makes the other window open there too, and the dragged one too.
THEOREM TheOtherFollows ==
  ASSUME DefaultsFit
  PROVE  Spec => OtherFollows
<1>1. ASSUME ScreensInv, NEW w \in Windows, NEW v \in Windows, EndDrag(w),
             ui.changed \/ ui'.marked # ui.marked, ~AtEdge(ui'),
             v = "button" => ui.button # "none"
      PROVE  ui'.marked = {OptimalScreen(ui', ViewPosition(ui', v))}
  <2> DEFINE C == ui.connected
  <2>1. PICK u, s :
          /\ ui' = NotifyScreenMarkChanged(u)
          /\ Sane(u, C, C)
          /\ u.marked = {s} /\ OptimalScreen(u, u.at) = s
          /\ u.visible = ui.visible /\ u.button = ui.button
          /\ u.at \in -Far .. Far
          /\ u.ratio[w] = Quotient(u.at, Margin(u, w))
          /\ Remembered(ui, u)
    BY <1>1, EndDragNotifies
  <2>2. Sane(ui', C, C) /\ SamePlaces(u, ui')
    BY <2>1, NotifySane, NotifyTells
  <2>3. /\ ui'.marked = {s} /\ OptimalScreen(ui', ui'.at) = s
        /\ ui'.at \in -Far .. Far
    <3>1. \A x : OptimalScreen(ui', x) = OptimalScreen(u, x)
      BY <2>2, SamePlacesAgree
    <3>2. ui'.marked = u.marked /\ ui'.at = u.at
      BY <2>2 DEF SamePlaces
    <3> QED
      BY <2>1, <3>1, <3>2
  <2>4. u.changed
    BY <1>1, <2>1, <2>3 DEF Remembered
  <2>5. CASE v = w
    <3>1. ui'.ratio[w] = u.ratio[w]
      <4>1. w = "keyboard" => u.visible
        BY <1>1, <2>1 DEF EndDrag, ScreensInv, DragInv
      <4>2. w = "button" => u.button # "hidden"
        BY <1>1, <2>1 DEF EndDrag, ScreensInv, DragInv
      <4> QED
        BY <2>1, <4>1, <4>2, NotifyTells DEF Windows
    <3>2. ui'.ratio[w] = Quotient(ui'.at, Margin(ui', w))
      BY <2>1, <2>2, <3>1, SamePlacesAgree DEF SamePlaces
    <3>3. ScreenAt(ui', ViewPosition(ui', w)) = {s}
      <4> DEFINE x == ui'.at
                 p == ViewPosition(ui', w)
      <4>1. x \in -Far .. Far /\ ui'.ratio[w] = Quotient(x, Margin(ui', w))
        BY <2>3, <3>2
      <4>2. ui'.at = x /\ OptimalScreen(ui', x) = s
        BY <2>3
      <4> HIDE DEF x
      <4>3. ScreenAt(ui', p) = {OptimalScreen(ui', x)}
        BY <1>1, <2>2, <4>1, <4>2, PlaceOfDrop
      <4> QED
        BY <4>2, <4>3
    <3>4. OptimalScreen(ui', ViewPosition(ui', w)) = s
      <4> DEFINE p == ViewPosition(ui', w)
      <4>1. p \in Int
        BY <2>2, Positions
      <4> HIDE DEF p
      <4>2. ScreenAt(ui', p) = {OptimalScreen(ui', p)}
        BY <2>2, <3>3, <4>1, OptimalIsKnown DEF p
      <4> QED
        BY <3>3, <4>2 DEF p
    <3> QED
      BY <2>3, <2>5, <3>4
  <2>6. CASE v # w
    <3>1. v = "keyboard" => ~u.visible
      BY <1>1, <2>1, <2>6 DEF EndDrag, ScreensInv, DragInv, Windows
    <3>2. v = "button" => u.button = "hidden"
      BY <1>1, <2>1, <2>6 DEF EndDrag, ScreensInv, DragInv, Sane, UIs, Windows
    <3>3. ui'.ratio[v] = Quotient(DefaultPosition(ui', v), Margin(ui', v))
      BY <2>1, <2>4, <3>1, <3>2, NotifyTells DEF Windows
    <3>4. OptimalScreen(ui', ViewPosition(ui', v)) = s
      BY <2>2, <2>3, <3>3, DefaultIsMarked
    <3> QED
      BY <2>3, <3>4
  <2> QED
    BY <2>5, <2>6
<1>2. ScreensInv /\ [Next]_vars
        => [\A w, v \in Windows :
              EndDrag(w) /\ (ui.changed \/ ui'.marked # ui.marked) /\ ~AtEdge(ui')
                         /\ (v = "button" => ui.button # "none")
                => ui'.marked = {OptimalScreen(ui', ViewPosition(ui', v))}]_vars
  BY <1>1
<1> QED
  BY <1>2, ScreensInvInvariant, PTL DEF Spec, OtherFollows
=============================================================================
