------------------------------- MODULE Floats -------------------------------
(***************************************************************************)
(* The arithmetic of C++ float that the geometry managers do: a quotient   *)
(* of two int, and the product of an int and a float, converted to int.    *)
(* Each is rounded to the nearest float, as IEEE 754 has it; the last      *)
(* conversion truncates.                                                   *)
(***************************************************************************)
EXTENDS Integers

CONSTANTS
  Significands,  \* 2^24 for float: integers up to it are floats
  Powers         \* the powers of two floats are divided by

ASSUME FormatAssumption ==
  /\ Significands \in Nat /\ Significands > 0 /\ Significands % 4 = 0
  /\ Powers \subseteq Nat \ {0} /\ 1 \in Powers
  /\ \A p \in Powers \ {1} : p \div 2 \in Powers /\ p = 2 * (p \div 2)

\* The float part / of.
Floats == [part : -Significands .. Significands, of : Powers]

\* Conversion of a quotient to int: towards 0.  d is positive.
Truncated(n, d) == IF n >= 0 THEN n \div d ELSE -((-n) \div d)

\* The integer nearest to n / d, the even one of two.
Nearest(n, d) ==
  LET below == n \div d
      rest == 2 * (n % d)
  IN IF rest > d \/ (rest = d /\ below % 2 = 1) THEN below + 1 ELSE below

Magnitude(n) == IF n < 0 THEN -n ELSE n
WithSign(n, m) == IF n < 0 THEN -m ELSE m

\* What n / d must be multiplied by to use all the bits of a significand.
Multiplier(n, d) ==
  CHOOSE p \in Powers :
    /\ n * p >= (Significands \div 2) * d
    /\ p = 1 \/ n * (p \div 2) < (Significands \div 2) * d

\* What n must be divided by to fit a significand.
Divisor(n) ==
  CHOOSE e \in Powers :
    /\ n \div e < Significands
    /\ e = 1 \/ n \div (e \div 2) >= Significands

\* n / d for int n and d, d positive and neither beyond Significands
Quotient(n, d) ==
  LET m == Magnitude(n)
      p == Multiplier(m, d)
  IN IF n = 0 THEN [part |-> 0, of |-> 1]
     ELSE [part |-> WithSign(n, Nearest(m * p, d)), of |-> p]

\* int(n * f) for int n, not negative, and float f
Product(n, f) ==
  LET m == n * Magnitude(f.part)
      e == Divisor(m)
  IN Truncated(WithSign(f.part, Nearest(m, e) * e), f.of)
=============================================================================
