---------------------------------- MODULE Bits ----------------------------------
(***************************************************************************)
(* The bit puzzles (bits.c) and the functions they are tested against      *)
(* (tests.c), on words of W bits with EB exponent bits for the floating    *)
(* point ones; the code has W = 32, EB = 8.  A word is the set of its one  *)
(* bits.  Signed arithmetic wraps, except where noted.                     *)
(***************************************************************************)
EXTENDS Integers, SequencesExt, FiniteSetsExt

CONSTANTS W, EB

LogW == CHOOSE n \in 0 .. W : 2 ^ n = W
FB   == W - 1 - EB                \* fraction bits
Bias == 2 ^ (EB - 1) - 1

\* Every integer has an exponent below that of infinity, as in the code.
ASSUME BitsAssumption == /\ W \in Nat /\ W % 2 = 0 /\ \E n \in 0 .. W : 2 ^ n = W
                         /\ EB \in Nat \ {0} /\ FB > 0
                         /\ Bias + W - 1 < 2 ^ EB - 1

Positions  == 0 .. W - 1
Word       == SUBSET Positions
Num        == [x \in Word |-> MapThenSumSet(LAMBDA b : 2 ^ b, x)]         \* as unsigned
Bits       == [n \in Int |-> {b \in Positions : (n \div 2 ^ b) % 2 = 1}]  \* n modulo 2^W
Negative(x) == W - 1 \in x
Int_(x)    == IF Negative(x) THEN Num[x] - 2 ^ W ELSE Num[x]

Zero       == {}
Unit       == {0}
Tmin       == {W - 1}
Tmax       == Positions \ Tmin
Compl(x)   == Positions \ x
Xor(x, y)  == (x \ y) \union (y \ x)
LNot(x)    == IF x = Zero THEN Unit ELSE Zero
Plus(x, y) == Bits[Num[x] + Num[y]]
Neg(x)     == Bits[-Num[x]]
Shl(x, n)  == {b + n : b \in x} \intersect Positions
Shr(x, n)  == {b \in Positions : (IF b + n < W THEN b + n ELSE W - 1) \in x}   \* arithmetic
Truth(p)   == IF p THEN Unit ELSE Zero

\* W/2, ..., 2, 1: the steps of the binary searches, written out in the code.
Halves == [n \in 1 .. LogW |-> 2 ^ (LogW - n)]

-------------------------------------------------------------------------------
(* bits.c *)

bitXor(x, y) == Compl(x \intersect y) \intersect Compl(Compl(x) \intersect Compl(y))

tmin == Shl(Unit, W - 1)

\* x + 1 overflows for Tmax, which the language leaves undefined: the arithmetic
\* wraps, or the compiler concludes that nx cannot be its own negation.
isTmax(x) ==
  LET nx == Plus(x, Unit)
      wrapped == LNot(Xor(nx, Plus(Compl(nx), Unit))) \intersect LNot(LNot(nx))
  IN  IF x = Tmax THEN {wrapped, Zero} ELSE {wrapped}

OddMask == {b \in Positions : b % 2 = 1}
allOddBits(x) ==
  LET nx == x \intersect OddMask IN LNot(Compl(nx \union Shr(nx, 1)))

negate(x) == Plus(Compl(x), Unit)

isAsciiDigit(x) ==
  LET chkf == LNot(Xor(Bits[3], Shr(x, 4)))
      back == x \intersect Bits[15]
      is89 == LNot(Xor(back, Bits[8])) \union LNot(Xor(back, Bits[9]))
  IN  chkf \intersect (is89 \union LNot(x \intersect Bits[8]))

conditional(x, y, z) ==
  LET msk1 == Shr(Shl(LNot(LNot(x)), W - 1), W - 1)
      msk2 == Shr(Shl(LNot(x), W - 1), W - 1)
  IN  (y \intersect msk1) \union (z \intersect msk2)

\* Without the signs: the difference alone, which may overflow.
isLessOrEqual_BugOverflow(x, y) ==
  LNot(LNot(Shr(Plus(Plus(x, Compl(y)), Unit), W - 1))) \union LNot(Xor(x, y))
isLessOrEqual(x, y) ==
  LET sx  == LNot(LNot(Shr(x, W - 1)))
      sy  == LNot(LNot(Shr(y, W - 1)))
      ssu == LNot(LNot(Shr(Plus(Plus(x, Compl(y)), Unit), W - 1)))
  IN  (sx \intersect LNot(sy)) \union (LNot(Xor(sx, sy)) \intersect ssu) \union LNot(Xor(x, y))

\* The top bit ends up as the or of all bits.
logicalNeg(x) ==
  Plus(Shr(FoldLeft(LAMBDA val, n : val \union Shl(val, n), x, Halves), W - 1), Unit)

\* Each step drops the lower half if there is a bit in the upper one.
howManyBits(x) ==
  LET sign == Shr(x, W - 1)
      v    == (x \intersect Compl(sign)) \union (Compl(x) \intersect sign)
      Halve(s, n) == LET b == IF Shr(s.v, n) # Zero THEN n ELSE 0
                     IN  [v |-> Shr(s.v, b), bits |-> s.bits + b]
      r    == FoldLeft(Halve, [v |-> v, bits |-> 0], Halves)
  IN  Bits[r.bits + (IF r.v # Zero THEN 1 ELSE 0) + 1]

FracMask == 0 .. FB - 1
ExpMask  == FB .. W - 2                       \* also the bits of infinity
MaxExp   == 2 ^ EB - 1
Exp(uf)  == Num[uf \intersect ExpMask] \div 2 ^ FB

float_twice(uf) ==
  LET exp == Exp(uf)
      sign == uf \intersect Tmin
  IN  CASE exp = 0          -> sign \union Shl(uf, 1)
        [] exp = MaxExp     -> uf
        [] exp = MaxExp - 1 -> sign \union ExpMask
        [] OTHER            -> Shl(Bits[exp + 1], FB) \union (uf \intersect Compl(ExpMask))

\* Rounds to nearest, ties to even; a carry out of the fraction goes to exp.
float_i2f(x) ==
  LET sign == x \intersect Tmin
      m    == Num[IF Negative(x) THEN Neg(x) ELSE x]
      E    == CHOOSE e \in Positions : m \div 2 ^ e = 1
      top  == Shl(Bits[m], W - 1 - E)
      rest == Num[top \intersect (0 .. EB - 1)]
      cut  == FracMask \intersect Shr(top, EB)
      round == \/ rest > 2 ^ (EB - 1)
               \/ rest = 2 ^ (EB - 1) /\ 0 \in cut
      frac == Plus(cut, Truth(round))
      exp  == E + Bias + (IF FB \in frac THEN 1 ELSE 0)
  IN  CASE x = Zero -> x
        [] x = Tmin -> sign \union Shl(Bits[Bias + W - 1], FB)
        [] OTHER    -> sign \union Shl(Bits[exp], FB) \union (frac \intersect FracMask)

float_f2i(uf) ==
  LET E   == Exp(uf) - Bias
      tmp == Shl((uf \intersect FracMask) \union {FB}, W - 2 - FB)
      ret == Shr(tmp, W - 2 - E)
  IN  CASE Exp(uf) = MaxExp \/ E >= W - 1 -> Tmin
        [] E < 0                          -> Zero
        [] OTHER                          -> IF Negative(uf) THEN Plus(Compl(ret), Unit) ELSE ret

-------------------------------------------------------------------------------
(* tests.c *)

test_bitXor(x, y)         == {b \in Positions : (b \in x) # (b \in y)}
test_tmin                 == Bits[2 ^ (W - 1)]
test_isTmax(x)            == Truth(Int_(x) = 2 ^ (W - 1) - 1)
test_allOddBits(x)        == Truth(\A b \in Positions : b % 2 = 1 => b \in x)
test_negate(x)            == Bits[-Int_(x)]
test_isAsciiDigit(x)      == Truth(48 <= Int_(x) /\ Int_(x) <= 57)
test_conditional(x, y, z) == IF x # Zero THEN y ELSE z
test_isLessOrEqual(x, y)  == Truth(Int_(x) <= Int_(y))
test_logicalNeg(x)        == Truth(x = Zero)
test_howManyBits(x)       ==
  LET a == IF Negative(x) THEN -Int_(x) - 1 ELSE Int_(x)
  IN  Bits[1 + (CHOOSE n \in 0 .. W : a < 2 ^ n /\ \A k \in 0 .. n - 1 : a >= 2 ^ k)]

(* What the machine's floating point does: the value of a finite float in units
   of the smallest denormal, and the float nearest to a value, ties to even. *)
Finite        == {u \in SUBSET (0 .. W - 2) : Exp(u) # MaxExp}
Magnitude     == [u \in Finite |->
                   LET frac == Num[u \intersect FracMask]
                   IN  IF Exp(u) = 0 THEN frac ELSE (2 ^ FB + frac) * 2 ^ (Exp(u) - 1)]
One           == 2 ^ (Bias - 1 + FB)
Away(u, m)    == IF Magnitude[u] < m THEN m - Magnitude[u] ELSE Magnitude[u] - m
Values        == {2 * Magnitude[u] : u \in Finite} \union {n * One : n \in 0 .. 2 ^ (W - 1)}
Nearest       == [m \in Values |->
                   LET least == Min({Away(u, m) : u \in Finite})
                       best  == {u \in Finite : Away(u, m) = least}
                   IN  CHOOSE u \in best : best = {u} \/ 0 \notin u]
\* Half a unit above the largest float is infinite.
Rounded(m) == IF 2 * m >= (2 ^ (FB + 2) - 1) * 2 ^ (MaxExp - 2) THEN ExpMask ELSE Nearest[m]

test_float_twice(uf) ==
  IF Exp(uf) = MaxExp THEN uf
  ELSE (uf \intersect Tmin) \union Rounded(2 * Magnitude[uf \ Tmin])
test_float_i2f(x) ==
  IF Negative(x) THEN Tmin \union Rounded(-Int_(x) * One) ELSE Rounded(Int_(x) * One)
\* Truncated; out of the range of int the machine gives Tmin.
test_float_f2i(uf) ==
  IF Exp(uf) = MaxExp THEN Tmin
  ELSE LET n == Magnitude[uf \ Tmin] \div One
       IN  CASE n >= 2 ^ (W - 1) -> Tmin
             [] OTHER -> IF Negative(uf) THEN Bits[-n] ELSE Bits[n]
===============================================================================
