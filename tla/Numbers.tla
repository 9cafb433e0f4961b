--------------------------------- MODULE Numbers ---------------------------------
(***************************************************************************)
(* How btest, ishow and fshow read a number from an argument (get_num_val, *)
(* one copy in each) and how the last two display it.  A text is what the  *)
(* library makes of it: strtoll reads an integer, 0 if there is none, and  *)
(* get_num_val does not look at what follows it; a text with a point or an *)
(* exponent goes to strtof, and nothing may follow the number.             *)
(***************************************************************************)
EXTENDS Bits

IntText(n, rest)   == [float |-> FALSE, value |-> n, rest |-> rest]
FloatText(u, rest) == [float |-> TRUE, value |-> u, rest |-> rest]
IsText(text) == /\ text.float \in BOOLEAN /\ text.rest \in BOOLEAN
                /\ IF text.float THEN text.value \in Word ELSE text.value \in Int

\* upperbits: the sign bit of a 32-bit int and all above it, as a number.
Fits_BugTooMany(n) == n \div 2 ^ (W - 1) \in -1 .. 2
Fits(n) == n \div 2 ^ (W - 1) \in {0, -1, 1}

\* The copies differ in what they take; each stores the 32 bits of what it takes.
TakenByFshow(text) == IF text.float THEN ~text.rest ELSE Fits(text.value)
TakenByIshow(text) == ~text.float /\ Fits(text.value)
\* btest tests the old value where the others test the pointer to it.
TakenByBtest(text, old) ==
  IF text.float THEN ~text.rest ELSE old = Zero /\ Fits(text.value)
Stored(text) == IF text.float THEN text.value ELSE Bits[text.value]

get_exp(uf)  == Exp(uf)
get_frac(uf) == Num[uf \intersect FracMask]
get_sign(uf) == IF Negative(uf) THEN 1 ELSE 0

\* The fields displayed: mantissa in units of 2^-FB, uexp the power of two.
show_float(uf) ==
  LET exp == get_exp(uf)
      class == CASE exp = MaxExp /\ get_frac(uf) = 0 -> "infinity"
                 [] exp = MaxExp /\ get_frac(uf) # 0 -> "nan"
                 [] exp = 0      -> "denormalized"
                 [] OTHER        -> "normalized"
  IN  [class |-> class, sign |-> get_sign(uf),
       uexp |-> IF exp = 0 THEN 1 - Bias ELSE exp - Bias,
       mantissa |-> IF exp = 0 THEN get_frac(uf) ELSE get_frac(uf) + 2 ^ FB]

show_int(uf) == [hex |-> uf, signed |-> Int_(uf), unsigned |-> Num[uf]]
===============================================================================
